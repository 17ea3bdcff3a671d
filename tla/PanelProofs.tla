----------------------------- MODULE PanelProofs -----------------------------
(***************************************************************************)
(* Theorems about the panel, for any number of operations and with         *)
(* encrypted names or without: what is kept in the vault, what becomes of  *)
(* the cancellation sources, of the overlay and of an edited listing.      *)
(***************************************************************************)
EXTENDS Panel, TLAPS

Stages == {"idle", "ask", "work", "worked", "setup", "detect", "recall", "retry",
           "list", "install", "expand", "try", "tried", "verify", "save", "saved"}
          \cup Done
Passwords == {"none", "right", "wrong"}
Handlers == HANDLERS \cup {Reader}
OpStates == [pc : Stages, does : Handlers, state : Owners \cup {Nobody},
             password : Passwords, blind : BOOLEAN, listing : Nat]
HandlerStates == [password : Passwords, entries : Nat, source : Owners \cup {Nobody}]

PanelTypeOK ==
  /\ file \in Nat
  /\ current \in Owners \cup {Nobody}
  /\ states \in [Owners -> HandlerStates]
  /\ vault \in Passwords
  /\ op \in [Owners -> OpStates]

\* An operation that is about to keep its password has had it tested, and the
\* password of an operation is never exchanged from there on.
Tested(o) == o.pc = "save" => SevenZip \/ o.password = "right"

\* The page sends messages only once the panel has a state.
Opened(o) == o.pc \in {"ask", "work", "worked", "setup"} => current \in Owners

VaultInv ==
  /\ PanelTypeOK
  /\ SevenZip \/ vault # "wrong"
  /\ \A o \in Owners : Tested(op[o]) /\ Opened(op[o])

-----------------------------------------------------------------------------
(* What the parts of a handler keep                                        *)

\* The rest of the panel's state stays well formed.
Typed ==
  /\ file' \in Nat
  /\ current' = current \/ current' \in Owners
  /\ states' \in [Owners -> HandlerStates]
  /\ vault' = vault

\* One operation goes on, the vault is left alone.
LEMMA GoKeeps ==
  ASSUME VaultInv, NEW o \in Owners, NEW next \in OpStates, Tested(next), Opened(next),
         op' = [op EXCEPT ![o] = next], Typed
  PROVE  VaultInv'
<1>1. op' \in [Owners -> OpStates]
  BY DEF VaultInv, PanelTypeOK
<1>2. \A p \in Owners : Tested(op'[p]) /\ Opened(op'[p])
  BY DEF VaultInv, PanelTypeOK
<1>3. PanelTypeOK' /\ (SevenZip \/ vault' # "wrong")
  BY <1>1 DEF VaultInv, PanelTypeOK, Typed
<1> QED
  BY <1>2, <1>3 DEF VaultInv, Typed, Tested, Opened

\* The state of an operation that is over, or has not begun.
LEMMA IdleType ==
  /\ Idle \in OpStates
  /\ \A how \in Done : /\ [Idle EXCEPT !.pc = how] \in OpStates
                       /\ Tested([Idle EXCEPT !.pc = how])
                       /\ Opened([Idle EXCEPT !.pc = how])
<1>1. Reader \in Handlers
  BY DEF Handlers
<1>2. Open \in Owners
  BY DEF Owners
<1>3. Idle \in OpStates
  <2> HIDE DEF Handlers, Reader
  <2> QED
    BY <1>1, <1>2 DEF Idle, OpStates, Stages, Passwords
<1>4. ASSUME NEW how \in Done
      PROVE  /\ [Idle EXCEPT !.pc = how] \in OpStates
             /\ Tested([Idle EXCEPT !.pc = how])
             /\ Opened([Idle EXCEPT !.pc = how])
  <2>1. how \in Stages /\ how \notin {"save", "ask", "work", "worked", "setup"}
    BY DEF Stages, Done
  <2> HIDE DEF Done
  <2> QED
    BY <1>3, <2>1 DEF OpStates, Tested, Opened
<1> QED
  BY <1>3, <1>4

\* An operation is over.
IsOver(o) == \E how \in Done : Over(o, how)

\* An operation that is over keeps nothing of the vault in hand.
LEMMA OverKeeps ==
  ASSUME VaultInv, NEW o \in Owners, IsOver(o), Typed
  PROVE  VaultInv'
<1>1. PICK how \in Done : op' = [op EXCEPT ![o] = [Idle EXCEPT !.pc = how]]
  BY DEF IsOver, Over
<1> DEFINE next == [Idle EXCEPT !.pc = how]
<1>2. next \in OpStates /\ Tested(next) /\ Opened(next)
  BY IdleType
<1> HIDE DEF next
<1>3. op' = [op EXCEPT ![o] = next]
  BY <1>1 DEF next
<1> QED
  BY <1>2, <1>3, GoKeeps

\* Installing, cancelling and disposing cancellation sources keeps the states.
LEMMA SourceType ==
  ASSUME PanelTypeOK, NEW s, NEW source \in Owners \cup {Nobody},
         states' = [states EXCEPT ![s].source = source]
  PROVE  states' \in [Owners -> HandlerStates]
  BY DEF PanelTypeOK, HandlerStates

\* startOperation() only installs a source.
LEMMA StartType ==
  ASSUME PanelTypeOK, NEW o \in Owners, NEW s, startOperation(o, s)
  PROVE  states' \in [Owners -> HandlerStates]
  BY SourceType DEF startOperation

\* endOperation() only disposes of one.
LEMMA EndType ==
  ASSUME PanelTypeOK, NEW s, endOperation(s)
  PROVE  states' \in [Owners -> HandlerStates]
  BY SourceType DEF endOperation

\* The end of a handler is over, whatever it disposes of.
LEMMA EndsKeeps ==
  ASSUME PanelTypeOK, NEW o \in Owners, Ends(o)
  PROVE  IsOver(o) /\ states' \in [Owners -> HandlerStates]
<1>1. IsOver(o)
  BY DEF Ends, IsOver, Done
<1>2. states' \in [Owners -> HandlerStates]
  BY EndType DEF Ends, PanelTypeOK
<1> QED
  BY <1>1, <1>2

\* A handler's finally block keeps the vault invariant.
LEMMA FinallyKeeps ==
  ASSUME VaultInv, NEW o \in Owners, NEW messages, Finally(o, messages),
         UNCHANGED <<file, current, vault>>
  PROVE  VaultInv'
  BY EndsKeeps, OverKeeps DEF Finally, Typed, VaultInv, PanelTypeOK

\* An operation that only moves on, not to keeping a password.
LEMMA MoveKeeps ==
  ASSUME VaultInv, NEW o \in Owners, NEW pc \in Stages \ {"save"}, Goes(o, pc), Typed,
         pc \in {"ask", "work", "worked", "setup"} => current \in Owners
  PROVE  VaultInv'
<1> DEFINE next == [op[o] EXCEPT !.pc = pc]
<1>1. next \in OpStates /\ Tested(next) /\ op' = [op EXCEPT ![o] = next]
  BY DEF Goes, VaultInv, PanelTypeOK, OpStates, Tested
<1>2. Opened(next)
  BY DEF VaultInv, PanelTypeOK, OpStates, Opened
<1> HIDE DEF next
<1> QED
  BY <1>1, <1>2, GoKeeps

\* A setup that ends, with the panel's states or with a new one.
LEMMA SetupEndsKeeps ==
  ASSUME VaultInv, NEW o \in Owners, NEW s \in [Owners -> HandlerStates],
         NEW page, NEW shown, SetupEnds(o, s, page, shown),
         UNCHANGED <<file, vault>>, current' = current \/ current' \in Owners
  PROVE  VaultInv'
<1>1. IsOver(o)
  BY DEF SetupEnds, IsOver, Done
<1>2. states' \in [Owners -> HandlerStates]
  BY DEF SetupEnds, HandlerStates
<1> QED
  BY <1>1, <1>2, OverKeeps DEF Typed, VaultInv, PanelTypeOK

\* A state made for a file just opened is well typed.
LEMMA NewStateType ==
  ASSUME PanelTypeOK, NEW o \in Owners, NEW pw \in Passwords, NEW entries \in Nat
  PROVE  NewState(o, pw, entries) \in [Owners -> HandlerStates]
  BY DEF PanelTypeOK, HandlerStates, NewState

\* Showing the password page keeps the vault invariant.
LEMMA PasswordPageKeeps ==
  ASSUME VaultInv, NEW o \in Owners, NEW pw \in Passwords, PasswordPage(o, pw),
         UNCHANGED <<file, vault>>
  PROVE  VaultInv'
<1>1. NewState(o, pw, 0) \in [Owners -> HandlerStates]
  BY NewStateType DEF VaultInv
<1> QED
  BY <1>1, SetupEndsKeeps DEF PasswordPage

\* What becomes of a message that the router or its handler does not take.
Ignored(o) == Refuse(o) \/ Misdirect(o)
LEMMA IgnoredFacts ==
  ASSUME NEW o, Ignored(o)
  PROVE  /\ op[o].pc = "idle" /\ current # Nobody
         /\ \E how \in {"dropped", "refused"} : Over(o, how)
         /\ UNCHANGED <<file, current, states, html, vault, cancelled, disposed>>
         /\ \/ view' = view
            \/ view' = "content"
            \/ view' = "locked" /\ Over(o, "refused")
  BY DEF Ignored, Refuse, Misdirect, Posted

-----------------------------------------------------------------------------
(* The handlers                                                            *)

\* Every step of a message handler keeps the vault invariant.
LEMMA HandlerKeeps ==
  ASSUME VaultInv, NEW o \in Owners, Handler(o)
  PROVE  VaultInv'
<1>1. PanelTypeOK /\ op[o] \in OpStates /\ Opened(op[o])
  BY DEF VaultInv, PanelTypeOK
<1>2. CASE Dispatch(o)
  <2>1. /\ UNCHANGED <<file, current, vault>> /\ op[o].pc = "idle"
        /\ current \in Owners
    BY <1>1, <1>2 DEF Dispatch, PanelTypeOK
  <2>2. ASSUME NEW h \in HANDLERS, NEW pc \in {"ask", "work"},
               op' = [op EXCEPT ![o].does = h, ![o].state = current, ![o].pc = pc],
               states' \in [Owners -> HandlerStates]
        PROVE  VaultInv'
    <3> DEFINE next == [op[o] EXCEPT !.does = h, !.state = current, !.pc = pc]
    <3>1. h \in Handlers
      BY DEF Handlers
    <3>2. /\ next \in OpStates /\ Tested(next) /\ Opened(next)
          /\ op' = [op EXCEPT ![o] = next]
      <4> HIDE DEF Handlers
      <4> QED
        BY <1>1, <2>1, <2>2, <3>1 DEF OpStates, Stages, Tested, Opened
    <3> HIDE DEF next
    <3> QED
      BY <2>1, <2>2, <3>2, GoKeeps DEF Typed, VaultInv, PanelTypeOK
  <2>3. ASSUME NEW h \in HANDLERS, NEW message, Starts(o, h, message) PROVE VaultInv'
    <3>1. states' \in [Owners -> HandlerStates]
      BY <1>1, <2>3, StartType DEF Starts
    <3>2. CASE h.asks = "after"
      BY <2>2, <2>3, <3>1, <3>2 DEF Starts
    <3>3. CASE h.asks # "after"
      BY <2>2, <2>3, <3>1, <3>3 DEF Starts
    <3> QED
      BY <3>2, <3>3
  <2>4. ASSUME NEW h \in HANDLERS, UNCHANGED states,
               op' = [op EXCEPT ![o].does = h, ![o].state = current, ![o].pc = "ask"]
        PROVE  VaultInv'
    BY <1>1, <2>2, <2>4 DEF PanelTypeOK
  <2> HIDE DEF HANDLERS
  <2> QED
    BY <1>2, <2>3, <2>4 DEF Dispatch
<1>3. CASE Dismiss(o)
  <2>1. IsOver(o)
    BY <1>3 DEF Dismiss, IsOver, Done
  <2>2. states' \in [Owners -> HandlerStates]
    BY <1>1, <1>3, EndType DEF Dismiss, PanelTypeOK
  <2> QED
    BY <1>1, <1>3, <2>1, <2>2, OverKeeps DEF Dismiss, Typed, PanelTypeOK
<1>4. CASE Accept(o)
  <2>1. UNCHANGED <<file, current, vault>>
    BY <1>4 DEF Accept
  <2>2. CASE Finally(o, {})
    BY <2>1, <2>2, FinallyKeeps
  <2>3. CASE ~Finally(o, {})
    <3>1. Goes(o, "work")
      BY <1>4, <2>3 DEF Accept
    <3>2. states' \in [Owners -> HandlerStates]
      BY <1>1, <1>4, <2>3, StartType DEF Accept, PanelTypeOK
    <3>3. "work" \in Stages \ {"save"} /\ current \in Owners
      BY <1>1, <1>4 DEF Accept, Opened, Stages
    <3> QED
      BY <1>1, <2>1, <3>1, <3>2, <3>3, MoveKeeps DEF Typed, PanelTypeOK
  <2> QED
    BY <2>2, <2>3
<1>5. CASE Work(o)
  <2>1. file' \in Nat
    BY <1>1, <1>5 DEF Work, Outcomes, PanelTypeOK
  <2>2. "worked" \in Stages \ {"save"} /\ current \in Owners
    BY <1>1, <1>5 DEF Work, Opened, Stages
  <2> QED
    BY <1>1, <1>5, <2>1, <2>2, MoveKeeps DEF Work, Typed, PanelTypeOK
<1>6. CASE WorkFails(o)
  BY <1>6, FinallyKeeps DEF WorkFails
<1>7. CASE Worked(o)
  <2>1. UNCHANGED <<file, current, vault>>
    BY <1>7 DEF Worked
  <2>2. ASSUME Goes(o, "setup"), UNCHANGED states PROVE VaultInv'
    <3>1. "setup" \in Stages \ {"save"} /\ current \in Owners
      BY <1>1, <1>7 DEF Worked, Opened, Stages
    <3> QED
      BY <1>1, <2>1, <2>2, <3>1, MoveKeeps DEF Typed, PanelTypeOK
  <2>3. ASSUME NEW messages, Finally(o, messages) PROVE VaultInv'
    BY <2>1, <2>3, FinallyKeeps
  <2> QED
    BY <1>7, <2>2, <2>3 DEF Worked
<1>8. CASE Ignored(o)
  <2>1. IsOver(o)
    BY <1>8, IgnoredFacts DEF IsOver, Done
  <2> QED
    BY <1>1, <1>8, <2>1, IgnoredFacts, OverKeeps DEF Typed, PanelTypeOK
<1> QED
  BY <1>2, <1>3, <1>4, <1>5, <1>6, <1>7, <1>8 DEF Handler, Ignored

\* Every step of a refresh keeps it.
LEMMA RefreshKeeps ==
  ASSUME VaultInv, NEW o \in Owners, Refresh(o)
  PROVE  VaultInv'
<1>1. PanelTypeOK /\ op[o] \in OpStates /\ Opened(op[o])
  BY DEF VaultInv, PanelTypeOK
<1>2. CASE Setup(o)
  <2> DEFINE next == [op[o] EXCEPT !.pc = "detect", !.password = states[current].password]
  <2>1. states[current].password \in Passwords
    BY <1>1, <1>2 DEF Setup, Opened, PanelTypeOK, HandlerStates
  <2>2. /\ next \in OpStates /\ Tested(next) /\ Opened(next)
        /\ op' = [op EXCEPT ![o] = next]
    BY <1>1, <1>2, <2>1 DEF Setup, OpStates, Stages, Tested, Opened
  <2> HIDE DEF next
  <2> QED
    BY <1>1, <1>2, <2>2, GoKeeps DEF Setup, Typed, PanelTypeOK
<1>3. CASE Detect(o)
  <2>1. ASSUME NEW blind \in BOOLEAN, NEW pc \in {"recall", "retry"},
               op' = [op EXCEPT ![o].blind = blind, ![o].pc = pc]
        PROVE  VaultInv'
    <3> DEFINE next == [op[o] EXCEPT !.blind = blind, !.pc = pc]
    <3>1. /\ next \in OpStates /\ Tested(next) /\ Opened(next)
          /\ op' = [op EXCEPT ![o] = next]
      BY <1>1, <2>1 DEF OpStates, Stages, Tested, Opened
    <3> HIDE DEF next
    <3> QED
      BY <1>1, <1>3, <3>1, GoKeeps DEF Detect, Typed, PanelTypeOK
  <2> QED
    BY <1>3, <2>1 DEF Detect
<1>4. CASE renderOversizeMessage(o) \/ ListFails(o)
  BY <1>1, <1>4, SetupEndsKeeps DEF renderOversizeMessage, ListFails, PanelTypeOK
<1>5. CASE Recall(o)
  <2>1. UNCHANGED <<file, vault>>
    BY <1>5 DEF Recall
  <2>2. CASE vault = "none"
    BY <1>5, <2>1, <2>2, PasswordPageKeeps DEF Recall, Passwords
  <2>3. CASE vault # "none"
    <3> DEFINE next == [op[o] EXCEPT !.pc = "retry", !.password = vault]
    <3>1. /\ next \in OpStates /\ Tested(next) /\ Opened(next)
          /\ op' = [op EXCEPT ![o] = next]
      BY <1>1, <1>5, <2>3 DEF PanelTypeOK, Recall, OpStates, Stages, Passwords, Tested, Opened
    <3>2. Typed
      BY <1>1, <1>5, <2>3 DEF Recall, Typed, PanelTypeOK
    <3> HIDE DEF next
    <3> QED
      BY <3>1, <3>2, GoKeeps
  <2> QED
    BY <2>2, <2>3
<1>6. CASE Retry(o)
  <2>1. UNCHANGED <<file, vault>> /\ op[o].password \in Passwords
    BY <1>1, <1>6 DEF Retry, OpStates
  <2>2. ASSUME Goes(o, "list"), UNCHANGED <<current, states>> PROVE VaultInv'
    <3>1. "list" \in Stages \ {"save"}
      BY DEF Stages
    <3> QED
      BY <1>1, <2>1, <2>2, <3>1, MoveKeeps DEF Typed, PanelTypeOK
  <2>3. ASSUME PasswordPage(o, op[o].password) PROVE VaultInv'
    BY <2>1, <2>3, PasswordPageKeeps
  <2> QED
    BY <1>6, <2>2, <2>3 DEF Retry
<1>7. CASE List(o)
  <2> DEFINE next == [op[o] EXCEPT !.pc = "install", !.listing = file]
  <2>1. /\ next \in OpStates /\ Tested(next) /\ Opened(next)
        /\ op' = [op EXCEPT ![o] = next]
    BY <1>1, <1>7 DEF List, OpStates, Stages, Tested, Opened, PanelTypeOK
  <2> HIDE DEF next
  <2> QED
    BY <1>1, <1>7, <2>1, GoKeeps DEF List, Typed, PanelTypeOK
<1>8. CASE Install(o)
  <2>1. states' \in [Owners -> HandlerStates]
    BY <1>1, <1>8, NewStateType DEF Install, OpStates
  <2>2. "expand" \in Stages \ {"save"}
    BY DEF Stages
  <2> QED
    BY <1>1, <1>8, <2>1, <2>2, MoveKeeps DEF Install, Typed, PanelTypeOK
<1>9. CASE Expand(o)
  <2>1. UNCHANGED <<file, current, vault>>
    BY <1>9 DEF Expand
  <2>2. CASE Finally(o, {})
    BY <2>1, <2>2, FinallyKeeps
  <2>3. CASE Over(o, "ended") /\ UNCHANGED states
    <3>1. IsOver(o)
      BY <2>3 DEF IsOver, Done
    <3> QED
      BY <1>1, <2>1, <2>3, <3>1, OverKeeps DEF Typed, PanelTypeOK
  <2> QED
    BY <1>9, <2>2, <2>3 DEF Expand
<1> QED
  BY <1>2, <1>3, <1>4, <1>5, <1>6, <1>7, <1>8, <1>9 DEF Refresh

\* Every step of an unlock keeps it.
LEMMA UnlockKeeps ==
  ASSUME VaultInv, NEW o \in Owners, Unlock(o)
  PROVE  VaultInv'
<1>1. PanelTypeOK /\ op[o] \in OpStates /\ Tested(op[o])
  BY DEF VaultInv, PanelTypeOK
<1>2. CASE Submit(o)
  <2>1. states' \in [Owners -> HandlerStates] /\ UNCHANGED <<file, current, vault>>
    BY <1>1, <1>2, StartType DEF Submit
  <2>2. Typed
    BY <1>1, <2>1 DEF Typed, PanelTypeOK
  <2>3. PICK pw \in {"right", "wrong"} :
          op' = [op EXCEPT ![o].does = handlePassword, ![o].state = current,
                           ![o].password = pw, ![o].pc = "try"]
    BY <1>2 DEF Submit
  <2> DEFINE next == [op[o] EXCEPT !.does = handlePassword, !.state = current,
                                   !.password = pw, !.pc = "try"]
  <2>4. handlePassword \in Handlers /\ current \in Owners \cup {Nobody}
    BY <1>1 DEF Handlers, handlePassword, PanelTypeOK
  <2>5. /\ next \in OpStates /\ Tested(next) /\ Opened(next)
        /\ op' = [op EXCEPT ![o] = next]
    BY <1>1, <2>3, <2>4 DEF OpStates, Stages, Passwords, Tested, Opened
  <2> HIDE DEF next
  <2> QED
    BY <2>2, <2>5, GoKeeps
<1>3. CASE Try(o)
  <2> DEFINE next == [op[o] EXCEPT !.pc = "tried", !.listing = file]
  <2>1. /\ next \in OpStates /\ Tested(next) /\ Opened(next)
        /\ op' = [op EXCEPT ![o] = next]
    BY <1>1, <1>3 DEF Try, OpStates, Stages, Tested, Opened, PanelTypeOK
  <2> HIDE DEF next
  <2> QED
    BY <1>1, <1>3, <2>1, GoKeeps DEF Try, Typed, PanelTypeOK
<1>4. CASE TryFails(o)
  BY <1>4, FinallyKeeps DEF TryFails
<1>5. CASE Tried(o)
  <2>1. UNCHANGED <<file, current, vault>>
    BY <1>5 DEF Tried
  <2>2. CASE o \in cancelled
    BY <1>5, <2>1, <2>2, FinallyKeeps DEF Tried
  <2>3. CASE o \notin cancelled
    <3>1. states' \in [Owners -> HandlerStates]
      BY <1>1, <1>5, <2>3 DEF Tried, PanelTypeOK, HandlerStates, OpStates
    <3>2. CASE ~SevenZip
      <4>1. Goes(o, "verify") /\ "verify" \in Stages \ {"save"}
        BY <1>5, <2>3, <3>2 DEF Tried, Stages
      <4> QED
        BY <1>1, <2>1, <3>1, <4>1, MoveKeeps DEF Typed, PanelTypeOK
    <3>3. CASE SevenZip
      <4> DEFINE next == [op[o] EXCEPT !.pc = "save"]
      <4>1. /\ next \in OpStates /\ Tested(next) /\ Opened(next)
            /\ op' = [op EXCEPT ![o] = next]
        BY <1>1, <1>5, <2>3, <3>3 DEF Tried, Goes, OpStates, Stages, Tested, Opened
      <4> HIDE DEF next
      <4> QED
        BY <1>1, <2>1, <3>1, <4>1, GoKeeps DEF Typed, PanelTypeOK
    <3> QED
      BY <3>2, <3>3
  <2> QED
    BY <2>2, <2>3
<1>6. CASE verifyArchivePassword(o)
  <2>1. UNCHANGED <<file, current, vault>>
    BY <1>6 DEF verifyArchivePassword
  <2>2. ASSUME op[o].password = "right", Goes(o, "save"), UNCHANGED states
        PROVE  VaultInv'
    <3> DEFINE next == [op[o] EXCEPT !.pc = "save"]
    <3>1. /\ next \in OpStates /\ Tested(next) /\ Opened(next)
          /\ op' = [op EXCEPT ![o] = next]
      BY <1>1, <2>2 DEF Goes, OpStates, Stages, Tested, Opened
    <3> HIDE DEF next
    <3> QED
      BY <1>1, <2>1, <2>2, <3>1, GoKeeps DEF Typed, PanelTypeOK
  <2>3. ASSUME Finally(o, {"pwerr"}) PROVE VaultInv'
    BY <2>1, <2>3, FinallyKeeps
  <2> QED
    BY <1>6, <2>2, <2>3 DEF verifyArchivePassword
<1>7. CASE saveArchivePassword(o)
  <2>1. /\ vault' \in Passwords /\ (SevenZip \/ vault' = "right")
        /\ UNCHANGED <<file, current, states>>
    BY <1>1, <1>7 DEF saveArchivePassword, Tested, OpStates
  <2>2. op' \in [Owners -> OpStates]
    BY <1>1, <1>7 DEF saveArchivePassword, Goes, OpStates, Stages, PanelTypeOK
  <2>3. \A p \in Owners : Tested(op'[p]) /\ Opened(op'[p])
    BY <1>7 DEF saveArchivePassword, Goes, VaultInv, PanelTypeOK, OpStates, Tested, Opened
  <2> QED
    BY <1>1, <2>1, <2>2, <2>3 DEF VaultInv, PanelTypeOK, Passwords, Tested, Opened
<1>8. CASE Saved(o)
  <2>1. UNCHANGED <<file, current, vault>>
    BY <1>8 DEF Saved
  <2>2. CASE o \in cancelled
    BY <1>8, <2>1, <2>2, FinallyKeeps DEF Saved
  <2>3. CASE o \notin cancelled
    <3>1. states' \in [Owners -> HandlerStates]
      BY <1>1, <1>8, <2>3 DEF Saved, PanelTypeOK, HandlerStates, OpStates
    <3>2. Goes(o, "expand")
      BY <1>8, <2>3 DEF Saved
    <3>3. "expand" \in Stages \ {"save"}
      BY DEF Stages
    <3> QED
      BY <1>1, <2>1, <3>1, <3>2, <3>3, MoveKeeps DEF Typed, PanelTypeOK
  <2> QED
    BY <2>2, <2>3
<1> QED
  BY <1>2, <1>3, <1>4, <1>5, <1>6, <1>7, <1>8 DEF Unlock

\* The panel's state is well formed for any number of operations, and what its
\* handlers look up in the panel is there.
THEOREM VaultKept == Spec => []VaultInv
<1>1. Init => VaultInv
  <2> SUFFICES ASSUME Init PROVE VaultInv
    OBVIOUS
  <2>1. [Idle EXCEPT !.pc = "detect"] \in OpStates
    BY IdleType DEF OpStates, Stages
  <2>2. op \in [Owners -> OpStates]
    BY <2>1, IdleType DEF Init
  <2>3. \A o \in Owners : op[o].pc \in {"idle", "detect"}
    BY DEF Init, Idle
  <2>4. states \in [Owners -> HandlerStates]
    BY DEF Init, HandlerStates, Passwords
  <2> QED
    BY <2>2, <2>3, <2>4 DEF Init, VaultInv, PanelTypeOK, Passwords, Tested, Opened
<1>2. VaultInv /\ [Next]_vars => VaultInv'
  <2> SUFFICES ASSUME VaultInv, [Next]_vars PROVE VaultInv'
    OBVIOUS
  <2>1. CASE Next
    BY <2>1, HandlerKeeps, RefreshKeeps, UnlockKeeps DEF Next
  <2>2. CASE UNCHANGED vars
    BY <2>2 DEF vars, VaultInv, PanelTypeOK, Tested, Opened
  <2> QED
    BY <2>1, <2>2
<1> QED
  BY <1>1, <1>2, PTL DEF Spec

\* OnlyVerifiedKept: where passwords are tested at all, only one the archive was
\* tested with is kept for the session, for any number of operations on a panel
\* and in whatever order attempts, set-ups and cancellations are mixed.
THEOREM VaultHoldsVerified == ~SevenZip => (Spec => []OnlyVerifiedKept)
<1> SUFFICES ASSUME ~SevenZip PROVE Spec => []OnlyVerifiedKept
  OBVIOUS
<1>1. VaultInv => OnlyVerifiedKept
  BY DEF VaultInv, OnlyVerifiedKept
<1> QED
  BY <1>1, VaultKept, PTL

-----------------------------------------------------------------------------
(* Cancellation sources: what an operation leaves behind                   *)

Refreshing == {"setup", "detect", "recall", "retry", "list", "install"}
Unlocking == {"try", "tried", "verify", "save", "saved"}
Past == {"expand"} \cup Done

Live(r) == r.pc \notin {"idle"} \cup Done

\* An operation that has a source, or has had one.
Begun(r) == Live(r) /\ r.does.token /\ ~(r.pc = "ask" /\ r.does.asks = "before")

\* Which handler is at which stage.
Staged(r) ==
  /\ r.pc = "ask" => r.does.asks # "never"
  /\ r.pc \in Refreshing => r.does.edits
  /\ r.pc \in Unlocking => r.does = handlePassword

\* A handler has the state of a setup that is through.
Placed(r) ==
  Live(r) => current \in Owners /\ r.state \in Owners /\ op[r.state].pc \in Past

StageInv ==
  /\ PanelTypeOK
  /\ op[Open].pc \in (Refreshing \ {"setup"}) \cup Past
  /\ current \in Owners => op[current].pc \in Past /\ op[Open].pc \in Past
  /\ view = "password" \/ file # 1 => current \in Owners
  /\ \A o \in Ops : Staged(op[o]) /\ Placed(op[o])

\* The source of an operation is the one its state has, or is settled.  That of
\* a message not sent yet is nowhere.
Sourced(o) ==
  /\ Begun(op[o]) => o \in cancelled \cup disposed \/ states[op[o].state].source = o
  /\ op[o].pc \in Done \ {"dropped", "refused"} => o \in cancelled \cup disposed
  /\ op[o].pc = "idle" => o \notin cancelled /\ \A s \in Owners : states[s].source # o

SourceInv == StageInv /\ \A o \in Ops : Sourced(o)

\* One step of operation o, which is next after it.
StepsTo(o, next) ==
  /\ next \in OpStates /\ next.pc # "idle" /\ (o # Open => Staged(next))
  /\ op' = [op EXCEPT ![o] = next]
  /\ op[o].pc \in Past => next.pc \in Done
  /\ o = Open => next.pc \in (Refreshing \ {"setup"}) \cup Past
  /\ Live(next) => \/ Live(op[o]) /\ next.state = op[o].state
                   \/ current \in Owners /\ next.state = current
  /\ file' \in Nat /\ vault' \in Passwords /\ states' \in [Owners -> HandlerStates]
  /\ current' = current \/ (current' = o /\ next.pc \in Past /\ Live(op[o]))
  /\ view' = "password" => view = "password" \/ current' \in Owners
  /\ file' # file => current \in Owners

\* What the step does to the sources: it takes one away only when that one is
\* settled, or with the old state of a setup that no operation works on.
Resources(o, next) ==
  /\ cancelled \subseteq cancelled' /\ disposed \subseteq disposed'
  /\ \A p \in cancelled' \ cancelled : \E s \in Owners : states[s].source = p
  /\ \A s \in Owners :
       \/ states'[s].source = states[s].source
       \/ /\ states'[s].source \in {Nobody, o}
          /\ \/ states[s].source \in cancelled' \cup disposed' \cup {Nobody}
             \/ s = o /\ op[o].pc \notin Past
  /\ Begun(next) => \/ Begun(op[o]) /\ next.state = op[o].state
                    \/ states'[next.state].source = o
  /\ next.pc \in Done \ {"dropped", "refused"} /\ o # Open =>
       Begun(op[o]) /\ states[op[o].state].source \in disposed' \cup {Nobody}

Step(o) == \E next : StepsTo(o, next) /\ Resources(o, next)

\* The handlers of the panel.
LEMMA HandlerFacts ==
  /\ Reader \in HANDLERS
  /\ Handlers = HANDLERS
  /\ \A h \in HANDLERS :
       /\ h.token \in BOOLEAN /\ h.edits \in BOOLEAN /\ h.idle \in BOOLEAN
       /\ h.says \in BOOLEAN /\ h.dismissed \in BOOLEAN /\ h.busy \in BOOLEAN
       /\ h.heeds \in BOOLEAN /\ h.keys \in BOOLEAN
       /\ h.asks \in {"never", "before", "after"}
       /\ h.edits <=> h.asks = "before"
       /\ h.asks = "never" <=> ~h.idle
       /\ ~h.token => h.edits
       /\ h.heeds => h.idle
       /\ h.dismissed => h.idle
       /\ h.idle /\ h # handleRename => h.dismissed
       /\ h.keys => h.asks # "after"
       /\ h.asks = "never" /\ (h.keys \/ h.busy) => h.says
  /\ Reader.asks = "never" /\ ~Reader.edits /\ Reader.token /\ ~Reader.busy
  /\ ~handleRename.busy \/ handleRename.asks = "before"
  /\ handleDelete.edits
  /\ ~handleRename.dismissed /\ handleDelete.dismissed /\ runAddToArchive.dismissed
BY DEF HANDLERS, Handlers, Reader, Writer, Editor, handleExtractAll, handleExtractSelected,
       handleTest, handlePreview, handleConvert, handleEncrypt, handleDecrypt, handleMerge,
       handleSplit, handleDelete, handleRename, handleNewFolder, runAddToArchive

\* A step keeps what is known of the sources: the ones that are running
\* operations' own, or settled.
LEMMA SourceStep ==
  ASSUME SourceInv, NEW o \in Owners, Step(o)
  PROVE  SourceInv'
<1>1. PICK next : StepsTo(o, next) /\ Resources(o, next)
  BY DEF Step
<1>2. /\ PanelTypeOK /\ Open \in Owners /\ Nobody \notin Owners
      /\ op[o] \in OpStates /\ next \in OpStates
      /\ \A p \in Owners : op[p] \in OpStates /\ (p # o => op'[p] = op[p])
      /\ op'[o] = next
  BY <1>1, PanelAssumption DEF SourceInv, StageInv, PanelTypeOK, StepsTo, Owners
<1>3. PanelTypeOK'
  BY <1>1, <1>2 DEF StepsTo, PanelTypeOK
<1>4. \A s \in Owners : op[s].pc \in Past => op'[s].pc \in Past
  BY <1>1, <1>2 DEF StepsTo, Past
<1>5. /\ op'[Open].pc \in (Refreshing \ {"setup"}) \cup Past
      /\ current' \in Owners => op'[current'].pc \in Past /\ op'[Open].pc \in Past
      /\ view' = "password" \/ file' # 1 => current' \in Owners
  <2>1. op'[Open].pc \in (Refreshing \ {"setup"}) \cup Past
    BY <1>1, <1>2 DEF StepsTo, SourceInv, StageInv
  <2>2. current \in Owners => current' \in Owners
    BY <1>1 DEF StepsTo
  <2>3. ASSUME current' \in Owners PROVE op'[current'].pc \in Past /\ op'[Open].pc \in Past
    <3>1. CASE current' = current
      BY <1>4, <2>3, <3>1, <1>2 DEF SourceInv, StageInv
    <3>2. CASE current' = o /\ next.pc \in Past
      <4>1. CASE o = Open
        BY <1>2, <3>2, <4>1
      <4>2. CASE o # Open
        <5>1. current \in Owners
          BY <1>1, <1>2, <3>2, <4>2 DEF StepsTo, SourceInv, StageInv, Placed, Owners
        <5> QED
          BY <1>2, <1>4, <3>2, <5>1 DEF SourceInv, StageInv
      <4> QED
        BY <4>1, <4>2
    <3> QED
      BY <1>1, <3>1, <3>2 DEF StepsTo
  <2>4. view' = "password" \/ file' # 1 => current' \in Owners
    BY <1>1, <2>2 DEF StepsTo, SourceInv, StageInv
  <2> QED
    BY <2>1, <2>3, <2>4
<1>6. \A p \in Ops : Staged(op'[p]) /\ Placed(op[p])'
  <2> SUFFICES ASSUME NEW p \in Ops PROVE Staged(op'[p]) /\ Placed(op[p])'
    OBVIOUS
  <2>1. p \in Owners /\ Staged(op[p]) /\ Placed(op[p])
    BY DEF SourceInv, StageInv, Owners
  <2>2. current \in Owners => current' \in Owners
    BY <1>1 DEF StepsTo
  <2>3. CASE p # o
    BY <1>2, <1>4, <2>1, <2>2, <2>3 DEF Placed
  <2>4. CASE p = o
    <3>1. Staged(next)
      BY <1>1, <2>4, PanelAssumption DEF StepsTo
    <3>2. ASSUME Live(next)
          PROVE  current \in Owners /\ next.state \in Owners /\ op[next.state].pc \in Past
      BY <1>1, <2>1, <2>4, <3>2 DEF StepsTo, Placed, SourceInv, StageInv
    <3> QED
      BY <1>2, <1>4, <2>2, <2>4, <3>1, <3>2 DEF Placed
  <2> QED
    BY <2>3, <2>4
<1>7. StageInv'
  BY <1>3, <1>5, <1>6 DEF StageInv
<1>8. ASSUME NEW p \in Ops PROVE Sourced(p)'
  <2>1. p \in Owners /\ Sourced(p) /\ p # Nobody /\ Placed(op[p])
    BY <1>2, <1>8 DEF SourceInv, StageInv, Owners
  <2>2. cancelled \subseteq cancelled' /\ disposed \subseteq disposed'
    BY <1>1 DEF Resources
  <2>3. ASSUME Begun(op[p]), states[op[p].state].source = p, p # o \/ Live(next)
        PROVE  \/ p \in cancelled' \cup disposed'
               \/ states'[op[p].state].source = p
    <3>1. op[p].state \in Owners /\ op[op[p].state].pc \in Past
      BY <2>1, <2>3 DEF Begun, Placed
    <3>2. op[p].state = o => op[o].pc \in Past
      BY <3>1
    <3> QED
      BY <1>1, <2>1, <2>3, <3>1, <3>2 DEF Resources
  <2>4. CASE p # o
    <3>1. op'[p] = op[p]
      BY <1>2, <2>1, <2>4
    <3>2. Begun(op[p]) => p \in cancelled' \cup disposed' \/ states'[op[p].state].source = p
      BY <2>1, <2>2, <2>3, <2>4 DEF Sourced
    <3>3. op[p].pc = "idle" => p \notin cancelled' /\ \A s \in Owners : states'[s].source # p
      BY <1>1, <2>1, <2>4 DEF Resources, Sourced
    <3> QED
      BY <2>1, <2>2, <3>1, <3>2, <3>3 DEF Sourced
  <2>5. CASE p = o
    <3>1. op'[p] = next /\ next.pc # "idle"
      BY <1>1, <1>2, <2>5 DEF StepsTo
    <3>2. Begun(next) => p \in cancelled' \cup disposed' \/ states'[next.state].source = p
      BY <1>1, <2>1, <2>2, <2>3, <2>5 DEF Resources, Sourced, Begun
    <3>3. next.pc \in Done \ {"dropped", "refused"} => p \in cancelled' \cup disposed'
      BY <1>1, <1>8, <2>1, <2>2, <2>5, PanelAssumption DEF Resources, Sourced
    <3> QED
      BY <3>1, <3>2, <3>3 DEF Sourced
  <2> QED
    BY <2>4, <2>5
<1> QED
  BY <1>7, <1>8 DEF SourceInv

-----------------------------------------------------------------------------
(* Every action is such a step                                             *)

\* What an operation is entitled to assume when it goes on.
LEMMA Known ==
  ASSUME SourceInv, NEW o \in Owners
  PROVE  /\ PanelTypeOK /\ op[o] \in OpStates /\ file \in Nat /\ vault \in Passwords
         /\ states \in [Owners -> HandlerStates]
         /\ Open \in Owners /\ Nobody \notin Owners
         /\ (Live(op[o]) /\ o # Open) => /\ o \in Ops /\ current \in Owners
                                       /\ op[o].state \in Owners
                                       /\ op[op[o].state].pc \in Past
                                       /\ Staged(op[o])
         /\ o = Open => op[o].pc \in (Refreshing \ {"setup"}) \cup Past
         /\ op[o].does \in HANDLERS
         /\ o \in Ops => Sourced(o) /\ Staged(op[o])
  BY PanelAssumption, HandlerFacts
  DEF SourceInv, StageInv, PanelTypeOK, Placed, Owners, OpStates

\* An operation goes on with the sources as they are.
LEMMA MoveStep ==
  ASSUME SourceInv, NEW o \in Owners, NEW next \in OpStates,
         op' = [op EXCEPT ![o] = next],
         Live(op[o]), op[o].pc \notin Past, Live(next), next.pc # "ask",
         o # Open => Staged(next),
         next.state = op[o].state, next.does = op[o].does,
         op[o].pc = "ask" => op[o].does.asks # "before" \/ ~op[o].does.token,
         o = Open => next.pc \in (Refreshing \ {"setup"}) \cup Past,
         UNCHANGED <<cancelled, disposed, current>>,
         states' \in [Owners -> HandlerStates],
         \A s \in Owners : states'[s].source = states[s].source,
         file' \in Nat, vault' \in Passwords,
         view' = view \/ view' # "password",
         file' # file => current \in Owners
  PROVE  Step(o)
<1>1. next.pc # "idle" /\ next.pc \notin Done
  BY DEF Live
<1>2. StepsTo(o, next)
  BY <1>1 DEF StepsTo
<1>3. Resources(o, next)
  <2>1. Begun(next) => Begun(op[o])
    BY DEF Begun
  <2> QED
    BY <1>1, <2>1 DEF Resources
<1> QED
  BY <1>2, <1>3 DEF Step

\* An operation is started, and what was running on its state is cancelled.
LEMMA StartStep ==
  ASSUME SourceInv, NEW o \in Owners, NEW next \in OpStates,
         op' = [op EXCEPT ![o] = next],
         o # Open, op[o].pc \in {"idle", "ask"}, Live(next), Staged(next),
         next.state \in Owners,
         \/ current \in Owners /\ next.state = current
         \/ Live(op[o]) /\ next.state = op[o].state,
         startOperation(o, next.state),
         UNCHANGED <<file, current, vault, disposed>>,
         view' = view \/ view' # "password"
  PROVE  Step(o)
<1>1. next.pc # "idle" /\ next.pc \notin Done /\ op[o].pc \notin Past
  BY DEF Live, Past, Done
<1>2. states' \in [Owners -> HandlerStates]
  BY Known, StartType
<1>3. StepsTo(o, next)
  BY <1>1, <1>2, Known DEF StepsTo
<1>4. Resources(o, next)
  <2>1. /\ \A s \in Owners : states'[s].source = IF s = next.state THEN o ELSE states[s].source
        /\ cancelled' = cancelled \cup ({states[next.state].source} \ {Nobody})
    BY Known DEF startOperation, HandlerStates
  <2> QED
    BY <1>1, <2>1 DEF Resources
<1> QED
  BY <1>3, <1>4 DEF Step

\* An operation is over and its state's source is disposed, or it never had one.
LEMMA OverStep ==
  ASSUME SourceInv, NEW o \in Owners, NEW how \in Done, Over(o, how),
         Live(op[o]), o # Open,
         op[o].pc = "ask" => op[o].does.asks = "after" \/ how = "dropped",
         IF how = "dropped" THEN UNCHANGED <<states, disposed>>
         ELSE op[o].does.token /\ endOperation(op[o].state),
         UNCHANGED <<file, current, vault, cancelled>>,
         view' = view \/ view' # "password"
  PROVE  Step(o)
<1> DEFINE next == [Idle EXCEPT !.pc = how]
<1>1. next \in OpStates /\ next.pc = how /\ how # "idle" /\ ~Live(next) /\ Staged(next)
  BY IdleType DEF Done, Live, Staged, Refreshing, Unlocking, Idle
<1>2. op' = [op EXCEPT ![o] = next]
  BY DEF Over
<1> HIDE DEF next
<1>3. states' \in [Owners -> HandlerStates]
  BY Known, EndType
<1>4. StepsTo(o, next)
  BY <1>1, <1>2, <1>3, Known DEF StepsTo
<1>5. Resources(o, next)
  <2>1. CASE how = "dropped"
    BY <1>1, <2>1 DEF Resources, Begun
  <2>2. CASE how # "dropped"
    <3>1. /\ op[o].state \in Owners
          /\ \A s \in Owners : states'[s].source =
               IF s = op[o].state THEN Nobody ELSE states[s].source
          /\ disposed' = disposed \cup ({states[op[o].state].source} \ {Nobody})
      BY <2>2, Known DEF endOperation, HandlerStates
    <3>2. Begun(op[o])
      BY <2>2 DEF Begun
    <3> QED
      BY <1>1, <3>1, <3>2 DEF Resources, Begun
  <2> QED
    BY <2>1, <2>2
<1> QED
  BY <1>4, <1>5 DEF Step

\* A handler's finally block is a step as the source invariant wants it, and shows
\* the content or leaves the view.
LEMMA FinallyStep ==
  ASSUME SourceInv, NEW o \in Owners, NEW messages \in {{}, {"ok"}, {"err"}, {"pwerr"}},
         Finally(o, messages),
         Live(op[o]), o # Open, op[o].pc = "ask" => op[o].does.asks = "after",
         UNCHANGED <<file, current, vault, cancelled>>
  PROVE  Step(o) /\ view' \in {view, "content"}
<1>1. view' \in {view, "content"}
  <2>1. \A m \in {"ok", "err", "pwerr"} : (CHOOSE n \in {m} : TRUE) = m
    OBVIOUS
  <2> QED
    BY <2>1 DEF Finally, Posted
<1>2. PICK how \in Done : Over(o, how) /\ (how = "dropped" <=> ~op[o].does.token)
  <2> DEFINE end == CASE op[o].pc = "worked" /\ op[o].does.edits /\ o \in cancelled
                           -> "left"
                      [] op[o].pc = "expand" /\ ~op[o].does.edits -> "unlocked"
                      [] OTHER -> "ended"
  <2>1. end \in Done \ {"dropped", "refused"}
    BY DEF Done
  <2>2. Over(o, IF ~op[o].does.token THEN "dropped" ELSE end)
    BY DEF Finally, Ends
  <2> HIDE DEF end
  <2> QED
    BY <2>1, <2>2 DEF Done
<1>3. IF how = "dropped" THEN UNCHANGED <<states, disposed>>
      ELSE op[o].does.token /\ endOperation(op[o].state)
  BY <1>2 DEF Finally, Ends
<1> QED
  BY <1>1, <1>2, <1>3, OverStep

\* A set-up ends, with the panel's states or with a new one.
LEMMA SetupEndsStep ==
  ASSUME SourceInv, NEW o \in Owners, NEW s \in [Owners -> HandlerStates],
         NEW page \in {"empty", "password"}, NEW shown, SetupEnds(o, s, page, shown),
         op[o].pc \in Refreshing,
         \A p \in Owners : \/ s[p].source = states[p].source
                           \/ p = o /\ s[p].source = Nobody,
         UNCHANGED <<file, vault, cancelled>>,
         current' = current \/ current' = o,
         page = "password" => current' = o
  PROVE  Step(o)
<1> DEFINE how == IF o = Open \/ op[o].does.token THEN "ended" ELSE "dropped"
           next == [Idle EXCEPT !.pc = how]
           waited == o # Open /\ op[o].does.token
<1>1. /\ Live(op[o]) /\ op[o].pc \notin Past /\ op[o].pc # "ask"
      /\ how \in {"ended", "dropped"}
  BY DEF Live, Refreshing, Done, Past
<1>2. next \in OpStates /\ next.pc = how /\ how # "idle" /\ ~Live(next) /\ Staged(next)
      /\ how \in Done /\ next.pc \in Past
  BY <1>1, IdleType DEF Done, Live, Staged, Refreshing, Unlocking, Idle, Past
<1>3. op' = [op EXCEPT ![o] = next]
  BY DEF SetupEnds, Over
<1>4. /\ waited => /\ op[o].state \in Owners /\ op[o].state # o
                   /\ disposed' = disposed \cup ({s[op[o].state].source} \ {Nobody})
                   /\ states' = [s EXCEPT ![op[o].state].source = Nobody]
      /\ ~waited => disposed' = disposed /\ states' = s
  <2>1. waited => op[o].state \in Owners /\ op[o].state # o
    BY <1>1, Known
  <2> QED
    BY <2>1 DEF SetupEnds
<1>5. (waited => how = "ended" /\ Begun(op[o])) /\ (~waited /\ o # Open => how = "dropped")
  BY <1>1, Known, HandlerFacts DEF Begun
<1>6. view' = "password" => current' \in Owners
  BY DEF SetupEnds, Posted
<1> HIDE DEF next, how, waited
<1>7. states' \in [Owners -> HandlerStates]
  BY <1>4 DEF HandlerStates
<1>8. StepsTo(o, next)
  BY <1>1, <1>2, <1>3, <1>6, <1>7, Known DEF StepsTo
<1>9. Resources(o, next)
  <2>1. CASE waited
    <3>1. /\ \A p \in Owners : states'[p].source =
               IF p = op[o].state THEN Nobody ELSE s[p].source
          /\ s[op[o].state].source = states[op[o].state].source
      BY <1>4, <2>1 DEF HandlerStates
    <3> QED
      BY <1>1, <1>2, <1>4, <1>5, <2>1, <3>1 DEF Resources, Begun
  <2>2. CASE ~waited
    BY <1>1, <1>2, <1>4, <1>5, <2>2 DEF Resources, Begun
  <2> QED
    BY <2>1, <2>2
<1> QED
  BY <1>8, <1>9 DEF Step

\* The router and the handlers.
LEMMA HandlerStep ==
  ASSUME SourceInv, NEW o \in Owners, Handler(o)
  PROVE  Step(o)
<1>1. /\ o # Open /\ op[o].pc \in {"idle", "ask", "work", "worked"}
      /\ op[o].pc \notin Past /\ (op[o].pc # "idle" => Live(op[o]))
  BY Known DEF Handler, Refuse, Misdirect, Dispatch, Dismiss, Accept, Work, WorkFails,
     Worked, Refreshing, Past, Done, Live
<1>2. CASE Dispatch(o)
  <2>1. /\ UNCHANGED <<file, current, vault, disposed>> /\ op[o].pc = "idle"
        /\ current \in Owners
    BY <1>2, Known DEF Dispatch, PanelTypeOK
  <2>2. ASSUME NEW h \in HANDLERS, NEW pc \in {"ask", "work"}, h.asks = "never" => pc = "work",
               op' = [op EXCEPT ![o].does = h, ![o].state = current, ![o].pc = pc]
        PROVE  \E next \in OpStates :
                 /\ op' = [op EXCEPT ![o] = next] /\ next.state = current
                 /\ Live(next) /\ Staged(next) /\ next.pc = pc /\ next.does = h
    <3> DEFINE next == [op[o] EXCEPT !.does = h, !.state = current, !.pc = pc]
    <3>1. h \in Handlers
      BY HandlerFacts
    <3>2. /\ next \in OpStates /\ Live(next) /\ Staged(next) /\ next.state = current
          /\ op' = [op EXCEPT ![o] = next] /\ next.pc = pc /\ next.does = h
      <4> HIDE DEF Handlers, HANDLERS
      <4> QED
        BY <2>1, <2>2, <3>1, Known
        DEF OpStates, Stages, Live, Staged, Done, Refreshing, Unlocking
    <3> HIDE DEF next
    <3> QED
      BY <3>2
  <2>3. ASSUME NEW h \in HANDLERS, NEW message \in {"busy", "none"}, Starts(o, h, message)
        PROVE  Step(o)
    <3>1. PICK pc \in {"ask", "work"} :
            /\ h.asks = "never" => pc = "work"
            /\ op' = [op EXCEPT ![o].does = h, ![o].state = current, ![o].pc = pc]
      BY <2>3 DEF Starts
    <3>2. PICK next \in OpStates : /\ op' = [op EXCEPT ![o] = next] /\ next.state = current
                                   /\ Live(next) /\ Staged(next)
      BY <2>2, <3>1
    <3>3. view' = view \/ view' # "password"
      BY <2>3 DEF Starts, Posted
    <3> QED
      BY <1>1, <2>1, <2>3, <3>2, <3>3, StartStep DEF Starts
  <2>4. ASSUME NEW h \in HANDLERS, h.asks = "before", UNCHANGED <<states, cancelled>>,
               op' = [op EXCEPT ![o].does = h, ![o].state = current, ![o].pc = "ask"],
               view' \in {view, "loading", "locked"}
        PROVE  Step(o)
    <3>1. PICK next \in OpStates :
            /\ op' = [op EXCEPT ![o] = next] /\ next.state = current
            /\ Live(next) /\ Staged(next) /\ next.pc = "ask" /\ next.does = h
      BY <2>2, <2>4
    <3>2. StepsTo(o, next)
      BY <1>1, <2>1, <2>4, <3>1, Known DEF StepsTo
    <3>3. Resources(o, next)
      BY <2>1, <2>4, <3>1 DEF Resources, Begun, Done
    <3> QED
      BY <3>2, <3>3 DEF Step
  <2> HIDE DEF HANDLERS
  <2>5. PICK h \in HANDLERS :
          \/ Starts(o, h, IF h.asks = "never" /\ h.busy THEN "busy" ELSE "none")
          \/ /\ h.asks = "before" /\ UNCHANGED <<states, cancelled>>
             /\ op' = [op EXCEPT ![o].does = h, ![o].state = current, ![o].pc = "ask"]
             /\ view' \in {view, "loading", "locked"}
    BY <1>2 DEF Dispatch
  <2> QED
    BY <2>3, <2>4, <2>5
<1>3. CASE Dismiss(o)
  <2>1. view' = view \/ view' # "password"
    BY <1>3 DEF Dismiss, Posted
  <2>2. CASE op[o].does.asks = "after"
    <3>1. Over(o, "ended") /\ endOperation(op[o].state) /\ "ended" \in Done
      BY <1>3, <2>2 DEF Dismiss, Done
    <3>2. op[o].does.token
      BY <2>2, Known, HandlerFacts
    <3> QED
      BY <1>1, <1>3, <2>1, <2>2, <3>1, <3>2, OverStep DEF Dismiss
  <2>3. CASE op[o].does.asks # "after"
    <3>1. Over(o, "dropped") /\ UNCHANGED <<states, disposed>> /\ "dropped" \in Done
      BY <1>3, <2>3 DEF Dismiss, Done
    <3> QED
      BY <1>1, <1>3, <2>1, <3>1, OverStep DEF Dismiss
  <2> QED
    BY <2>2, <2>3
<1>4. CASE Accept(o)
  <2>1. UNCHANGED <<file, current, vault>> /\ op[o].pc = "ask" /\ op[o].does.asks # "never"
    BY <1>1, <1>4, Known DEF Accept, Staged
  <2>2. CASE op[o].does.asks = "after" /\ o \in cancelled
    BY <1>1, <1>4, <2>1, <2>2, FinallyStep DEF Accept
  <2>3. CASE ~(op[o].does.asks = "after" /\ o \in cancelled)
    <3> DEFINE next == [op[o] EXCEPT !.pc = "work"]
    <3>1. /\ next \in OpStates /\ op' = [op EXCEPT ![o] = next] /\ next.state = op[o].state
          /\ next.does = op[o].does /\ next.pc = "work"
      BY <1>4, <2>3, Known DEF Accept, Goes, OpStates, Stages
    <3> HIDE DEF next
    <3>2. Live(next) /\ Staged(next)
      BY <3>1 DEF Live, Staged, Done, Refreshing, Unlocking
    <3>3. view' # "password" /\ UNCHANGED disposed
      BY <1>4, <2>3 DEF Accept, Posted
    <3>4. CASE op[o].does.asks = "before" /\ op[o].does.token
      <4>1. startOperation(o, op[o].state)
        BY <1>4, <2>3, <3>4 DEF Accept
      <4> QED
        BY <1>1, <2>1, <3>1, <3>2, <3>3, <4>1, Known, StartStep
    <3>5. CASE ~(op[o].does.asks = "before" /\ op[o].does.token)
      <4>1. UNCHANGED <<states, cancelled>>
        BY <1>4, <2>3, <3>5 DEF Accept
      <4> QED
        BY <1>1, <2>1, <3>1, <3>2, <3>3, <3>5, <4>1, Known, MoveStep
    <3> QED
      BY <3>4, <3>5
  <2> QED
    BY <2>2, <2>3
<1>5. CASE Work(o)
  <2> DEFINE next == [op[o] EXCEPT !.pc = "worked"]
  <2>1. /\ next \in OpStates /\ op' = [op EXCEPT ![o] = next] /\ next.state = op[o].state
        /\ next.does = op[o].does /\ next.pc = "worked"
    BY <1>5, Known DEF Work, Goes, OpStates, Stages
  <2> HIDE DEF next
  <2>2. Live(next) /\ Staged(next)
    BY <2>1 DEF Live, Staged, Done, Refreshing, Unlocking
  <2>3. file' \in Nat
    BY <1>5, Known DEF Work, Outcomes
  <2> QED
    BY <1>1, <1>5, <2>1, <2>2, <2>3, Known, MoveStep DEF Work
<1>6. CASE WorkFails(o)
  <2>1. \E messages \in {{}, {"err"}} : Finally(o, messages)
    BY <1>6 DEF WorkFails
  <2> QED
    BY <1>1, <1>6, <2>1, FinallyStep DEF WorkFails
<1>7. CASE Worked(o)
  <2>1. CASE \E messages \in {{}, {"ok"}} : Finally(o, messages)
    BY <1>1, <1>7, <2>1, FinallyStep DEF Worked
  <2>2. CASE Goes(o, "setup") /\ op[o].does.edits /\ UNCHANGED <<states, view, disposed>>
    <3> DEFINE next == [op[o] EXCEPT !.pc = "setup"]
    <3>1. /\ next \in OpStates /\ op' = [op EXCEPT ![o] = next] /\ next.state = op[o].state
          /\ next.does = op[o].does /\ next.pc = "setup"
      BY <2>2, Known DEF Goes, OpStates, Stages
    <3> HIDE DEF next
    <3>2. Live(next) /\ Staged(next)
      BY <2>2, <3>1 DEF Live, Staged, Done, Refreshing, Unlocking
    <3> QED
      BY <1>1, <1>7, <2>2, <3>1, <3>2, Known, MoveStep DEF Worked
  <2> QED
    BY <1>7, <2>1, <2>2 DEF Worked
<1>8. CASE Ignored(o)
  <2>1. PICK how \in {"dropped", "refused"} : Over(o, how)
    BY <1>8, IgnoredFacts
  <2> DEFINE next == [Idle EXCEPT !.pc = how]
  <2>2. /\ next \in OpStates /\ next.pc = how /\ ~Live(next) /\ Staged(next)
        /\ op' = [op EXCEPT ![o] = next]
    BY <2>1, IdleType DEF Over, Done, Live, Staged, Refreshing, Unlocking, Idle
  <2> HIDE DEF next
  <2>3. StepsTo(o, next)
    BY <1>1, <1>8, <2>2, IgnoredFacts, Known DEF StepsTo
  <2>4. Resources(o, next)
    BY <1>8, <2>2, IgnoredFacts DEF Resources, Begun
  <2> QED
    BY <2>3, <2>4 DEF Step
<1> QED
  BY <1>2, <1>3, <1>4, <1>5, <1>6, <1>7, <1>8 DEF Handler, Ignored

\* The state a set-up makes is nobody's yet.
LEMMA NewStateSources ==
  ASSUME PanelTypeOK, NEW o \in Owners, NEW pw \in Passwords, NEW entries \in Nat
  PROVE  /\ NewState(o, pw, entries) \in [Owners -> HandlerStates]
         /\ \A p \in Owners : IF p = o THEN NewState(o, pw, entries)[p].source = Nobody
                              ELSE NewState(o, pw, entries)[p] = states[p]
  BY NewStateType DEF PanelTypeOK, NewState

\* The set-up ends with the password page and a state of its own.
LEMMA PasswordPageStep ==
  ASSUME SourceInv, NEW o \in Owners, NEW pw \in Passwords, PasswordPage(o, pw),
         op[o].pc \in Refreshing, UNCHANGED <<file, vault, cancelled>>
  PROVE  Step(o)
<1>1. /\ NewState(o, pw, 0) \in [Owners -> HandlerStates]
      /\ \A p \in Owners : \/ NewState(o, pw, 0)[p].source = states[p].source
                           \/ p = o /\ NewState(o, pw, 0)[p].source = Nobody
  BY Known, NewStateSources
<1> QED
  BY <1>1, SetupEndsStep DEF PasswordPage

\* setupWebview(), run by Open and by the handlers of edits.
LEMMA RefreshStep ==
  ASSUME SourceInv, NEW o \in Owners, Refresh(o)
  PROVE  Step(o)
<1>0. op[o] \in OpStates /\ file \in Nat /\ vault \in Passwords
  BY Known
<1>1. /\ op[o].pc \in Refreshing \cup {"expand"} /\ Live(op[o])
      /\ (op[o].pc # "expand" => op[o].pc \notin Past)
      /\ op[o].does.edits \/ op[o].pc = "expand" \/ o = Open
  BY Known DEF Refresh, Setup, Detect, renderOversizeMessage, Recall, Retry, List,
     ListFails, Install, Expand, Refreshing, Past, Done, Live, Staged
<1>2. ASSUME NEW next \in OpStates, op' = [op EXCEPT ![o] = next], op[o].pc # "expand",
             next.pc \in Refreshing \ {"setup"}, next.state = op[o].state,
             next.does = op[o].does,
             UNCHANGED <<file, current, states, vault, cancelled, disposed>>,
             view' = view \/ view' # "password"
      PROVE  Step(o)
  <2>1. Live(next) /\ next.pc # "ask" /\ op[o].pc # "ask"
    BY <1>1, <1>2 DEF Live, Done, Refreshing
  <2>2. o # Open => Staged(next)
    BY <1>1, <1>2 DEF Staged, Refreshing, Unlocking
  <2> QED
    BY <1>1, <1>2, <2>1, <2>2, Known, MoveStep
<1>3. CASE Setup(o)
  <2> DEFINE next == [op[o] EXCEPT !.pc = "detect", !.password = states[current].password]
  <2>1. states[current].password \in Passwords
    BY <1>1, <1>3, Known DEF Setup, Refreshing, HandlerStates
  <2>2. /\ next \in OpStates /\ op' = [op EXCEPT ![o] = next] /\ next.state = op[o].state
        /\ next.does = op[o].does /\ next.pc \in Refreshing \ {"setup"}
    BY <1>0, <1>3, <2>1 DEF Setup, OpStates, Stages, Refreshing
  <2> HIDE DEF next
  <2> QED
    BY <1>2, <1>3, <2>2 DEF Setup
<1>4. CASE Detect(o)
  <2>1. PICK blind \in BOOLEAN, pc \in {"recall", "retry"} :
          op' = [op EXCEPT ![o].blind = blind, ![o].pc = pc]
    BY <1>4 DEF Detect
  <2> DEFINE next == [op[o] EXCEPT !.blind = blind, !.pc = pc]
  <2>2. /\ next \in OpStates /\ op' = [op EXCEPT ![o] = next] /\ next.state = op[o].state
        /\ next.does = op[o].does /\ next.pc \in Refreshing \ {"setup"}
    BY <1>0, <1>4, <2>1 DEF Detect, OpStates, Stages, Refreshing
  <2> HIDE DEF next
  <2> QED
    BY <1>2, <1>4, <2>2 DEF Detect
<1>5. CASE renderOversizeMessage(o) \/ ListFails(o)
  <2>1. op[o].pc \in Refreshing /\ SetupEnds(o, states, "empty", 0)
        /\ UNCHANGED <<file, current, vault, cancelled>>
    BY <1>5 DEF renderOversizeMessage, ListFails, Refreshing
  <2> QED
    BY <2>1, Known, SetupEndsStep
<1>6. CASE Recall(o)
  <2>1. CASE PasswordPage(o, "none")
    BY <1>6, <2>1, PasswordPageStep DEF Recall, Refreshing, Passwords
  <2>2. CASE ~PasswordPage(o, "none")
    <3> DEFINE next == [op[o] EXCEPT !.pc = "retry", !.password = vault]
    <3>1. /\ next \in OpStates /\ op' = [op EXCEPT ![o] = next] /\ next.state = op[o].state
          /\ next.does = op[o].does /\ next.pc \in Refreshing \ {"setup"}
      BY <1>0, <1>6, <2>2 DEF Recall, OpStates, Stages, Refreshing
    <3> HIDE DEF next
    <3> QED
      BY <1>2, <1>6, <2>2, <3>1 DEF Recall
  <2> QED
    BY <2>1, <2>2
<1>7. CASE Retry(o)
  <2>1. CASE PasswordPage(o, op[o].password)
    BY <1>7, <2>1, Known, PasswordPageStep DEF Retry, Refreshing, OpStates
  <2>2. CASE ~PasswordPage(o, op[o].password)
    <3> DEFINE next == [op[o] EXCEPT !.pc = "list"]
    <3>1. /\ next \in OpStates /\ op' = [op EXCEPT ![o] = next] /\ next.state = op[o].state
          /\ next.does = op[o].does /\ next.pc \in Refreshing \ {"setup"}
      BY <1>0, <1>7, <2>2 DEF Retry, Goes, OpStates, Stages, Refreshing
    <3> HIDE DEF next
    <3> QED
      BY <1>2, <1>7, <2>2, <3>1 DEF Retry
  <2> QED
    BY <2>1, <2>2
<1>8. CASE List(o)
  <2> DEFINE next == [op[o] EXCEPT !.pc = "install", !.listing = file]
  <2>1. /\ next \in OpStates /\ op' = [op EXCEPT ![o] = next] /\ next.state = op[o].state
        /\ next.does = op[o].does /\ next.pc \in Refreshing \ {"setup"}
    BY <1>0, <1>8 DEF List, OpStates, Stages, Refreshing
  <2> HIDE DEF next
  <2> QED
    BY <1>2, <1>8, <2>1 DEF List
<1>9. CASE Install(o)
  <2> DEFINE next == [op[o] EXCEPT !.pc = "expand"]
  <2>1. /\ next \in OpStates /\ op' = [op EXCEPT ![o] = next] /\ next.state = op[o].state
        /\ next.does = op[o].does /\ next.pc = "expand"
    BY <1>0, <1>9 DEF Install, Goes, OpStates, Stages
  <2> HIDE DEF next
  <2>2. next.pc \in Past /\ Live(next) /\ Staged(next) /\ op[o].pc \notin Past
    BY <1>1, <1>9, <2>1 DEF Install, Past, Live, Staged, Done, Refreshing, Unlocking
  <2>3. /\ states' \in [Owners -> HandlerStates]
        /\ \A p \in Owners : \/ states'[p].source = states[p].source
                             \/ p = o /\ states'[p].source = Nobody
    BY <1>9, Known, NewStateSources DEF Install, OpStates
  <2>4. StepsTo(o, next)
    BY <1>1, <1>9, <2>1, <2>2, <2>3, Known DEF Install, StepsTo
  <2>5. Resources(o, next)
    <3>1. Begun(next) => Begun(op[o])
      BY <1>1, <1>9, <2>1 DEF Begun, Install
    <3> QED
      BY <1>9, <2>1, <2>2, <2>3, <3>1 DEF Resources, Install, Done
  <2> QED
    BY <2>4, <2>5 DEF Step
<1>10. CASE Expand(o)
  <2>1. CASE o # Open
    BY <1>1, <1>10, <2>1, FinallyStep DEF Expand
  <2>2. CASE o = Open
    <3> DEFINE next == [Idle EXCEPT !.pc = "ended"]
    <3>1. /\ next \in OpStates /\ op' = [op EXCEPT ![o] = next] /\ next.pc = "ended"
      BY <1>10, <2>2, IdleType DEF Expand, Over, Done, Idle
    <3> HIDE DEF next
    <3>2. next.pc \in Done /\ next.pc \in Past /\ ~Live(next)
      BY <3>1 DEF Done, Past, Live
    <3>3. StepsTo(o, next)
      BY <1>10, <2>2, <3>1, <3>2, Known DEF Expand, StepsTo
    <3>4. Resources(o, next)
      BY <1>10, <2>2, <3>1, <3>2 DEF Expand, Resources, Begun
    <3> QED
      BY <3>3, <3>4 DEF Step
  <2> QED
    BY <2>1, <2>2
<1> QED
  BY <1>3, <1>4, <1>5, <1>6, <1>7, <1>8, <1>9, <1>10 DEF Refresh

\* handlePassword().
LEMMA UnlockStep ==
  ASSUME SourceInv, NEW o \in Owners, Unlock(o)
  PROVE  Step(o)
<1>0. op[o] \in OpStates /\ current \in Owners \cup {Nobody}
  BY Known DEF PanelTypeOK
<1>1. /\ o # Open /\ op[o].pc \in {"idle"} \cup Unlocking
      /\ op[o].pc \notin Past /\ op[o].pc # "ask" /\ (op[o].pc # "idle" => Live(op[o]))
      /\ UNCHANGED <<file, current>>
  BY Known DEF Unlock, Submit, Try, TryFails, Tried, verifyArchivePassword,
     saveArchivePassword, Saved, Refreshing, Past, Done, Live, Unlocking
<1>2. ASSUME NEW next \in OpStates, op' = [op EXCEPT ![o] = next], op[o].pc # "idle",
             next.pc \in Unlocking \cup {"expand"}, next.state = op[o].state,
             next.does = op[o].does,
             UNCHANGED <<cancelled, disposed>>, vault' \in Passwords,
             states' \in [Owners -> HandlerStates],
             \A s \in Owners : states'[s].source = states[s].source,
             view' = view \/ view' # "password"
      PROVE  Step(o)
  <2>1. Live(next) /\ next.pc # "ask"
    BY <1>2 DEF Live, Done, Unlocking
  <2>2. Staged(next)
    BY <1>1, <1>2, Known DEF Staged, Refreshing, Unlocking
  <2> QED
    BY <1>1, <1>2, <2>1, <2>2, Known, MoveStep
<1>3. ASSUME NEW pc \in {"tried", "verify", "save", "saved", "expand"}, NEW listing \in Nat,
             op' = [op EXCEPT ![o].pc = pc, ![o].listing = listing]
      PROVE  \E next \in OpStates : /\ op' = [op EXCEPT ![o] = next]
               /\ next.pc \in Unlocking \cup {"expand"} /\ next.state = op[o].state
               /\ next.does = op[o].does
  <2> DEFINE next == [op[o] EXCEPT !.pc = pc, !.listing = listing]
  <2>1. /\ next \in OpStates /\ op' = [op EXCEPT ![o] = next] /\ next.state = op[o].state
        /\ next.does = op[o].does /\ next.pc = pc
    BY <1>0, <1>3 DEF OpStates, Stages
  <2> HIDE DEF next
  <2> QED
    BY <2>1 DEF Unlocking
<1>4. ASSUME NEW pc \in {"tried", "verify", "save", "saved", "expand"}, Goes(o, pc)
      PROVE  \E next \in OpStates : /\ op' = [op EXCEPT ![o] = next]
               /\ next.pc \in Unlocking \cup {"expand"} /\ next.state = op[o].state
               /\ next.does = op[o].does
  <2>1. op' = [op EXCEPT ![o].pc = pc, ![o].listing = op[o].listing]
    BY <1>4, Known DEF Goes, OpStates
  <2>2. op[o].listing \in Nat
    BY Known DEF OpStates
  <2> QED
    BY <1>3, <2>1, <2>2
<1>5. CASE Submit(o)
  <2>1. PICK pw \in {"right", "wrong"} :
          op' = [op EXCEPT ![o].does = handlePassword, ![o].state = current,
                           ![o].password = pw, ![o].pc = "try"]
    BY <1>5 DEF Submit
  <2> DEFINE next == [op[o] EXCEPT !.does = handlePassword, !.state = current,
                                   !.password = pw, !.pc = "try"]
  <2>2. current \in Owners /\ op[o].pc = "idle" /\ handlePassword \in Handlers
    BY <1>5, HandlerFacts DEF Submit, SourceInv, StageInv, handlePassword
  <2>3. /\ next \in OpStates /\ op' = [op EXCEPT ![o] = next] /\ next.state = current
        /\ next.does = handlePassword /\ next.pc = "try"
    BY <1>0, <2>1, <2>2 DEF OpStates, Stages, Passwords
  <2> HIDE DEF next
  <2>4. Live(next) /\ Staged(next)
    BY <2>3 DEF Live, Staged, Done, Refreshing, Unlocking
  <2> QED
    BY <1>1, <1>5, <2>2, <2>3, <2>4, StartStep DEF Submit
<1>6. CASE Try(o)
  BY <1>1, <1>2, <1>3, <1>6, Known DEF Try
<1>7. CASE TryFails(o)
  BY <1>1, <1>7, FinallyStep DEF TryFails
<1>8. CASE Tried(o)
  <2>1. CASE o \in cancelled
    BY <1>1, <1>8, <2>1, FinallyStep DEF Tried
  <2>2. CASE o \notin cancelled
    <3>1. states' \in [Owners -> HandlerStates]
          /\ \A s \in Owners : states'[s].source = states[s].source
      BY <1>8, <2>2, Known DEF Tried, OpStates, HandlerStates
    <3>2. \E pc \in {"save", "verify"} : Goes(o, pc)
      BY <1>8, <2>2 DEF Tried
    <3> QED
      BY <1>1, <1>2, <1>4, <1>8, <2>2, <3>1, <3>2, Known DEF Tried
  <2> QED
    BY <2>1, <2>2
<1>9. CASE verifyArchivePassword(o)
  <2>1. CASE Goes(o, "save") /\ UNCHANGED <<states, view, disposed>>
    BY <1>1, <1>2, <1>4, <1>9, <2>1, Known DEF verifyArchivePassword
  <2>2. CASE Finally(o, {"pwerr"})
    BY <1>1, <1>9, <2>2, FinallyStep DEF verifyArchivePassword
  <2> QED
    BY <1>9, <2>1, <2>2 DEF verifyArchivePassword
<1>10. CASE saveArchivePassword(o)
  <2>1. vault' \in Passwords
    BY <1>10, Known DEF saveArchivePassword, OpStates
  <2> QED
    BY <1>1, <1>2, <1>4, <1>10, <2>1, Known DEF saveArchivePassword
<1>11. CASE Saved(o)
  <2>1. CASE o \in cancelled
    BY <1>1, <1>11, <2>1, FinallyStep DEF Saved
  <2>2. CASE o \notin cancelled
    <3>1. states' \in [Owners -> HandlerStates]
          /\ \A s \in Owners : states'[s].source = states[s].source
      BY <1>11, <2>2, Known DEF Saved, OpStates, HandlerStates
    <3> QED
      BY <1>1, <1>2, <1>4, <1>11, <2>2, <3>1, Known DEF Saved
  <2> QED
    BY <2>1, <2>2
<1> QED
  BY <1>5, <1>6, <1>7, <1>8, <1>9, <1>10, <1>11 DEF Unlock

\* The panel is being opened and no message was sent.
LEMMA SourceInitial ==
  ASSUME Init
  PROVE  SourceInv
<1>1. /\ [Idle EXCEPT !.pc = "detect"] \in OpStates /\ Idle \in OpStates
      /\ [Idle EXCEPT !.pc = "detect"].pc = "detect" /\ Idle.pc = "idle"
  BY IdleType DEF OpStates, Stages, Idle
<1>2. /\ op \in [Owners -> OpStates] /\ op[Open].pc = "detect"
      /\ \A o \in Ops : op[o] = Idle
  BY <1>1, PanelAssumption DEF Init, Owners
<1>3. PanelTypeOK
  BY <1>2 DEF Init, PanelTypeOK, HandlerStates, Passwords
<1>4. \A o \in Ops : ~Live(op[o]) /\ Staged(op[o]) /\ op[o].pc \notin Done
  BY <1>1, <1>2 DEF Live, Staged, Done, Refreshing, Unlocking
<1>5. StageInv
  BY <1>2, <1>3, <1>4, PanelAssumption DEF Init, StageInv, Placed, Refreshing
<1>6. \A o \in Ops : Sourced(o)
  BY <1>4, PanelAssumption DEF Init, Sourced, Begun, Owners
<1> QED
  BY <1>5, <1>6 DEF SourceInv

\* Every step is one of those.
LEMMA SourceKept ==
  ASSUME SourceInv, [Next]_vars
  PROVE  SourceInv'
<1>1. CASE Next
  BY <1>1, HandlerStep, RefreshStep, UnlockStep, SourceStep DEF Next
<1>2. CASE UNCHANGED vars
  BY <1>2 DEF vars, SourceInv, StageInv, PanelTypeOK, Placed, Sourced
<1> QED
  BY <1>1, <1>2

\* SourcesSettled: the cancellation source of an operation that is over was
\* cancelled or disposed, for any number of operations and whichever of them
\* replaced the panel's state, or the source in it, while others went on.
THEOREM SourcesEndSettled == Spec => []SourcesSettled
<1>1. Init => SourceInv
  BY SourceInitial
<1>2. SourceInv /\ [Next]_vars => SourceInv'
  BY SourceKept
<1>3. SourceInv => SourcesSettled
  BY DEF SourceInv, Sourced, SourcesSettled
<1> QED
  BY <1>1, <1>2, <1>3, PTL DEF Spec

-----------------------------------------------------------------------------
(* The overlay                                                             *)

\* What the operation will take the overlay away with: its set-up renders a
\* page, its finally or its dismissed prompt posts loading: false, or it posts
\* an outcome, which only an operation that cancels it makes it keep back.
Clears(o) ==
  \/ op[o].pc \in Refreshing
  \/ /\ o # Open
     /\ \/ op[o].pc = "ask" /\ op[o].does.dismissed
        \/ op[o].pc \in {"work", "worked", "expand"} /\ op[o].does.idle
        \/ /\ op[o].pc \in {"work", "worked"}
           /\ op[o].does.says /\ ~op[o].does.edits /\ o \notin cancelled

Overlays == {"loading", "locked"}
Refused == \E o \in Ops : op[o].pc = "refused"
OverlayInv ==
  /\ SourceInv
  /\ view \in Overlays => (\E o \in Owners : Clears(o)) \/ (view = "locked" /\ Refused)

\* A step of o that takes no promise away while the overlay is up, or locks the
\* page for a message that is refused.
Overlaid(o) ==
  \/ view' \notin Overlays
  \/ Clears(o)'
  \/ o \in Ops /\ view' = "locked" /\ op'[o].pc = "refused"
  \/ view' = view /\ cancelled' = cancelled /\ ~Clears(o)

\* What was refused takes no step.
LEMMA RefusedRests ==
  ASSUME NEW o, Handler(o) \/ Refresh(o) \/ Unlock(o)
  PROVE  op[o].pc # "refused"
<1>1. CASE Handler(o)
  BY <1>1 DEF Handler, Refuse, Misdirect, Dispatch, Dismiss, Accept, Work, WorkFails, Worked
<1>2. CASE Refresh(o)
  BY <1>2 DEF Refresh, Setup, Detect, renderOversizeMessage, Recall, Retry, List, ListFails,
     Install, Expand
<1>3. CASE Unlock(o)
  BY <1>3 DEF Unlock, Submit, Try, TryFails, Tried, verifyArchivePassword,
     saveArchivePassword, Saved
<1> QED
  BY <1>1, <1>2, <1>3

\* Someone still promises to take the overlay away, or the page is locked for a
\* message that was refused.
LEMMA OverlayStep ==
  ASSUME OverlayInv, NEW o \in Owners, Step(o), Overlaid(o), op[o].pc # "refused"
  PROVE  OverlayInv'
<1>1. SourceInv'
  BY SourceStep DEF OverlayInv
<1>2. \A p \in Owners : p # o => op'[p] = op[p]
  BY DEF Step, StepsTo, OverlayInv, SourceInv, StageInv, PanelTypeOK
<1>3. ASSUME view' \in Overlays
      PROVE  (\E p \in Owners : Clears(p)') \/ (view' = "locked" /\ Refused')
  <2>1. CASE Clears(o)'
    BY <2>1
  <2>2. CASE o \in Ops /\ view' = "locked" /\ op'[o].pc = "refused"
    BY <2>2 DEF Refused
  <2>3. CASE view' = view /\ cancelled' = cancelled /\ ~Clears(o)
    <3>1. CASE \E p \in Owners : Clears(p)
      <4>1. PICK p \in Owners : Clears(p)
        BY <3>1
      <4>2. p # o
        BY <2>3, <4>1
      <4>3. Clears(p)'
        BY <1>2, <2>3, <4>1, <4>2 DEF Clears
      <4> QED
        BY <4>3
    <3>2. CASE view = "locked" /\ Refused
      <4>1. PICK p \in Ops : op[p].pc = "refused"
        BY <3>2 DEF Refused
      <4>2. p # o /\ p \in Owners
        BY <4>1 DEF Owners
      <4> QED
        BY <1>2, <2>3, <3>2, <4>1, <4>2 DEF Refused
    <3> QED
      BY <1>3, <2>3, <3>1, <3>2 DEF OverlayInv
  <2> QED
    BY <1>3, <2>1, <2>2, <2>3 DEF Overlaid
<1> QED
  BY <1>1, <1>3 DEF OverlayInv

\* What an operation is after it has gone on.
LEMMA GoesTo ==
  ASSUME PanelTypeOK, NEW o \in Owners, NEW pc, Goes(o, pc)
  PROVE  /\ op'[o].pc = pc /\ op'[o].does = op[o].does
         /\ op'[o].listing = op[o].listing
  BY DEF PanelTypeOK, OpStates, Goes

\* What it is when it is over.
LEMMA OverTo ==
  ASSUME PanelTypeOK, NEW o \in Owners, NEW how, Over(o, how)
  PROVE  op'[o].pc = how
  BY DEF PanelTypeOK, Over, Idle

\* What the page shows when an operation ends.
LEMMA FinallyShows ==
  ASSUME NEW o, NEW messages \in {{}, {"ok"}, {"err"}, {"pwerr"}}, Finally(o, messages)
  PROVE  view' = IF op[o].does.idle \/ messages \in {{"ok"}, {"err"}} THEN "content"
                 ELSE view
<1>1. \A m \in {"ok", "err", "pwerr"} : (CHOOSE n \in {m} : TRUE) = m
  OBVIOUS
<1> QED
  BY <1>1 DEF Finally, Posted

\* The handlers, and whom they cancel.
LEMMA HandlerOverlaid ==
  ASSUME SourceInv, NEW o \in Owners, Handler(o)
  PROVE  Overlaid(o)
<1> USE DEF Overlays
<1>1. /\ PanelTypeOK /\ o # Open /\ op[o].does \in HANDLERS
      /\ op[o].pc \in {"idle", "ask", "work", "worked"} /\ Staged(op[o])
      /\ (op[o].pc = "idle" => ~Clears(o))
  <2>1. o # Open /\ op[o].pc \in {"idle", "ask", "work", "worked"}
    BY Known DEF Handler, Refuse, Misdirect, Dispatch, Dismiss, Accept, Work, WorkFails,
       Worked, Refreshing, Past, Done
  <2>2. o \in Ops
    BY <2>1 DEF Owners
  <2> QED
    BY <2>1, <2>2, Known DEF Clears, Refreshing
<1>2. CASE Dispatch(o)
  <2>1. op[o].pc = "idle" /\ current \in Owners /\ ~Clears(o)
    BY <1>1, <1>2 DEF Dispatch, PanelTypeOK
  <2>0. handleRename # handleDelete /\ handleRename # runAddToArchive
    BY HandlerFacts
  <2>2. PICK h \in HANDLERS :
          /\ CanSend(h)
          /\ \/ /\ h.asks # "before"
                /\ Starts(o, h, IF h.asks = "never" /\ h.busy THEN "busy" ELSE "none")
             \/ /\ h.asks = "before" /\ UNCHANGED <<states, cancelled>>
                /\ op' = [op EXCEPT ![o].does = h, ![o].state = current, ![o].pc = "ask"]
                /\ h = handleRename => view' = view
    BY <1>2, <2>0 DEF Dispatch
  <2>3. CASE h.asks # "before"
    <3>1. CASE h.asks = "never" /\ h.says
      <4>1. op'[o].pc = "work" /\ op'[o].does = h
        BY <1>1, <2>2, <2>3, <3>1 DEF Starts, PanelTypeOK, OpStates
      <4>2. o \notin cancelled'
        <5>1. o \notin cancelled /\ \A s \in Owners : states[s].source # o
          BY <1>1, <2>1, Known DEF Sourced, Owners
        <5> QED
          BY <2>1, <2>2, <2>3, <5>1 DEF Starts, startOperation
      <4> QED
        BY <1>1, <3>1, <4>1, <4>2, HandlerFacts DEF Overlaid, Clears
    <3>2. CASE ~(h.asks = "never" /\ h.says)
      <4>1. ~(h.asks = "never" /\ h.busy) /\ ~h.keys
        BY <2>3, <3>2, HandlerFacts
      <4>2. view \notin Overlays
        BY <2>2, <4>1 DEF CanSend
      <4> QED
        BY <2>2, <2>3, <4>1, <4>2 DEF Starts, Posted, Overlaid
    <3> QED
      BY <3>1, <3>2
  <2>4. CASE h.asks = "before"
    <3>1. op'[o].pc = "ask" /\ op'[o].does = h
      BY <1>1, <2>2, <2>4 DEF PanelTypeOK, OpStates
    <3>2. CASE h = handleRename
      BY <2>1, <2>2, <2>4, <3>2 DEF Overlaid
    <3>3. CASE h # handleRename
      <4>1. h.dismissed
        BY <2>4, <3>3, HandlerFacts
      <4> QED
        BY <1>1, <3>1, <4>1 DEF Overlaid, Clears
    <3> QED
      BY <3>2, <3>3
  <2> QED
    BY <2>3, <2>4
<1>3. CASE Dismiss(o)
  <2>1. CASE op[o].does.dismissed
    BY <1>3, <2>1 DEF Dismiss, Posted, Overlaid
  <2>2. CASE ~op[o].does.dismissed
    BY <1>3, <2>2 DEF Dismiss, Overlaid, Clears, Refreshing
  <2> QED
    BY <2>1, <2>2
<1>4. CASE Accept(o)
  <2>1. op[o].does.idle
    BY <1>1, <1>4, HandlerFacts DEF Accept, Staged
  <2>2. CASE op[o].does.asks = "after" /\ o \in cancelled
    BY <1>4, <2>1, <2>2, FinallyShows DEF Accept, Overlaid
  <2>3. CASE ~(op[o].does.asks = "after" /\ o \in cancelled)
    <3>1. op'[o].pc = "work" /\ op'[o].does = op[o].does
      BY <1>1, <1>4, <2>3, GoesTo DEF Accept
    <3> QED
      BY <1>1, <2>1, <3>1 DEF Overlaid, Clears
  <2> QED
    BY <2>2, <2>3
<1>5. CASE Work(o)
  <2>1. op'[o].pc = "worked" /\ op'[o].does = op[o].does /\ UNCHANGED <<view, cancelled>>
    BY <1>1, <1>5, GoesTo DEF Work
  <2> QED
    BY <1>1, <1>5, <2>1 DEF Work, Overlaid, Clears, Refreshing
<1>6. CASE WorkFails(o)
  <2>1. PICK messages \in {{}, {"err"}} :
          /\ Finally(o, messages) /\ op[o].pc = "work" /\ UNCHANGED cancelled
          /\ op[o].does.says => messages = {"err"} \/ op[o].does.heeds
    BY <1>6 DEF WorkFails
  <2>2. view' = IF op[o].does.idle \/ messages = {"err"} THEN "content" ELSE view
    BY <2>1, FinallyShows
  <2>3. op[o].does.heeds => op[o].does.idle
    BY <1>1, HandlerFacts
  <2>4. CASE op[o].does.idle \/ messages = {"err"}
    BY <2>2, <2>4 DEF Overlaid
  <2>5. CASE ~(op[o].does.idle \/ messages = {"err"})
    BY <2>1, <2>2, <2>3, <2>5 DEF Overlaid, Clears, Refreshing
  <2> QED
    BY <2>4, <2>5
<1>7. CASE Worked(o)
  <2>1. op[o].pc = "worked" /\ UNCHANGED cancelled
    BY <1>7 DEF Worked
  <2>2. CASE Goes(o, "setup")
    BY <1>1, <2>2, GoesTo DEF Overlaid, Clears, Refreshing
  <2>3. CASE ~Goes(o, "setup")
    <3>1. PICK messages \in {{}, {"ok"}} :
            /\ Finally(o, messages)
            /\ \/ op[o].does.edits
               \/ op[o].does.says /\ o \notin cancelled => messages = {"ok"}
      BY <1>7, <2>3 DEF Worked
    <3>2. view' = IF op[o].does.idle \/ messages = {"ok"} THEN "content" ELSE view
      BY <3>1, FinallyShows
    <3>3. op[o].does.edits => op[o].does.idle
      BY <1>1, HandlerFacts
    <3>4. CASE op[o].does.idle \/ messages = {"ok"}
      BY <3>2, <3>4 DEF Overlaid
    <3>5. CASE ~(op[o].does.idle \/ messages = {"ok"})
      BY <2>1, <3>1, <3>2, <3>3, <3>5 DEF Overlaid, Clears, Refreshing
    <3> QED
      BY <3>4, <3>5
  <2> QED
    BY <2>2, <2>3
<1>8. CASE Ignored(o)
  <2>1. UNCHANGED cancelled /\ ~Clears(o) /\ o \in Ops
    BY <1>1, <1>8, IgnoredFacts DEF Owners
  <2>2. Over(o, "refused") => op'[o].pc = "refused"
    BY <1>1, OverTo
  <2> QED
    BY <1>1, <1>8, <2>1, <2>2, IgnoredFacts DEF Overlaid
<1> QED
  BY <1>2, <1>3, <1>4, <1>5, <1>6, <1>7, <1>8 DEF Handler, Ignored

\* A set-up shows the overlay and takes it away.
LEMMA RefreshOverlaid ==
  ASSUME SourceInv, NEW o \in Owners, Refresh(o)
  PROVE  Overlaid(o)
<1> USE DEF Overlays
<1>1. PanelTypeOK
  BY Known
<1>2. CASE Setup(o) \/ Detect(o) \/ List(o) \/ Recall(o) \/ Retry(o)
  <2>1. ASSUME NEW pw, PasswordPage(o, pw) PROVE view' \notin Overlays
    BY <2>1 DEF PasswordPage, SetupEnds, Posted
  <2>2. CASE \E pw : PasswordPage(o, pw)
    BY <2>1, <2>2 DEF Overlaid
  <2>3. CASE ~\E pw : PasswordPage(o, pw)
    <3>1. op'[o].pc \in Refreshing
      BY <1>1, <1>2, <2>3
      DEF Setup, Detect, List, Recall, Retry, Goes, Refreshing, PanelTypeOK, OpStates
    <3> QED
      BY <3>1 DEF Overlaid, Clears
  <2> QED
    BY <2>2, <2>3
<1>3. CASE renderOversizeMessage(o) \/ ListFails(o)
  BY <1>3 DEF renderOversizeMessage, ListFails, SetupEnds, Posted, Overlaid
<1>4. CASE Install(o)
  BY <1>4 DEF Install, Overlaid
<1>5. CASE Expand(o)
  <2>1. op[o].pc = "expand" /\ UNCHANGED cancelled
    BY <1>5 DEF Expand
  <2>2. CASE o = Open
    BY <1>5, <2>1, <2>2 DEF Expand, Overlaid, Clears, Refreshing
  <2>3. CASE o # Open
    <3>1. view' = IF op[o].does.idle THEN "content" ELSE view
      BY <1>5, <2>3, FinallyShows DEF Expand
    <3> QED
      BY <2>1, <3>1 DEF Overlaid, Clears, Refreshing
  <2> QED
    BY <2>2, <2>3
<1> QED
  BY <1>2, <1>3, <1>4, <1>5 DEF Refresh

\* The password page has no overlay.
LEMMA UnlockOverlaid ==
  ASSUME SourceInv, NEW o \in Owners, Unlock(o)
  PROVE  Overlaid(o)
<1> USE DEF Overlays
<1>1. CASE Submit(o)
  BY <1>1 DEF Submit, Overlaid
<1>2. CASE ~Submit(o)
  <2>1. op[o].pc \in Unlocking /\ UNCHANGED cancelled
    BY <1>2 DEF Unlock, Try, TryFails, Tried, verifyArchivePassword, saveArchivePassword,
       Saved, Unlocking
  <2>2. view' \in {view, "content"}
    <3>1. CASE \E messages \in {{}, {"err"}, {"pwerr"}} : Finally(o, messages)
      BY <3>1, FinallyShows
    <3>2. CASE ~\E messages \in {{}, {"err"}, {"pwerr"}} : Finally(o, messages)
      BY <1>2, <3>2 DEF Unlock, Try, TryFails, Tried, verifyArchivePassword,
         saveArchivePassword, Saved
    <3> QED
      BY <3>1, <3>2
  <2> QED
    BY <2>1, <2>2 DEF Overlaid, Clears, Refreshing, Unlocking
<1> QED
  BY <1>1, <1>2

\* OverlayAccounted: when nothing runs on a panel the overlay is gone, for any
\* number of operations: each keeps its promise to take it away, or was
\* cancelled by one that makes the promise in its place.  Only the page's own lock
\* for a message the router refused may stay.
THEOREM OverlayTakenAway == Spec => []OverlayAccounted
<1>1. Init => OverlayInv
  <2>1. ASSUME Init PROVE Clears(Open)
    <3>1. op[Open].pc = "detect"
      BY <2>1 DEF Init, Idle, Owners
    <3> QED
      BY <3>1 DEF Clears, Refreshing
  <2> QED
    BY <2>1, SourceInitial DEF OverlayInv, Owners
<1>2. OverlayInv /\ [Next]_vars => OverlayInv'
  <2> SUFFICES ASSUME OverlayInv, [Next]_vars PROVE OverlayInv'
    OBVIOUS
  <2>1. SourceInv
    BY DEF OverlayInv
  <2>2. CASE UNCHANGED vars
    <3>1. SourceInv'
      BY <2>1, SourceKept
    <3> QED
      BY <2>2, <3>1 DEF vars, OverlayInv, Clears, Refused
  <2>3. ASSUME NEW o \in Owners, Handler(o) PROVE OverlayInv'
    BY <2>1, <2>3, HandlerStep, HandlerOverlaid, RefusedRests, OverlayStep
  <2>4. ASSUME NEW o \in Owners, Refresh(o) PROVE OverlayInv'
    BY <2>1, <2>4, RefreshStep, RefreshOverlaid, RefusedRests, OverlayStep
  <2>5. ASSUME NEW o \in Owners, Unlock(o) PROVE OverlayInv'
    BY <2>1, <2>5, UnlockStep, UnlockOverlaid, RefusedRests, OverlayStep
  <2> QED
    BY <2>2, <2>3, <2>4, <2>5 DEF Next
<1>3. OverlayInv => OverlayAccounted
  <2> SUFFICES ASSUME OverlayInv, Quiet, view \in Overlays PROVE view = "locked" /\ Refused
    BY DEF OverlayAccounted, Overlays, Refused
  <2>1. \A o \in Owners : ~Clears(o)
    BY DEF Quiet, Clears, Done, Refreshing
  <2> QED
    BY <2>1 DEF OverlayInv
<1> QED
  BY <1>1, <1>2, <1>3, PTL DEF Spec

-----------------------------------------------------------------------------
(* The listing that is shown                                               *)

\* An operation that has changed the archive and has not shown it yet.
Unshown(o) == op[o].does.edits /\ op[o].pc \in {"worked"} \cup Refreshing

\* An operation whose end lets the page show an older listing.
Excused(o) ==
  \/ op[o].pc \in {"left", "unlocked"}
  \/ op[o].pc = "expand" /\ ~op[o].does.edits

\* What an edited archive is listed as, once its refresh has read it.
Listed(o) ==
  /\ Unshown(o) => file # 1
  /\ op[o].pc = "install" =>
       op[o].listing >= 2 /\ (file # 0 => op[o].listing <= file)

EditInv ==
  /\ SourceInv
  /\ \A o \in Ops : Listed(o)
  /\ (html.page = "content" /\ file = 2) =>
       html.shown = 2 \/ \E o \in Ops : Unshown(o) \/ Excused(o)

\* A step of o after which the page shows the edit, or someone is to show it.
Showing(o) ==
  \/ html'.page # "content" \/ file' # 2
  \/ html'.shown = 2
  \/ o \in Ops /\ (Unshown(o)' \/ Excused(o)')
  \/ html' = html /\ file' = file /\ (o \in Ops => ~Unshown(o) /\ ~Excused(o))

\* The archive is erased for good, and every edit makes a new version of it.
Grows == file' = file \/ (file # 0 /\ file' \in {0, file + 1})

\* A step after which the edit is shown, or is still to be.
LEMMA EditStep ==
  ASSUME EditInv, NEW o \in Owners, Step(o), Grows, Showing(o),
         o \in Ops => Listed(o)'
  PROVE  EditInv'
<1>1. SourceInv' /\ file \in Nat
  BY SourceStep, Known DEF EditInv
<1>2. \A p \in Ops : p # o => op'[p] = op[p]
  BY DEF Step, StepsTo, EditInv, SourceInv, StageInv, PanelTypeOK, Owners
<1>3. ASSUME NEW p \in Ops PROVE Listed(p)'
  <2>1. CASE p = o
    BY <2>1
  <2>2. CASE p # o
    <3>1. op'[p] = op[p] /\ Listed(p) /\ op[p].listing \in Nat
      BY <1>2, <2>2, Known DEF EditInv, OpStates, Owners
    <3>2. file # 1 => file' # 1
      BY <1>1 DEF Grows
    <3>3. file' # 0 => file # 0 /\ file <= file' /\ file' \in Nat
      BY <1>1 DEF Grows
    <3> QED
      BY <1>1, <3>1, <3>2, <3>3 DEF Listed, Unshown
  <2> QED
    BY <2>1, <2>2
<1>4. ASSUME html'.page = "content", file' = 2
      PROVE  html'.shown = 2 \/ \E p \in Ops : Unshown(p)' \/ Excused(p)'
  <2>1. CASE o \in Ops /\ (Unshown(o)' \/ Excused(o)')
    BY <2>1
  <2>2. CASE html' = html /\ file' = file /\ (o \in Ops => ~Unshown(o) /\ ~Excused(o))
    <3>1. CASE html.shown = 2
      BY <2>2, <3>1
    <3>2. CASE html.shown # 2
      <4>1. PICK p \in Ops : Unshown(p) \/ Excused(p)
        BY <1>4, <2>2, <3>2 DEF EditInv
      <4>2. op'[p] = op[p]
        BY <1>2, <2>2, <4>1
      <4> QED
        BY <4>1, <4>2 DEF Unshown, Excused
    <3> QED
      BY <3>1, <3>2
  <2> QED
    BY <1>4, <2>1, <2>2 DEF Showing
<1> QED
  BY <1>1, <1>3, <1>4 DEF EditInv

\* What a step of o is to show for EditStep.
Shows(o) == Grows /\ Showing(o) /\ (o \in Ops => Listed(o)')

\* A step of an operation that had not changed the archive, and has not now.
LEMMA PlainShows ==
  ASSUME NEW o, UNCHANGED <<file, html>>,
         op[o].pc \in {"idle", "ask", "work"} \cup Unlocking \/ ~op[o].does.edits,
         op[o].pc \notin {"expand", "left", "unlocked"},
         op'[o].pc \in {"ask", "work"} \cup Unlocking \cup Done
  PROVE  Shows(o)
<1>1. ~Unshown(o) /\ ~Excused(o)
  BY DEF Unshown, Excused, Refreshing, Unlocking
<1>2. Listed(o)'
  BY DEF Listed, Unshown, Refreshing, Unlocking, Done
<1> QED
  BY <1>1, <1>2 DEF Shows, Grows, Showing

\* An operation ends for good.
LEMMA FinallyOver ==
  ASSUME PanelTypeOK, NEW o \in Owners, NEW messages, Finally(o, messages)
  PROVE  op'[o].pc \in Done
<1>1. PICK how \in Done : Over(o, how)
  BY EndsKeeps DEF Finally, IsOver
<1> QED
  BY <1>1, OverTo

\* Edits, and the ones that are superseded.
LEMMA HandlerShows ==
  ASSUME EditInv, NEW o \in Owners, Handler(o)
  PROVE  Shows(o)
<1>1. /\ PanelTypeOK /\ o \in Ops /\ op[o].does \in HANDLERS /\ file \in Nat /\ Listed(o)
      /\ op[o].pc \in {"idle", "ask", "work", "worked"} /\ SourceInv
  <2>1. SourceInv
    BY DEF EditInv
  <2>2. o # Open /\ op[o].pc \in {"idle", "ask", "work", "worked"}
    BY <2>1, Known DEF Handler, Refuse, Misdirect, Dispatch, Dismiss, Accept, Work,
       WorkFails, Worked, Refreshing, Past, Done
  <2>3. o \in Ops
    BY <2>2 DEF Owners
  <2> QED
    BY <2>1, <2>2, <2>3, Known DEF EditInv
<1>2. CASE Dispatch(o)
  <2>1. op'[o].pc \in {"ask", "work"}
    BY <1>1, <1>2 DEF Dispatch, Starts, PanelTypeOK, OpStates
  <2> QED
    BY <1>2, <2>1, PlainShows DEF Dispatch
<1>3. CASE Dismiss(o)
  <2>1. op'[o].pc \in Done
    BY <1>1, <1>3, OverTo DEF Dismiss, Done
  <2> QED
    BY <1>3, <2>1, PlainShows DEF Dismiss
<1>4. CASE Accept(o)
  <2>1. op'[o].pc \in {"work"} \cup Done
    BY <1>1, <1>4, GoesTo, FinallyOver DEF Accept
  <2> QED
    BY <1>4, <2>1, PlainShows DEF Accept
<1>5. CASE Work(o)
  <2>1. op'[o].pc = "worked" /\ op'[o].does = op[o].does /\ UNCHANGED html
    BY <1>1, <1>5, GoesTo DEF Work
  <2>2. CASE op[o].does.edits
    <3>1. file # 0 /\ file' \in {0, file + 1}
      BY <1>5, <2>2 DEF Work, Outcomes
    <3>2. Unshown(o)'
      BY <2>1, <2>2 DEF Unshown
    <3>3. Listed(o)'
      BY <1>1, <2>1, <3>1 DEF Listed
    <3> QED
      BY <1>1, <3>1, <3>2, <3>3 DEF Shows, Grows, Showing
  <2>3. CASE ~op[o].does.edits
    <3>1. op[o].does # handleDelete
      BY <2>3, HandlerFacts
    <3>2. file' = file
      BY <1>5, <2>3, <3>1 DEF Work, Outcomes
    <3>3. ~Unshown(o) /\ ~Excused(o) /\ Listed(o)'
      BY <1>5, <2>1, <2>3 DEF Work, Unshown, Excused, Listed
    <3> QED
      BY <2>1, <3>2, <3>3 DEF Shows, Grows, Showing
  <2> QED
    BY <2>2, <2>3
<1>6. CASE WorkFails(o)
  <2>1. op'[o].pc \in Done /\ op[o].pc = "work"
    BY <1>1, <1>6, FinallyOver DEF WorkFails
  <2> QED
    BY <1>6, <2>1, PlainShows DEF WorkFails
<1>7. CASE Worked(o)
  <2>1. op[o].pc = "worked" /\ UNCHANGED file
    BY <1>7 DEF Worked
  <2>2. CASE Goes(o, "setup") /\ op[o].does.edits
    <3>1. op'[o].pc = "setup" /\ op'[o].does = op[o].does
      BY <1>1, <2>2, GoesTo
    <3>2. Unshown(o)' /\ file # 1
      BY <1>1, <2>1, <2>2, <3>1 DEF Listed, Unshown, Refreshing
    <3>3. Listed(o)'
      BY <2>1, <3>1, <3>2 DEF Listed
    <3> QED
      BY <1>1, <2>1, <3>2, <3>3 DEF Shows, Grows, Showing
  <2>3. CASE Page("empty", 0) /\ \E messages : Finally(o, messages)
    <3>1. op'[o].pc \in Done /\ html'.page = "empty"
      BY <1>1, <2>3, FinallyOver DEF Page
    <3>2. Listed(o)'
      BY <3>1 DEF Listed, Unshown, Refreshing, Done
    <3> QED
      BY <2>1, <3>1, <3>2 DEF Shows, Grows, Showing
  <2>4. CASE /\ ~op[o].does.edits \/ (op[o].does.token /\ o \in cancelled)
             /\ UNCHANGED html /\ \E messages : Finally(o, messages)
    <3>1. op'[o].pc \in Done
      BY <1>1, <2>4, FinallyOver
    <3>2. CASE ~op[o].does.edits
      BY <1>7, <2>1, <2>4, <3>1, <3>2, PlainShows
    <3>3. CASE op[o].does.edits /\ op[o].does.token /\ o \in cancelled
      <4>1. Over(o, "left")
        BY <2>1, <2>4, <3>3 DEF Finally, Ends
      <4>2. op'[o].pc = "left"
        BY <1>1, <4>1, OverTo
      <4> QED
        BY <1>1, <2>1, <4>2 DEF Shows, Grows, Showing, Excused, Listed, Unshown, Refreshing
    <3> QED
      BY <2>4, <3>2, <3>3
  <2> QED
    BY <1>7, <2>2, <2>3, <2>4 DEF Worked
<1>8. CASE Ignored(o)
  <2>1. op'[o].pc \in Done
    BY <1>1, <1>8, IgnoredFacts, OverTo DEF Done
  <2> QED
    BY <1>8, <2>1, IgnoredFacts, PlainShows
<1> QED
  BY <1>2, <1>3, <1>4, <1>5, <1>6, <1>7, <1>8 DEF Handler, Ignored

\* The refresh lists the archive it has changed.
LEMMA RefreshShows ==
  ASSUME EditInv, NEW o \in Owners, Refresh(o)
  PROVE  Shows(o)
<1>1. SourceInv /\ PanelTypeOK /\ file \in Nat /\ op[o] \in OpStates
  BY Known DEF EditInv
<1>2. ASSUME o \in Ops
      PROVE  /\ Listed(o) /\ o # Open
             /\ (op[o].pc \in Refreshing => op[o].does.edits /\ Unshown(o) /\ file # 1)
  BY <1>1, <1>2, Known, PanelAssumption DEF EditInv, Staged, Unshown, Listed
<1>3. ASSUME o \notin Ops PROVE o = Open
  BY <1>3 DEF Owners
<1>4. ASSUME op[o].pc \in Refreshing, op'[o].pc \in Refreshing \ {"install"},
             op'[o].does = op[o].does, UNCHANGED file,
             o = Open => UNCHANGED html
      PROVE  Shows(o)
  <2>1. CASE o \in Ops
    <3>1. Unshown(o)' /\ Listed(o)'
      BY <1>2, <1>4, <2>1 DEF Unshown, Listed
    <3> QED
      BY <1>4, <2>1, <3>1 DEF Shows, Grows, Showing
  <2>2. CASE o \notin Ops
    BY <1>3, <1>4, <2>2 DEF Shows, Grows, Showing
  <2> QED
    BY <2>1, <2>2
<1>5. ASSUME NEW s, NEW page \in {"empty", "password"}, SetupEnds(o, s, page, 0), UNCHANGED file
      PROVE  Shows(o)
  <2>1. html'.page # "content"
    BY <1>5 DEF SetupEnds, Page
  <2>2. op'[o].pc \in {"ended", "dropped"}
    BY <1>1, <1>5, OverTo DEF SetupEnds
  <2>3. Listed(o)'
    BY <2>2 DEF Listed, Unshown, Refreshing
  <2> QED
    BY <1>5, <2>1, <2>3 DEF Shows, Grows, Showing
<1>6. ASSUME NEW pw, PasswordPage(o, pw), UNCHANGED file PROVE Shows(o)
  BY <1>5, <1>6 DEF PasswordPage
<1>7. CASE Setup(o)
  <2>1. o # Open
    BY <1>1, <1>7, Known DEF Setup, Past, Done, Refreshing
  <2>2. op[o].pc \in Refreshing /\ op'[o].pc = "detect" /\ op'[o].does = op[o].does
    BY <1>1, <1>7 DEF Setup, PanelTypeOK, Refreshing, OpStates
  <2> QED
    BY <1>4, <1>7, <2>1, <2>2 DEF Setup, Refreshing
<1>8. CASE Detect(o)
  <2>1. /\ op[o].pc \in Refreshing /\ op'[o].pc \in {"recall", "retry"}
        /\ op'[o].does = op[o].does
    BY <1>1, <1>8 DEF Detect, PanelTypeOK, Refreshing, OpStates
  <2> QED
    BY <1>4, <1>8, <2>1 DEF Detect, Refreshing
<1>9. CASE renderOversizeMessage(o) \/ ListFails(o)
  BY <1>5, <1>9 DEF renderOversizeMessage, ListFails
<1>10. CASE Recall(o) \/ Retry(o)
  <2>1. CASE \E pw : PasswordPage(o, pw)
    BY <1>6, <1>10, <2>1 DEF Recall, Retry
  <2>2. CASE ~\E pw : PasswordPage(o, pw)
    <3>1. /\ op[o].pc \in Refreshing /\ op'[o].pc \in {"list", "retry"}
          /\ op'[o].does = op[o].does
      BY <1>1, <1>10, <2>2 DEF Recall, Retry, Goes, PanelTypeOK, Refreshing, OpStates
    <3> QED
      BY <1>4, <1>10, <2>2, <3>1 DEF Recall, Retry, Refreshing
  <2> QED
    BY <2>1, <2>2
<1>11. CASE List(o)
  <2>1. /\ op[o].pc \in Refreshing /\ op'[o].pc = "install" /\ op'[o].does = op[o].does
        /\ op'[o].listing = file /\ file # 0 /\ UNCHANGED <<file, html>>
    BY <1>1, <1>11 DEF List, PanelTypeOK, Refreshing, OpStates
  <2>2. CASE o \in Ops
    <3>1. Unshown(o)' /\ Listed(o)'
      BY <1>1, <1>2, <2>1, <2>2 DEF Unshown, Listed, Refreshing
    <3> QED
      BY <2>1, <2>2, <3>1 DEF Shows, Grows, Showing
  <2>3. CASE o \notin Ops
    BY <2>1, <2>3 DEF Shows, Grows, Showing
  <2> QED
    BY <2>2, <2>3
<1>12. CASE Install(o)
  <2>1. /\ op[o].pc = "install" /\ op'[o].pc = "expand" /\ UNCHANGED file
        /\ html'.shown = op[o].listing
    BY <1>1, <1>12, GoesTo DEF Install, Page
  <2>2. CASE o \in Ops
    <3>1. file = 2 => html'.shown = 2
      BY <1>1, <1>2, <2>1, <2>2 DEF Listed, OpStates
    <3>2. Listed(o)'
      BY <2>1 DEF Listed, Unshown, Refreshing
    <3> QED
      BY <2>1, <2>2, <3>1, <3>2 DEF Shows, Grows, Showing
  <2>3. CASE o \notin Ops
    <3>1. file # 2
      BY <1>1, <1>3, <2>1, <2>3 DEF SourceInv, StageInv, Past, Done
    <3> QED
      BY <2>1, <2>3, <3>1 DEF Shows, Grows, Showing
  <2> QED
    BY <2>2, <2>3
<1>13. CASE Expand(o)
  <2>1. op[o].pc = "expand" /\ UNCHANGED <<file, html>>
    BY <1>13 DEF Expand
  <2>2. CASE o = Open
    BY <2>1, <2>2, PanelAssumption DEF Shows, Grows, Showing
  <2>3. CASE o # Open
    <3>1. Finally(o, {}) /\ op[o].does \in HANDLERS
      BY <1>1, <1>13, <2>3, Known DEF Expand
    <3>2. op'[o].pc \in Done
      BY <1>1, <3>1, FinallyOver
    <3>3. Listed(o)'
      BY <3>2 DEF Listed, Unshown, Refreshing, Done
    <3>4. CASE op[o].does.edits
      BY <2>1, <3>3, <3>4 DEF Shows, Grows, Showing, Unshown, Excused, Refreshing
    <3>5. CASE ~op[o].does.edits
      <4>1. op[o].does.token
        BY <3>1, <3>5, HandlerFacts
      <4>2. Over(o, "unlocked")
        BY <2>1, <3>1, <3>5, <4>1 DEF Finally, Ends
      <4>3. op'[o].pc = "unlocked" /\ o \in Ops
        BY <1>1, <2>3, <4>2, OverTo DEF Owners
      <4> QED
        BY <2>1, <3>3, <4>3 DEF Shows, Grows, Showing, Excused
    <3> QED
      BY <3>4, <3>5
  <2> QED
    BY <2>2, <2>3
<1> QED
  BY <1>7, <1>8, <1>9, <1>10, <1>11, <1>12, <1>13 DEF Refresh

\* An unlock renders the listing it had read.
LEMMA UnlockShows ==
  ASSUME EditInv, NEW o \in Owners, Unlock(o)
  PROVE  Shows(o)
<1>1. /\ SourceInv /\ PanelTypeOK /\ o \in Ops
      /\ op[o].pc \in {"idle"} \cup Unlocking /\ UNCHANGED file
      /\ (op[o].pc \in Unlocking => op[o].does = handlePassword)
  <2>1. SourceInv
    BY DEF EditInv
  <2>2. o # Open /\ op[o].pc \in {"idle"} \cup Unlocking /\ UNCHANGED file
    BY <2>1, Known DEF Unlock, Submit, Try, TryFails, Tried, verifyArchivePassword,
       saveArchivePassword, Saved, Refreshing, Past, Done, Unlocking
  <2>3. o \in Ops
    BY <2>2 DEF Owners
  <2> QED
    BY <2>1, <2>2, <2>3, Known DEF Staged
<1>2. op[o].pc \notin {"expand", "left", "unlocked"}
  BY <1>1 DEF Unlocking
<1>3. CASE Saved(o) /\ o \notin cancelled
  <2>1. op[o].pc = "saved" /\ op'[o].pc = "expand" /\ op'[o].does = op[o].does
    BY <1>1, <1>3, GoesTo DEF Saved
  <2>2. ~op'[o].does.edits
    BY <1>1, <2>1, HandlerFacts DEF Unlocking, handlePassword
  <2> QED
    BY <1>1, <2>1, <2>2 DEF Shows, Grows, Showing, Excused, Listed, Unshown, Refreshing
<1>4. CASE ~(Saved(o) /\ o \notin cancelled)
  <2>1. UNCHANGED html
    BY <1>4 DEF Unlock, Submit, Try, TryFails, Tried, verifyArchivePassword,
       saveArchivePassword, Saved
  <2>2. CASE \E messages : Finally(o, messages)
    BY <1>1, <1>2, <2>1, <2>2, FinallyOver, PlainShows
  <2>3. CASE ~\E messages : Finally(o, messages)
    <3>1. op'[o].pc \in Unlocking
      BY <1>1, <1>4, <2>3 DEF Unlock, Submit, Try, TryFails, Tried, verifyArchivePassword,
         saveArchivePassword, Saved, Goes, PanelTypeOK, OpStates, Unlocking
    <3> QED
      BY <1>1, <1>2, <2>1, <3>1, PlainShows
  <2> QED
    BY <2>2, <2>3
<1> QED
  BY <1>3, <1>4

\* EditShown: when nothing runs, a listing that is shown is that of the archive
\* as it was edited, unless the edit was superseded or an unlock has rendered
\* the one it had read: for any number of operations that refresh, unlock and
\* cancel each other, with names encrypted or not.
THEOREM EditsAreShown == Spec => []EditShown
<1>1. Init => EditInv
  <2> SUFFICES ASSUME Init PROVE EditInv
    OBVIOUS
  <2>1. \A o \in Ops : op[o].pc = "idle"
    BY PanelAssumption DEF Init, Idle, Owners
  <2> QED
    BY <2>1, SourceInitial DEF Init, EditInv, Listed, Unshown, Refreshing
<1>2. EditInv /\ [Next]_vars => EditInv'
  <2> SUFFICES ASSUME EditInv, [Next]_vars PROVE EditInv'
    OBVIOUS
  <2>1. SourceInv
    BY DEF EditInv
  <2>2. CASE UNCHANGED vars
    <3>1. SourceInv'
      BY <2>1, SourceKept
    <3> QED
      BY <2>2, <3>1 DEF vars, EditInv, Listed, Unshown, Excused
  <2>3. ASSUME NEW o \in Owners, Handler(o) PROVE EditInv'
    BY <2>1, <2>3, HandlerStep, HandlerShows, EditStep DEF Shows
  <2>4. ASSUME NEW o \in Owners, Refresh(o) PROVE EditInv'
    BY <2>1, <2>4, RefreshStep, RefreshShows, EditStep DEF Shows
  <2>5. ASSUME NEW o \in Owners, Unlock(o) PROVE EditInv'
    BY <2>1, <2>5, UnlockStep, UnlockShows, EditStep DEF Shows
  <2> QED
    BY <2>2, <2>3, <2>4, <2>5 DEF Next
<1>3. EditInv => EditShown
  <2> SUFFICES ASSUME EditInv, Quiet, html.page = "content", file = 2,
                      \A o \in Ops : op[o].pc \notin {"left", "unlocked"},
                      html.shown # 2
               PROVE  FALSE
    BY DEF EditShown
  <2>1. PICK o \in Ops : Unshown(o) \/ Excused(o)
    BY DEF EditInv
  <2> QED
    BY <2>1 DEF Quiet, Unshown, Excused, Done, Refreshing, Owners
<1> QED
  BY <1>1, <1>2, <1>3, PTL DEF Spec
=============================================================================
