--------------------------- MODULE PipelineProofs ---------------------------
(***************************************************************************)
(* Proofs about the operations, for every set of programs that keeps to    *)
(* the conventions of module Conventions: programs of any length, loops of *)
(* any number of rounds, operations still to be written.                   *)
(***************************************************************************)
EXTENDS Pipeline, Conventions, Outcomes, SequenceTheorems, TLAPS

CONSTANTS
  Code,   \* the steps the programs are made of, nested ones included
  Tidy,   \* the steps, with the context each stands in
  Known,  \* texts, with files of the 7-Zip instance that are there when they begin
  Ends    \* how a text can end, and with which output, by the output it begins with

OfCode == /\ \A p \in DOMAIN Programs : Programs[p].steps \in Seq(Code)
          /\ Nested(Code)

-----------------------------------------------------------------------------
(* Control: what is left to do fits the blocks it runs in                  *)

All == Code \cup {Leave} \cup {Throw(kind) : kind \in Kinds}
Entered == {s \in Code : s.do \in Blocks}
Frames == {[do |-> s.do, kinds |-> s.kinds, handler |-> s.handler, rest |-> r] :
             s \in Entered, r \in Seq(All)}

\* Inside blocks a text ends by leaving the innermost or with an exception;
\* outside of all blocks there is none to leave.
Ended(q) == q # << >> /\ (q[Len(q)] = Leave \/ \E kind \in Kinds : q[Len(q)] = Throw(kind))
Fits(q, n) == IF n = 0 THEN \A i \in DOMAIN q : q[i] # Leave ELSE Ended(q)

Control ==
  /\ todo \in Seq(All)
  /\ scopes \in Seq(Frames)
  /\ result \in {"running", "ok", "failed", "cancelled"}
  /\ Fits(todo, Len(scopes))
  /\ \A i \in DOMAIN scopes : Fits(scopes[i].rest, i - 1)
  /\ Over => todo = << >> /\ scopes = << >>

\* Every step goes on behind the step it took, stays, chooses, enters or leaves
\* a block, or raises an exception.
Plain == {"check", "poll", "reset", "put", "get", "main", "temp", "drop", "dropAfter",
          "write", "tree", "replace", "remove", "stage", "publish", "unstage", "child", "binding"}
Throwing == (Plain \ Cleanups) \cup {"throw"}
Busy == result = "running" /\ todo # << >>

\* A cancellation is noted by the step that throws it, a missing file by the step that
\* reads it; a staged copy is made by "stage", and what is awaited is awaited by the step
\* at hand.
Quiet == "cancelThrown" \in notes' => "cancelThrown" \in notes
NoLoss == "lost" \in notes' => "lost" \in notes
Missing == \/ Now.do = "get" /\ Now.file \notin vfs
           \/ Now.do = "main" /\ ~(Now.reads \subseteq vfs)
Unstaged == staged = "none" => staged' = "none"
Settled == child' = "none" \/ (child' = child /\ Now.do \notin {"child", "binding"})
Awaiting == child' = "none" \/ child' = child \/ (Busy /\ Now.do \in {"child", "binding"})

\* What a step that is passed does to the files.
VfsAfter ==
  CASE Now.do = "reset" -> {}
    [] Now.do = "put" -> vfs \cup {Now.file}
    [] Now.do = "main" -> vfs \cup Now.makes
    [] OTHER -> vfs
Dropping ==
  IF Now.do = "drop" THEN temps' = temps \ {Now.dir}
  ELSE Now.do = "dropAfter" =>
         IF Now.file \in temps THEN temps' = temps \ {Now.file, Now.dir} ELSE "leaked" \in notes'
TempsGrow == temps' \subseteq IF Now.do = "temp" THEN temps \cup {Now.dir} ELSE temps

Stays == UNCHANGED <<todo, scopes, result>> /\ Quiet /\ NoLoss /\ Files /\ Unstaged /\ Awaiting
Passes ==
  /\ Busy /\ Now.do \in Plain /\ Continue
  /\ Quiet /\ NoLoss /\ vfs' = VfsAfter /\ Dropping /\ TempsGrow /\ Settled
  /\ Now.do # "stage" => Unstaged
  /\ Now.do = "unstage" => staged' = "none"
Throws(kind) ==
  /\ Busy /\ Now.do \in Throwing
  /\ Now.do = "throw" => Now = Throw(kind)
  /\ Raise(kind, Len(scopes))
  /\ Quiet \/ kind = "cancelled"
  /\ NoLoss \/ Missing
  /\ Files /\ Unstaged /\ Settled
Lost(i, kind) ==
  /\ result = "running"
  /\ scopes[i].do = "worker" /\ Raise(kind, i - 1)
  /\ Note("workerLost") /\ NoLoss
  /\ vfs' = {} /\ Unstaged /\ child' = "none" /\ UNCHANGED temps
Moves ==
  \/ Stays \/ Passes \/ Choose \/ Enter \/ ExitScope \/ Finish
  \/ \E kind \in Kinds : Throws(kind)
  \/ \E i \in DOMAIN scopes, kind \in Kinds : Lost(i, kind)

\* The heads of texts are steps, and a throw is one of the known kinds.
LEMMA HeadFacts ==
  ASSUME NEW q \in Seq(All), q # << >>, Nested(Code)
  PROVE  /\ Head(q) = q[1] /\ Head(q) \in All /\ Tail(q) \in Seq(All)
         /\ 1 \in DOMAIN q
         /\ Len(Tail(q)) = Len(q) - 1
         /\ \A i \in DOMAIN Tail(q) : Tail(q)[i] = q[i + 1] /\ i + 1 \in DOMAIN q
         /\ Head(q).do = "throw" => \E kind \in Kinds : Head(q) = Throw(kind)
         /\ Head(q).do = "leave" => Head(q) = Leave
         /\ Head(q).do = "child" => Head(q).writes \in {"none", "create", "replace"}
<1>1. Head(q) \in All /\ Tail(q) \in Seq(All) /\ Len(Tail(q)) = Len(q) - 1
      /\ \A i \in 1 .. Len(Tail(q)) : Tail(q)[i] = q[i + 1]
  BY HeadTailProperties
<1>2. Len(q) \in Nat \ {0}
  BY EmptySeq
<1>3. Head(q) = q[1] /\ 1 \in DOMAIN q
  BY <1>2
<1>4. ASSUME Head(q).do = "throw" PROVE \E kind \in Kinds : Head(q) = Throw(kind)
  <2>1. Leave.do # "throw"
    BY DEF Leave
  <2>2. CASE Head(q) \in Code
    BY <1>4, <2>2 DEF Nested
  <2>3. QED
    BY <1>1, <1>4, <2>1, <2>2 DEF All
<1>5. ASSUME Head(q).do = "leave" PROVE Head(q) = Leave
  <2>1. \A kind \in Kinds : Throw(kind).do # "leave"
    BY DEF Throw
  <2>2. \A s \in Code : s.do # "leave"
    BY DEF Nested
  <2>3. QED
    BY <1>1, <1>5, <2>1, <2>2 DEF All
<1>6. \A i \in DOMAIN Tail(q) : i + 1 \in DOMAIN q
  BY <1>1, <1>2
<1>7. ASSUME Head(q).do = "child" PROVE Head(q).writes \in {"none", "create", "replace"}
  <2>1. Leave.do # "child" /\ \A kind \in Kinds : Throw(kind).do # "child"
    BY DEF Leave, Throw
  <2>2. Head(q) \in Code
    BY <1>1, <1>7, <2>1 DEF All
  <2>3. QED
    BY <1>7, <2>2 DEF Nested
<1>8. QED
  BY <1>1, <1>3, <1>4, <1>5, <1>6, <1>7

\* A block that is entered, and the frame it leaves on the stack.
LEMMA FrameFacts ==
  ASSUME NEW f \in Frames, Nested(Code)
  PROVE  /\ f.do \in Blocks /\ f.handler \in Seq(Code) /\ f.rest \in Seq(All)
         /\ f.kinds \subseteq Kinds
         /\ f.do = "worker" => f.kinds = {}
         /\ \E s \in Entered : f.do = s.do /\ f.kinds = s.kinds /\ f.handler = s.handler
<1>1. PICK s \in Entered, r \in Seq(All) :
        f = [do |-> s.do, kinds |-> s.kinds, handler |-> s.handler, rest |-> r]
  BY DEF Frames
<1>2. f.do = s.do /\ f.kinds = s.kinds /\ f.handler = s.handler /\ f.rest = r
  BY <1>1
<1>3. s \in Code /\ s.do \in Blocks
  BY DEF Entered
<1>4. QED
  BY <1>2, <1>3 DEF Nested

\* A step that opens a block is one of the program's own.
LEMMA BlockFacts ==
  ASSUME NEW s \in All, s.do \in Blocks, Nested(Code)
  PROVE  /\ s \in Entered /\ s.body \in Seq(Code) /\ s.handler \in Seq(Code)
         /\ \A r \in Seq(All) : [do |-> s.do, kinds |-> s.kinds, handler |-> s.handler,
                                 rest |-> r] \in Frames
<1>1. Leave.do \notin Blocks /\ \A kind \in Kinds : Throw(kind).do \notin Blocks
  BY DEF Leave, Throw, Blocks
<1>2. s \in Code
  BY <1>1 DEF All
<1>3. QED
  BY <1>2 DEF Nested, Entered, Frames

\* So are the alternatives of a branch.
LEMMA BranchFacts ==
  ASSUME NEW s \in All, s.do = "either", Nested(Code), NEW i \in DOMAIN s.alternatives
  PROVE  s \in Code /\ s.alternatives[i] \in Seq(Code)
<1>1. Leave.do # "either" /\ \A kind \in Kinds : Throw(kind).do # "either"
  BY DEF Leave, Throw
<1>2. s \in Code
  BY <1>1 DEF All
<1>3. QED
  BY <1>2 DEF Nested

\* Texts put in front of one another.
LEMMA JoinFacts ==
  ASSUME NEW p \in Seq(All), NEW q \in Seq(All)
  PROVE  /\ p \o q \in Seq(All) /\ Len(p \o q) = Len(p) + Len(q)
         /\ DOMAIN (p \o q) = 1 .. Len(p) + Len(q)
         /\ Len(p) \in Nat /\ Len(q) \in Nat /\ DOMAIN p = 1 .. Len(p) /\ DOMAIN q = 1 .. Len(q)
         /\ \A i \in 1 .. Len(p) : (p \o q)[i] = p[i]
         /\ \A i \in 1 .. Len(q) : (p \o q)[Len(p) + i] = q[i]
<1>1. p \o q \in Seq(All) /\ Len(p \o q) = Len(p) + Len(q)
      /\ \A i \in 1 .. Len(p) + Len(q) :
           (p \o q)[i] = IF i <= Len(p) THEN p[i] ELSE q[i - Len(p)]
  BY ConcatProperties
<1>2. Len(p) \in Nat /\ Len(q) \in Nat /\ DOMAIN p = 1 .. Len(p) /\ DOMAIN q = 1 .. Len(q)
      /\ DOMAIN (p \o q) = 1 .. Len(p \o q)
  BY <1>1, LenProperties
<1>3. \A i \in 1 .. Len(q) : Len(p) + i \in 1 .. Len(p) + Len(q) /\ ~(Len(p) + i <= Len(p))
                             /\ (Len(p) + i) - Len(p) = i
  BY <1>2
<1>4. \A i \in 1 .. Len(p) : i \in 1 .. Len(p) + Len(q) /\ i <= Len(p)
  BY <1>2
<1>5. QED
  BY <1>1, <1>2, <1>3, <1>4

\* Steps of the programs leave no block and are put in front of what is left.
LEMMA JoinFits ==
  ASSUME Nested(Code), NEW p \in Seq(Code), NEW q \in Seq(All), NEW n \in Nat, Fits(q, n)
  PROVE  p \o q \in Seq(All) /\ Fits(p \o q, n)
<1>1. p \in Seq(All)
  BY SeqMonotonic DEF All
<1>2. \A i \in DOMAIN p : p[i] # Leave
  <2>1. DOMAIN p = 1 .. Len(p)
    BY LenProperties
  <2>2. \A i \in DOMAIN p : p[i] \in Code
    BY <2>1, ElementOfSeq
  <2>3. QED
    BY <2>2 DEF Nested, Leave
<1>3. CASE n = 0
  <2>1. ASSUME NEW i \in DOMAIN (p \o q) PROVE (p \o q)[i] # Leave
    <3>1. i \in 1 .. Len(p) \/ (i - Len(p) \in 1 .. Len(q) /\ i = Len(p) + (i - Len(p)))
      BY <1>1, JoinFacts
    <3>2. QED
      BY <1>1, <1>2, <1>3, <3>1, JoinFacts DEF Fits
  <2>2. QED
    BY <1>1, <1>3, <2>1, JoinFacts DEF Fits
<1>4. CASE n # 0
  <2>1. q # << >> /\ Ended(q)
    BY <1>4 DEF Fits, Ended
  <2>2. Len(q) \in 1 .. Len(q)
    BY <2>1, EmptySeq
  <2>3. (p \o q)[Len(p \o q)] = q[Len(q)] /\ Len(p \o q) # 0
    BY <1>1, <2>2, JoinFacts
  <2>4. p \o q # << >>
    BY <2>3
  <2>5. QED
    BY <1>1, <1>4, <2>1, <2>3, <2>4, JoinFacts DEF Fits, Ended
<1>5. QED
  BY <1>3, <1>4
\* A body ends by leaving its block, an interrupted finally block by passing the
\* exception on.
LEMMA EndFits ==
  ASSUME Nested(Code), NEW p \in Seq(Code), NEW n \in Nat
  PROVE  /\ p \o << Leave >> \in Seq(All) /\ Fits(p \o << Leave >>, n + 1)
         /\ \A kind \in Kinds : p \o << Throw(kind) >> \in Seq(All) /\ Fits(p \o << Throw(kind) >>, n)
<1>1. << Leave >> \in Seq(All) /\ Fits(<< Leave >>, n + 1)
  <2>1. Leave \in All
    BY DEF All
  <2>2. << Leave >> # << >> /\ Len(<< Leave >>) = 1 /\ << Leave >>[1] = Leave
    OBVIOUS
  <2>3. n + 1 # 0
    OBVIOUS
  <2>4. QED
    BY <2>1, <2>2, <2>3 DEF Fits, Ended
<1>2. ASSUME NEW kind \in Kinds PROVE << Throw(kind) >> \in Seq(All) /\ Fits(<< Throw(kind) >>, n)
  <2>1. Throw(kind) \in All /\ Throw(kind) # Leave
    BY DEF All, Throw, Leave
  <2>2. << Throw(kind) >> # << >> /\ Len(<< Throw(kind) >>) = 1 /\ << Throw(kind) >>[1] = Throw(kind)
        /\ \A i \in DOMAIN << Throw(kind) >> : i = 1
    OBVIOUS
  <2>3. QED
    BY <2>1, <2>2 DEF Fits, Ended
<1>3. p \o << Leave >> \in Seq(All) /\ Fits(p \o << Leave >>, n + 1)
  <2>1. n + 1 \in Nat
    OBVIOUS
  <2>2. QED
    BY <1>1, <2>1, JoinFits
<1>4. ASSUME NEW kind \in Kinds
      PROVE  p \o << Throw(kind) >> \in Seq(All) /\ Fits(p \o << Throw(kind) >>, n)
  BY <1>2, JoinFits
<1>5. QED
  BY <1>3, <1>4

\* Behind a step that neither leaves nor throws the same blocks are open.
LEMMA TailFits ==
  ASSUME Nested(Code), NEW q \in Seq(All), q # << >>, NEW n \in Nat, Fits(q, n),
         Head(q).do # "leave", Head(q).do # "throw"
  PROVE  Tail(q) \in Seq(All) /\ Fits(Tail(q), n)
<1>1. CASE n = 0
  BY <1>1, HeadFacts DEF Fits
<1>2. CASE n # 0
  <2>1. Ended(q) /\ Len(q) \in Nat
    BY <1>2, LenProperties DEF Fits
  <2>2. q[Len(q)].do \in {"leave", "throw"}
    <3>1. Leave.do = "leave" /\ \A kind \in Kinds : Throw(kind).do = "throw"
      BY DEF Leave, Throw
    <3>2. QED
      BY <2>1, <3>1 DEF Ended
  <2>3. Len(q) # 1
    BY <2>2, HeadFacts
  <2>4. Len(q) # 0
    BY <2>1, EmptySeq DEF Ended
  <2>5. Len(Tail(q)) = Len(q) - 1 /\ Len(q) - 1 # 0 /\ Len(q) - 1 \in DOMAIN Tail(q)
    <3>1. Len(Tail(q)) = Len(q) - 1 /\ Tail(q) \in Seq(All)
      BY HeadFacts
    <3>2. DOMAIN Tail(q) = 1 .. Len(q) - 1
      BY <3>1, LenProperties
    <3>3. QED
      BY <2>1, <2>3, <2>4, <3>1, <3>2
  <2>6. Tail(q)[Len(Tail(q))] = q[Len(q)]
    BY <2>1, <2>5, HeadFacts
  <2>7. Tail(q) # << >>
    BY <2>5, EmptySeq
  <2>8. QED
    BY <1>2, <2>1, <2>6, <2>7, HeadFacts DEF Fits, Ended
<1>3. QED
  BY <1>1, <1>2

\* The stack below a frame.
LEMMA BelowFacts ==
  ASSUME NEW S, NEW q \in Seq(S), NEW i \in 1 .. Len(q)
  PROVE  /\ SubSeq(q, 1, i - 1) \in Seq(S)
         /\ Len(SubSeq(q, 1, i - 1)) = i - 1
         /\ DOMAIN SubSeq(q, 1, i - 1) = 1 .. i - 1
         /\ \A j \in 1 .. i - 1 : SubSeq(q, 1, i - 1)[j] = q[j] /\ j \in 1 .. Len(q)
         /\ DOMAIN q = 1 .. Len(q) /\ Len(q) \in Nat /\ q[i] \in S
<1>1. Len(q) \in Nat /\ DOMAIN q = 1 .. Len(q) /\ \A j \in 1 .. Len(q) : q[j] \in S
  BY LenProperties, ElementOfSeq
<1>2. \A j \in 1 .. i - 1 : q[j] \in S /\ j \in 1 .. Len(q)
  BY <1>1
<1>3. /\ SubSeq(q, 1, i - 1) \in Seq(S)
      /\ Len(SubSeq(q, 1, i - 1)) = i - 1
      /\ \A j \in 1 .. i - 1 : SubSeq(q, 1, i - 1)[j] = q[j]
  BY <1>2, SubSeqProperties
<1>4. DOMAIN SubSeq(q, 1, i - 1) = 1 .. i - 1
  BY <1>3, LenProperties
<1>5. QED
  BY <1>1, <1>2, <1>3, <1>4

\* Every step is one of these moves, and nothing noted is forgotten.
LEMMA Flow ==
  ASSUME Nested(Code), Control, [Next]_vars
  PROVE  Moves /\ notes \subseteq notes'
<1> USE DEF Busy, Quiet, NoLoss, Unstaged, Settled, Note, Files, Target, Outside, WriteTarget
<1>1. "failed" \in Kinds /\ "cancelled" \in Kinds
  BY DEF Kinds, AnyError, Failure
<1> DEFINE Calm == Quiet /\ NoLoss /\ Files /\ Unstaged /\ Settled
           Fails == /\ Busy /\ Now.do \in Throwing \ {"throw"} /\ Fail /\ Quiet
                    /\ NoLoss \/ Missing
                    /\ Files /\ Unstaged /\ Settled
           Cancels == /\ Busy /\ Now.do \in Throwing \ {"throw"} /\ Cancel
                      /\ NoLoss /\ Files /\ Unstaged /\ Settled
           Step1 == (Passes \/ Fails \/ Cancels) /\ notes \subseteq notes'
<1>2. Fails => \E kind \in Kinds : Throws(kind)
  BY <1>1 DEF Fail, Throws
<1>3. Cancels => \E kind \in Kinds : Throws(kind)
  BY <1>1 DEF Cancel, Throws
<1>4. ASSUME RunThrow PROVE \E kind \in Kinds : Throws(kind)
  <2>1. Busy /\ Now.do = "throw" /\ Raise(Now.kind, Len(scopes)) /\ Calm
    BY <1>4 DEF RunThrow, Next1
  <2>2. PICK kind \in Kinds : Now = Throw(kind)
    BY <2>1, HeadFacts DEF Now, Control
  <2>3. Now.kind = kind
    BY <2>2 DEF Throw
  <2>4. Throws(kind)
    BY <2>1, <2>2, <2>3 DEF Throws, Throwing
  <2>5. QED
    BY <2>4
<1> USE DEF Next1, Passes, Plain, Throwing, Cleanups, VfsAfter, Dropping, TempsGrow
<1>5. RunCheck \/ RunPoll \/ RunReplace \/ RunPublish => Step1
  BY DEF RunCheck, RunPoll, RunReplace, RunPublish
<1>6. RunReset \/ RunPut \/ RunTemp => Step1
  BY DEF RunReset, RunPut, RunTemp
<1>7. RunGet => Step1
  BY DEF RunGet, Missing
<1>8. RunMain => Step1
  BY DEF RunMain, Missing
<1>9. RunWrite \/ RunWriteTree => Step1
  BY DEF RunWrite, RunWriteTree
<1>10. RunDrop => Step1
  BY DEF RunDrop
<1>11. RunRemove \/ RunStage \/ RunUnstage => Step1
  BY DEF RunRemove, RunStage, RunUnstage
<1>12. Spawn => (Stays \/ Fails) /\ notes \subseteq notes'
  BY DEF Spawn, Stays, Awaiting
<1>13. ASSUME NEW code \in {0, 2}, ChildCloses(code) PROVE Step1
  <2>1. Busy /\ Now.do = "child" /\ Files /\ Settled
    BY <1>13 DEF ChildCloses
  <2>2. Now.writes \in {"none", "create", "replace"}
    BY <2>1, HeadFacts DEF Control, Now
  <2>3. Unstaged
    <3>1. Target \/ \E v \in {"new", "torn"} : WriteTarget(v)
      BY <1>13, <2>2 DEF ChildCloses
    <3>2. QED
      BY <3>1
  <2>4. ((Cancel /\ NoLoss) \/ (Quiet /\ NoLoss /\ (Fail \/ Continue))) /\ notes \subseteq notes'
    BY <1>13 DEF ChildCloses
  <2>5. QED
    BY <2>1, <2>3, <2>4
<1>14. BindingSettles => Step1
  BY DEF BindingSettles
<1>15. KilledChildCloses \/ GiveUp => Step1
  BY DEF KilledChildCloses, GiveUp
<1>16. KillChild \/ CallBinding \/ Ask \/ Rest \/ UNCHANGED vars => Stays /\ notes \subseteq notes'
  BY DEF KillChild, CallBinding, Ask, Rest, vars, Stays, Awaiting
<1>17. LoseWorker => \E i \in DOMAIN scopes, kind \in Kinds : Lost(i, kind)
  BY <1>1 DEF LoseWorker, Lost
<1>18. Choose \/ Enter \/ ExitScope \/ Finish \/ RunThrow \/ LoseWorker => notes \subseteq notes'
  BY DEF Choose, Enter, ExitScope, Finish, RunThrow, LoseWorker
<1> HIDE DEF Fails, Cancels, Passes
<1>19. Step1 => Moves /\ notes \subseteq notes'
  BY <1>2, <1>3 DEF Moves
<1>20. QED
  BY <1>4, <1>5, <1>6, <1>7, <1>8, <1>9, <1>10, <1>11, <1>12, <1>13, <1>14, <1>15, <1>16, <1>17,
     <1>18, <1>19, <1>2 DEF Next, Step, Moves

\* The shape of each move.
LEMMA GoShape ==
  ASSUME Nested(Code), Control, Busy, Continue
  PROVE  /\ todo' = Tail(todo) /\ UNCHANGED <<scopes, result>>
         /\ todo # << >> /\ result = "running" /\ Tail(todo) \in Seq(All)
<1>1. todo # << >> /\ result = "running"
  BY DEF Busy
<1>2. Tail(todo) \in Seq(All)
  BY <1>1, HeadFacts DEF Control
<1>3. QED
  BY <1>1, <1>2, ConcatEmptySeq DEF Continue, Go

\* A step that is passed leaves the text behind it.
LEMMA PassShape ==
  ASSUME Nested(Code), Control, Passes
  PROVE  /\ todo' = Tail(todo) /\ UNCHANGED <<scopes, result>>
         /\ todo # << >> /\ result = "running" /\ Tail(todo) \in Seq(All)
BY GoShape DEF Passes

\* A branch puts one of its alternatives in front of the text behind it.
LEMMA ChooseShape ==
  ASSUME Nested(Code), Control, Choose
  PROVE  /\ Busy /\ Now.do = "either" /\ Now \in Code /\ Tail(todo) \in Seq(All)
         /\ UNCHANGED <<scopes, result>>
         /\ \E i \in DOMAIN Now.alternatives :
              /\ Now.alternatives[i] \in Seq(Code)
              /\ todo' = Now.alternatives[i] \o Tail(todo)
<1>1. Busy /\ Now.do = "either" /\ UNCHANGED <<scopes, result>>
  BY DEF Choose, Next1, Busy
<1>2. PICK i \in DOMAIN Now.alternatives : todo' = Now.alternatives[i] \o Tail(todo)
  BY DEF Choose, Go
<1>3. Now \in All /\ Tail(todo) \in Seq(All)
  BY <1>1, HeadFacts DEF Control, Busy, Now
<1>4. Now \in Code /\ Now.alternatives[i] \in Seq(Code)
  BY <1>1, <1>3, BranchFacts
<1>5. QED
  BY <1>1, <1>2, <1>3, <1>4

\* A block that is entered is on top of the stack, and its body is to be run.
LEMMA EnterShape ==
  ASSUME Nested(Code), Control, Enter
  PROVE  /\ Busy /\ Now.do \in Blocks /\ UNCHANGED result
         /\ Now \in Entered /\ Now.body \in Seq(Code) /\ Tail(todo) \in Seq(All)
         /\ todo' = Now.body \o << Leave >>
         /\ Len(scopes) \in Nat /\ DOMAIN scopes = 1 .. Len(scopes)
         /\ scopes' \in Seq(Frames) /\ Len(scopes') = Len(scopes) + 1
         /\ DOMAIN scopes' = 1 .. Len(scopes) + 1
         /\ \A i \in 1 .. Len(scopes) : scopes'[i] = scopes[i]
         /\ scopes'[Len(scopes) + 1] = [do |-> Now.do, kinds |-> Now.kinds,
                                        handler |-> Now.handler, rest |-> Tail(todo)]
<1>1. Busy /\ Now.do \in Blocks /\ UNCHANGED result /\ todo' = Now.body \o << Leave >>
  BY DEF Enter, Next1, Busy, Blocks
<1>2. Now \in All /\ Tail(todo) \in Seq(All)
  BY <1>1, HeadFacts DEF Control, Busy, Now
<1>3. Now \in Entered /\ Now.body \in Seq(Code)
  BY <1>1, <1>2, BlockFacts
<1> DEFINE f == [do |-> Now.do, kinds |-> Now.kinds, handler |-> Now.handler, rest |-> Tail(todo)]
<1>4. f \in Frames /\ scopes' = Append(scopes, f)
  BY <1>1, <1>2, BlockFacts DEF Enter
<1>5. scopes \in Seq(Frames) /\ Len(scopes) \in Nat /\ DOMAIN scopes = 1 .. Len(scopes)
  BY LenProperties DEF Control
<1> HIDE DEF f
<1>6. /\ scopes' \in Seq(Frames) /\ Len(scopes') = Len(scopes) + 1
      /\ \A i \in 1 .. Len(scopes) : scopes'[i] = scopes[i]
      /\ scopes'[Len(scopes) + 1] = f
  BY <1>4, <1>5, AppendProperties
<1>7. DOMAIN scopes' = 1 .. Len(scopes) + 1
  BY <1>6, LenProperties
<1>8. QED
  BY <1>1, <1>2, <1>3, <1>5, <1>6, <1>7 DEF f

\* A block that is left is off the stack; a finally block runs its handler first.
LEMMA ExitShape ==
  ASSUME Nested(Code), Control, ExitScope
  PROVE  /\ Busy /\ Now.do = "leave" /\ UNCHANGED result
         /\ Len(scopes) \in Nat \ {0} /\ DOMAIN scopes = 1 .. Len(scopes)
         /\ Len(scopes) \in DOMAIN scopes /\ scopes[Len(scopes)] \in Frames
         /\ scopes[Len(scopes)].handler \in Seq(Code) /\ scopes[Len(scopes)].rest \in Seq(All)
         /\ scopes' \in Seq(Frames) /\ Len(scopes') = Len(scopes) - 1
         /\ DOMAIN scopes' = 1 .. Len(scopes) - 1
         /\ \A j \in 1 .. Len(scopes) - 1 : scopes'[j] = scopes[j] /\ j \in DOMAIN scopes
         /\ todo' = (IF scopes[Len(scopes)].do = "finally" THEN scopes[Len(scopes)].handler
                                                           ELSE << >>) \o scopes[Len(scopes)].rest
<1>1. /\ Busy /\ Now.do = "leave" /\ UNCHANGED result
      /\ scopes' = SubSeq(scopes, 1, Len(scopes) - 1)
      /\ todo' = (IF scopes[Len(scopes)].do = "finally" THEN scopes[Len(scopes)].handler
                                                        ELSE << >>) \o scopes[Len(scopes)].rest
  BY DEF ExitScope, Next1, Busy
<1>2. Len(scopes) \in Nat \ {0}
  <2>1. todo[1] = Leave /\ 1 \in DOMAIN todo
    BY <1>1, HeadFacts DEF Control, Busy, Now
  <2>2. QED
    BY <2>1, LenProperties DEF Control, Fits
<1> DEFINE n == Len(scopes)
<1>3. scopes \in Seq(Frames) /\ n \in 1 .. n /\ n \in Nat \ {0}
  BY <1>2 DEF Control
<1>4. /\ scopes' \in Seq(Frames) /\ Len(scopes') = n - 1 /\ DOMAIN scopes' = 1 .. n - 1
      /\ \A j \in 1 .. n - 1 : scopes'[j] = scopes[j] /\ j \in 1 .. n
      /\ DOMAIN scopes = 1 .. n /\ scopes[n] \in Frames
  <2> HIDE DEF n
  <2>1. n \in 1 .. Len(scopes) /\ scopes' = SubSeq(scopes, 1, n - 1) /\ n = Len(scopes)
    BY <1>1, <1>3 DEF n
  <2>2. QED
    BY <1>3, <2>1, BelowFacts
<1>5. scopes[n].handler \in Seq(Code) /\ scopes[n].rest \in Seq(All)
  BY <1>4, FrameFacts
<1>6. QED
  BY <1>1, <1>3, <1>4, <1>5

\* An exception ends the operation when nothing takes it, or goes on with the handler of the
\* innermost block that does.
EndsIt(kind, from) ==
  /\ todo' = << >> /\ scopes' = << >>
  /\ result' = IF kind = "cancelled" THEN "cancelled" ELSE "failed"
  /\ \A i \in 1 .. from : ~Takes(scopes[i], kind)
Lands(i, kind, from) ==
  /\ UNCHANGED result
  /\ Takes(scopes[i], kind) /\ \A j \in i + 1 .. from : ~Takes(scopes[j], kind)
  /\ i \in DOMAIN scopes /\ i \in 1 .. Len(scopes) /\ i - 1 \in Nat /\ scopes[i] \in Frames
  /\ scopes[i].handler \in Seq(Code) /\ scopes[i].rest \in Seq(All)
  /\ scopes' \in Seq(Frames) /\ Len(scopes') = i - 1 /\ DOMAIN scopes' = 1 .. i - 1
  /\ \A j \in 1 .. i - 1 : scopes'[j] = scopes[j] /\ j \in DOMAIN scopes
  /\ todo' = scopes[i].handler \o (IF scopes[i].do = "finally" THEN << Throw(kind) >>
                                                               ELSE scopes[i].rest)
\* An exception does one or the other.
LEMMA RaiseShape ==
  ASSUME Nested(Code), Control, NEW from \in 0 .. Len(scopes), NEW kind, Raise(kind, from)
  PROVE  EndsIt(kind, from) \/ \E i \in 1 .. from : Lands(i, kind, from)
<1>1. CASE EndsIt(kind, from)
  BY <1>1
<1>2. CASE ~EndsIt(kind, from)
  <2>1. PICK i \in 1 .. from :
          /\ Takes(scopes[i], kind) /\ \A j \in i + 1 .. from : ~Takes(scopes[j], kind)
          /\ scopes' = SubSeq(scopes, 1, i - 1) /\ UNCHANGED result
          /\ todo' = scopes[i].handler
                       \o (IF scopes[i].do = "finally" THEN << Throw(kind) >> ELSE scopes[i].rest)
    BY <1>2 DEF Raise, EndsIt
  <2>2. i \in 1 .. Len(scopes) /\ i - 1 \in Nat
    BY LenProperties DEF Control
  <2>3. /\ scopes' \in Seq(Frames) /\ Len(scopes') = i - 1 /\ DOMAIN scopes' = 1 .. i - 1
        /\ \A j \in 1 .. i - 1 : scopes'[j] = scopes[j] /\ j \in DOMAIN scopes
        /\ i \in DOMAIN scopes /\ scopes[i] \in Frames
    BY <2>1, <2>2, BelowFacts DEF Control
  <2>4. scopes[i].handler \in Seq(Code) /\ scopes[i].rest \in Seq(All)
    BY <2>3, FrameFacts
  <2>5. Lands(i, kind, from)
    BY <2>1, <2>2, <2>3, <2>4 DEF Lands
  <2>6. QED
    BY <2>5
<1>3. QED
  BY <1>1, <1>2

\* What an exception does: one or the other.
Thrown(kind, from) == EndsIt(kind, from) \/ \E i \in 1 .. from : Lands(i, kind, from)
\* A step that throws raises its exception from the top of the stack, a lost thread its
\* error from below the worker.
LEMMA ThrowShape ==
  ASSUME Nested(Code), Control
  PROVE  /\ \A kind \in Kinds : Throws(kind) => Thrown(kind, Len(scopes))
         /\ \A i \in DOMAIN scopes, kind \in Kinds :
              Lost(i, kind) => i \in 1 .. Len(scopes) /\ Thrown(kind, i - 1)
<1>1. Len(scopes) \in 0 .. Len(scopes) /\ DOMAIN scopes = 1 .. Len(scopes)
      /\ \A i \in 1 .. Len(scopes) : i - 1 \in 0 .. Len(scopes)
  BY LenProperties DEF Control
<1>2. ASSUME NEW kind \in Kinds, Throws(kind) PROVE Thrown(kind, Len(scopes))
  BY <1>1, <1>2, RaiseShape DEF Throws, Thrown
<1>3. ASSUME NEW i \in DOMAIN scopes, NEW kind \in Kinds, Lost(i, kind)
      PROVE  i \in 1 .. Len(scopes) /\ Thrown(kind, i - 1)
  BY <1>1, <1>3, RaiseShape DEF Lost, Thrown
<1>4. QED
  BY <1>2, <1>3

\* Control is kept by an exception, wherever it comes from.
LEMMA ThrownControl ==
  ASSUME Nested(Code), Control, result = "running", NEW kind \in Kinds, NEW from, Thrown(kind, from)
  PROVE  Control'
<1>1. CASE EndsIt(kind, from)
  BY <1>1, EmptySeq DEF EndsIt, Control, Fits, Over
<1>2. ASSUME NEW i \in 1 .. from, Lands(i, kind, from) PROVE Control'
  <2>1. Fits(scopes[i].rest, i - 1)
    BY <1>2 DEF Control, Lands
  <2>2. todo' \in Seq(All) /\ Fits(todo', i - 1)
    BY <1>2, <2>1, JoinFits, EndFits DEF Lands
  <2>3. \A j \in DOMAIN scopes' : Fits(scopes'[j].rest, j - 1)
    BY <1>2 DEF Control, Lands
  <2>4. QED
    BY <1>2, <2>2, <2>3 DEF Control, Over, Lands
<1>3. QED
  BY <1>1, <1>2 DEF Thrown

\* Control is kept by every step.
LEMMA ControlStep ==
  ASSUME Nested(Code), Control, [Next]_vars
  PROVE  Control'
<1>1. Moves /\ Len(scopes) \in Nat
  BY Flow, LenProperties DEF Control
<1>2. CASE Stays
  BY <1>2 DEF Stays, Control, Over
<1>3. CASE Passes
  <2>1. Now.do \notin {"leave", "throw"}
    BY <1>3 DEF Passes, Plain
  <2>2. Fits(Tail(todo), Len(scopes))
    BY <1>1, <1>3, <2>1, PassShape, TailFits DEF Control, Now
  <2>3. QED
    BY <1>3, <2>2, PassShape DEF Control, Over
<1>4. CASE Choose
  <2>1. PICK i \in DOMAIN Now.alternatives :
          Now.alternatives[i] \in Seq(Code) /\ todo' = Now.alternatives[i] \o Tail(todo)
    BY <1>4, ChooseShape
  <2>2. Tail(todo) \in Seq(All) /\ Fits(Tail(todo), Len(scopes))
    BY <1>1, <1>4, ChooseShape, TailFits DEF Control, Now, Busy
  <2>3. todo' \in Seq(All) /\ Fits(todo', Len(scopes))
    BY <1>1, <2>1, <2>2, JoinFits
  <2>4. QED
    BY <1>4, <2>3, ChooseShape DEF Control, Over, Busy
<1>5. CASE Enter
  <2>1. Fits(Tail(todo), Len(scopes))
    BY <1>1, <1>5, EnterShape, TailFits DEF Control, Now, Busy, Blocks
  <2>2. todo' \in Seq(All) /\ Fits(todo', Len(scopes'))
    BY <1>1, <1>5, EnterShape, EndFits
  <2>3. ASSUME NEW i \in DOMAIN scopes' PROVE Fits(scopes'[i].rest, i - 1)
    <3>1. CASE i \in 1 .. Len(scopes)
      BY <1>5, <3>1, EnterShape DEF Control
    <3>2. CASE i = Len(scopes) + 1
      <4>1. i - 1 = Len(scopes)
        BY <1>1, <3>2
      <4>2. scopes'[i].rest = Tail(todo)
        BY <1>5, <3>2, EnterShape
      <4>3. QED
        BY <2>1, <4>1, <4>2
    <3>3. QED
      BY <1>1, <1>5, <3>1, <3>2, EnterShape
  <2>4. QED
    BY <1>5, <2>2, <2>3, EnterShape DEF Control, Over, Busy
<1>6. CASE ExitScope
  <2>1. << >> \in Seq(Code)
    BY EmptySeq
  <2>2. Fits(scopes[Len(scopes)].rest, Len(scopes) - 1) /\ Len(scopes) - 1 \in Nat
    <3>1. Len(scopes) \in DOMAIN scopes /\ Len(scopes) \in Nat \ {0}
      BY <1>6, ExitShape
    <3>2. QED
      BY <3>1 DEF Control
  <2>3. todo' \in Seq(All) /\ Fits(todo', Len(scopes) - 1)
    BY <1>6, <2>1, <2>2, ExitShape, JoinFits
  <2>4. \A j \in DOMAIN scopes' : Fits(scopes'[j].rest, j - 1)
    BY <1>6, ExitShape DEF Control
  <2>5. QED
    BY <1>6, <2>3, <2>4, ExitShape DEF Control, Over, Busy
<1>7. CASE Finish
  <2>1. scopes = << >>
    <3>1. Len(scopes) = 0
      BY <1>7 DEF Finish, Control, Fits, Ended
    <3>2. QED
      BY <3>1, EmptySeq DEF Control
  <2>2. QED
    BY <1>7, <2>1 DEF Finish, Control, Over
<1>8. ASSUME NEW kind \in Kinds, Throws(kind) PROVE Control'
  BY <1>8, ThrowShape, ThrownControl DEF Throws, Busy
<1>9. ASSUME NEW i \in DOMAIN scopes, NEW kind \in Kinds, Lost(i, kind) PROVE Control'
  BY <1>9, ThrowShape, ThrownControl DEF Lost
<1>10. QED
  BY <1>1, <1>2, <1>3, <1>4, <1>5, <1>6, <1>7, <1>8, <1>9 DEF Moves

\* An operation begins with its steps and no block open.
LEMMA ControlInit == OfCode /\ Init => Control
<1> SUFFICES ASSUME OfCode, Init PROVE Control
  OBVIOUS
<1>1. todo \in Seq(Code)
  BY DEF OfCode, Init
<1>2. scopes \in Seq(Frames) /\ Len(scopes) = 0 /\ DOMAIN scopes = {}
  BY EmptySeq DEF Init
<1>3. todo \in Seq(All)
  BY <1>1, SeqMonotonic DEF All
<1>4. Fits(todo, 0)
  <2>1. \A i \in DOMAIN todo : todo[i] \in Code
    BY <1>1, LenProperties, ElementOfSeq
  <2>2. QED
    BY <2>1 DEF Fits, OfCode, Nested, Leave
<1>5. QED
  BY <1>2, <1>3, <1>4 DEF Control, Init, Over
\* When the operation is over nothing moves.
LEMMA OverStays ==
  ASSUME Moves, Over
  PROVE  Stays
BY DEF Moves, Over, Stays, Passes, Choose, Enter, ExitScope, Finish, Throws, Lost, Busy, Next1

-----------------------------------------------------------------------------
(* Cancellation                                                            *)

\* What is thrown again stays so with more text behind it, and behind a cleanup.
LEMMA RethrowsJoin ==
  ASSUME NEW p \in Seq(All), NEW q \in Seq(All), NEW kind, Rethrows(p, kind)
  PROVE  Rethrows(p \o q, kind)
<1>1. PICK n \in DOMAIN p : p[n] = Throw(kind) /\ \A i \in 1 .. n - 1 : p[i].do \in Cleanups
  BY DEF Rethrows
<1>2. n \in 1 .. Len(p) /\ Len(p) \in Nat /\ Len(q) \in Nat
  BY JoinFacts
<1>3. n \in DOMAIN (p \o q) /\ (p \o q)[n] = Throw(kind)
  BY <1>1, <1>2, JoinFacts
<1>4. ASSUME NEW i \in 1 .. n - 1 PROVE (p \o q)[i].do \in Cleanups
  <2>1. i \in 1 .. Len(p)
    BY <1>2
  <2>2. QED
    BY <1>1, <2>1, JoinFacts
<1>5. QED
  BY <1>3, <1>4 DEF Rethrows

\* A handler that cleans up, with the exception it passes on behind it, throws it again.
LEMMA RethrowsBehind ==
  ASSUME NEW p \in Seq(Code), CleansUp(p), NEW kind \in Kinds
  PROVE  Rethrows(p \o << Throw(kind) >>, kind)
<1> DEFINE q == << Throw(kind) >>
           n == Len(p) + 1
<1>1. p \in Seq(All) /\ q \in Seq(All) /\ Len(q) = 1 /\ q[1] = Throw(kind)
  <2>1. p \in Seq(All)
    BY SeqMonotonic DEF All
  <2>2. Throw(kind) \in All
    BY DEF All
  <2>3. QED
    BY <2>1, <2>2
<1> HIDE DEF q
<1>2. n \in DOMAIN (p \o q) /\ (p \o q)[n] = Throw(kind)
  <2>1. 1 \in 1 .. Len(q) /\ Len(p) \in Nat
    BY <1>1, LenProperties
  <2>2. \A i \in 1 .. Len(q) : (p \o q)[Len(p) + i] = q[i]
    BY <1>1, JoinFacts
  <2>3. (p \o q)[Len(p) + 1] = q[1]
    BY <2>1, <2>2
  <2>4. DOMAIN (p \o q) = 1 .. Len(p) + 1
    <3>1. DOMAIN (p \o q) = 1 .. Len(p) + Len(q)
      BY <1>1, JoinFacts
    <3>2. Len(q) = 1
      BY <1>1
    <3>3. QED
      BY <3>1, <3>2
  <2>5. Len(p) + 1 \in 1 .. Len(p) + 1
    BY <2>1
  <2>6. QED
    BY <1>1, <2>3, <2>4, <2>5
<1>3. ASSUME NEW i \in 1 .. n - 1 PROVE (p \o q)[i].do \in Cleanups
  <2>1. i \in 1 .. Len(p) /\ i \in DOMAIN p
    BY <1>1, JoinFacts
  <2>2. QED
    BY <1>1, <2>1, JoinFacts DEF CleansUp
<1>4. QED
  BY <1>2, <1>3 DEF Rethrows, q

\* What throws again cleans up, or throws now.
LEMMA RethrowsTail ==
  ASSUME Nested(Code), NEW q \in Seq(All), q # << >>, NEW kind, Rethrows(q, kind)
  PROVE  /\ Head(q).do = "throw" => Head(q) = Throw(kind)
         /\ Head(q).do # "throw" => Head(q).do \in Cleanups /\ Rethrows(Tail(q), kind)
<1>1. PICK n \in DOMAIN q : q[n] = Throw(kind) /\ \A i \in 1 .. n - 1 : q[i].do \in Cleanups
  BY DEF Rethrows
<1>2. Head(q) = q[1] /\ Len(q) \in Nat /\ DOMAIN q = 1 .. Len(q) /\ n \in 1 .. Len(q)
  BY <1>1, HeadFacts, LenProperties
<1>3. CASE n = 1
  BY <1>1, <1>2, <1>3 DEF Throw
<1>4. CASE n # 1
  <2>1. Head(q).do \in Cleanups
    BY <1>1, <1>2, <1>4
  <2>2. DOMAIN Tail(q) = 1 .. Len(q) - 1
    <3>1. Tail(q) \in Seq(All) /\ Len(Tail(q)) = Len(q) - 1
      BY HeadFacts
    <3>2. QED
      BY <3>1, LenProperties
  <2>3. n - 1 \in DOMAIN Tail(q) /\ (n - 1) + 1 = n
    BY <1>2, <1>4, <2>2
  <2>4. Tail(q)[n - 1] = Throw(kind)
    BY <1>1, <2>3, HeadFacts
  <2>5. ASSUME NEW i \in 1 .. (n - 1) - 1 PROVE Tail(q)[i].do \in Cleanups
    <3>1. i \in DOMAIN Tail(q) /\ i + 1 \in 1 .. n - 1
      BY <1>2, <1>4, <2>2
    <3>2. QED
      BY <1>1, <3>1, HeadFacts
  <2>6. Rethrows(Tail(q), kind)
    BY <2>3, <2>4, <2>5 DEF Rethrows
  <2>7. QED
    BY <2>1, <2>6 DEF Cleanups
<1>5. QED
  BY <1>3, <1>4

\* A cancellation that is thrown ends the operation, or will be thrown again
\* before anything else can happen.
Final == result = "cancelled" \/ (result = "running" /\ Rethrows(todo, "cancelled"))
CancelInv == "cancelThrown" \in notes /\ "workerLost" \notin notes => Final

\* A cancellation ends the operation, or comes to a handler that throws it again.
LEMMA CancelLands ==
  ASSUME Nested(Code), PassesCancellation(Code), Control, result = "running", NEW from,
         Thrown("cancelled", from)
  PROVE  Final'
<1>1. CASE EndsIt("cancelled", from)
  BY <1>1 DEF EndsIt, Final
<1>2. ASSUME NEW i \in 1 .. from, Lands(i, "cancelled", from) PROVE Final'
  <2> DEFINE f == scopes[i]
  <2>1. f \in Frames /\ f.handler \in Seq(Code) /\ f.rest \in Seq(All) /\ result' = "running"
    BY <1>2 DEF Lands
  <2>2. PICK s \in Entered : f.do = s.do /\ f.kinds = s.kinds /\ f.handler = s.handler
    BY <2>1, FrameFacts
  <2>3. s \in Code /\ s.do \in Blocks
    BY DEF Entered
  <2>4. CASE f.do = "finally"
    <3>1. CleansUp(f.handler)
      BY <2>2, <2>3, <2>4 DEF PassesCancellation
    <3>2. "cancelled" \in Kinds
      BY DEF Kinds, AnyError
    <3>3. Rethrows(f.handler \o << Throw("cancelled") >>, "cancelled")
      BY <2>1, <3>1, <3>2, RethrowsBehind
    <3>4. QED
      BY <1>2, <2>1, <2>4, <3>3 DEF Lands, Final
  <2>5. CASE f.do # "finally"
    <3>1. "cancelled" \in f.kinds
      BY <1>2, <2>5 DEF Lands, Takes
    <3>2. f.do = "catch"
      BY <2>1, <2>5, <3>1, FrameFacts DEF Blocks
    <3>3. Rethrows(f.handler, "cancelled")
      BY <2>2, <2>3, <3>1, <3>2 DEF PassesCancellation
    <3>4. f.handler \in Seq(All)
      BY <2>1, SeqMonotonic DEF All
    <3>5. Rethrows(f.handler \o f.rest, "cancelled")
      BY <2>1, <3>3, <3>4, RethrowsJoin
    <3>6. QED
      BY <1>2, <2>1, <2>5, <3>5 DEF Lands, Final
  <2>6. QED
    BY <2>4, <2>5
<1>3. QED
  BY <1>1, <1>2 DEF Thrown

\* No step turns a cancellation into anything else.
LEMMA CancelStep ==
  ASSUME Nested(Code), PassesCancellation(Code), Control, CancelInv, [Next]_vars
  PROVE  CancelInv'
<1> SUFFICES ASSUME "cancelThrown" \in notes', "workerLost" \notin notes' PROVE Final'
  BY DEF CancelInv
<1>1. Moves /\ "workerLost" \notin notes
  BY Flow
<1>2. ~\E i \in DOMAIN scopes, kind \in Kinds : Lost(i, kind)
  BY DEF Lost, Note
<1>3. CASE "cancelThrown" \notin notes
  <2>1. PICK kind \in Kinds : Throws(kind) /\ kind = "cancelled"
    BY <1>1, <1>2, <1>3
       DEF Moves, Stays, Passes, Choose, Enter, ExitScope, Finish, Throws, Quiet
  <2>2. Thrown("cancelled", Len(scopes)) /\ result = "running"
    BY <2>1, ThrowShape DEF Throws, Busy
  <2>3. QED
    BY <2>2, CancelLands
<1>4. CASE "cancelThrown" \in notes /\ result = "cancelled"
  <2>1. Stays
    BY <1>1, <1>4, OverStays DEF Over
  <2>2. QED
    BY <1>4, <2>1 DEF Stays, Final
<1>5. CASE "cancelThrown" \in notes /\ result = "running" /\ Rethrows(todo, "cancelled")
  <2>1. todo \in Seq(All) /\ todo # << >>
    BY <1>5 DEF Control, Rethrows
  <2>2. /\ Now.do = "throw" => Now = Throw("cancelled")
        /\ Now.do # "throw" => Now.do \in Cleanups /\ Rethrows(Tail(todo), "cancelled")
    BY <1>5, <2>1, RethrowsTail DEF Now
  <2>3. CASE Stays
    BY <1>5, <2>3 DEF Stays, Final
  <2>4. CASE Passes
    <3>1. Rethrows(Tail(todo), "cancelled")
      BY <2>2, <2>4 DEF Passes, Plain
    <3>2. QED
      BY <2>4, <3>1, PassShape DEF Final
  <2>5. ~Choose /\ ~Enter /\ ~ExitScope /\ ~Finish
    BY <2>1, <2>2 DEF Choose, Enter, ExitScope, Finish, Next1, Cleanups
  <2>6. ASSUME NEW kind \in Kinds, Throws(kind) PROVE Final'
    <3>1. Now = Throw("cancelled") /\ Now = Throw(kind)
      BY <2>2, <2>6 DEF Throws, Throwing
    <3>2. kind = "cancelled"
      BY <3>1 DEF Throw
    <3>3. Thrown("cancelled", Len(scopes))
      BY <2>6, <3>2, ThrowShape
    <3>4. QED
      BY <1>5, <3>3, CancelLands
  <2>7. QED
    BY <1>1, <1>2, <2>3, <2>4, <2>5, <2>6 DEF Moves
<1>6. QED
  BY <1>1, <1>3, <1>4, <1>5 DEF CancelInv, Final

\* A cancellation once thrown is what the caller sees, in every program whose finally
\* blocks only clean up and whose catch blocks throw a cancellation on.
THEOREM CancellationIsFinal ==
  ASSUME OfCode, PassesCancellation(Code)
  PROVE  Spec => []CancelIsFinal
<1>1. Init => Control /\ CancelInv
  BY ControlInit DEF Init, CancelInv
<1>2. Control /\ CancelInv /\ [Next]_vars => Control' /\ CancelInv'
  BY ControlStep, CancelStep DEF OfCode
<1>3. CancelInv => CancelIsFinal
  BY DEF CancelInv, Final, CancelIsFinal
<1>4. QED
  BY <1>1, <1>2, <1>3, PTL DEF Spec
-----------------------------------------------------------------------------
(* The files of the 7-Zip instance                                         *)

\* The convention, rule by rule.
LEMMA KnownFacts ==
  ASSUME KnowsFiles(Known), NEW q, NEW F, <<q, F>> \in Known, q # << >>
  PROVE  LET s == Head(q)
         IN /\ s.do = "reset" => <<Tail(q), {}>> \in Known
            /\ s.do = "put" => <<Tail(q), F \cup {s.file}>> \in Known
            /\ s.do = "get" => s.file \in F /\ <<Tail(q), F>> \in Known
            /\ s.do = "main" => s.reads \subseteq F /\ <<Tail(q), F \cup s.makes>> \in Known
            /\ s.do = "either" =>
                 \A i \in DOMAIN s.alternatives : <<s.alternatives[i] \o Tail(q), F>> \in Known
            /\ s.do \in Blocks => <<s.body \o << Leave >>, F>> \in Known
            /\ s.do = "finally" => CleansUp(s.handler)
            /\ s.do \in {"finally", "catch"} => <<s.handler \o Tail(q), {}>> \in Known
            /\ s.do \in {"catch", "worker"} => <<Tail(q), {}>> \in Known
            /\ s.do \in Plain \ {"reset", "put", "get", "main"} => <<Tail(q), F>> \in Known
<1> DEFINE s == Head(q)
<1>1. CASE s.do \in {"reset", "put", "get", "main"}
  BY <1>1 DEF KnowsFiles, Blocks, Plain
<1>2. CASE s.do \in {"either", "finally"}
  BY <1>2 DEF KnowsFiles, Blocks, Plain
<1>3. CASE s.do \in {"catch", "worker"}
  BY <1>3 DEF KnowsFiles, Blocks, Plain
<1>4. CASE s.do \in Plain \ {"reset", "put", "get", "main"}
  BY <1>4 DEF KnowsFiles, Blocks, Plain
<1>5. QED
  BY <1>1, <1>2, <1>3, <1>4 DEF Blocks, Plain

\* What is left to do cleans up and throws, or is a known text whose files are there.
Harmless(q) == \E kind \in Kinds : Rethrows(q, kind)
Supplied(q, files) == Harmless(q) \/ \E F \in SUBSET files : <<q, F>> \in Known
KnownFrame(f) ==
  /\ f.do = "finally" => CleansUp(f.handler)
  /\ f.do \in {"finally", "catch"} => <<f.handler \o f.rest, {}>> \in Known
  /\ f.do \in {"catch", "worker"} => <<f.rest, {}>> \in Known
FileInv ==
  /\ CopiedOutFirst
  /\ result = "running" => Supplied(todo, vfs)
  /\ \A i \in DOMAIN scopes : KnownFrame(scopes[i])

\* An exception comes to a text that only cleans up, or that needs no file.
LEMMA FileLands ==
  ASSUME Nested(Code), Control, \A i \in DOMAIN scopes : KnownFrame(scopes[i]),
         result = "running", NEW kind \in Kinds, NEW from, Thrown(kind, from)
  PROVE  /\ result' = "running" => Supplied(todo', vfs')
         /\ \A i \in DOMAIN scopes' : KnownFrame(scopes'[i])
<1>1. CASE EndsIt(kind, from)
  BY <1>1 DEF EndsIt
<1>2. ASSUME NEW i \in 1 .. from, Lands(i, kind, from)
      PROVE  /\ Supplied(todo', vfs')
             /\ \A j \in DOMAIN scopes' : KnownFrame(scopes'[j])
  <2> DEFINE f == scopes[i]
  <2>1. f \in Frames /\ f.handler \in Seq(Code) /\ KnownFrame(f)
    BY <1>2 DEF Lands
  <2>2. CASE f.do = "finally"
    <3>1. Rethrows(f.handler \o << Throw(kind) >>, kind)
      BY <2>1, <2>2, RethrowsBehind DEF KnownFrame
    <3>2. QED
      BY <1>2, <2>2, <3>1 DEF Lands, Supplied, Harmless
  <2>3. CASE f.do # "finally"
    <3>1. f.do = "catch"
      BY <1>2, <2>1, <2>3, FrameFacts DEF Lands, Takes, Blocks
    <3>2. <<f.handler \o f.rest, {}>> \in Known
      BY <2>1, <3>1 DEF KnownFrame
    <3>3. todo' = f.handler \o f.rest
      BY <1>2, <2>3 DEF Lands
    <3>4. Supplied(todo', vfs')
      BY <3>2, <3>3 DEF Supplied
    <3>5. QED
      BY <1>2, <3>4 DEF Lands
  <2>4. QED
    BY <1>2, <2>2, <2>3 DEF Lands
<1>3. QED
  BY <1>1, <1>2 DEF Thrown, EndsIt

\* No step reads a file that is not there.
LEMMA FileStep ==
  ASSUME Nested(Code), KnowsFiles(Known), Control, FileInv, [Next]_vars
  PROVE  FileInv'
<1>1. Moves /\ \A i \in DOMAIN scopes : KnownFrame(scopes[i])
  BY Flow DEF FileInv
<1>2. CASE Stays
  BY <1>2 DEF Stays, FileInv, CopiedOutFirst, NoLoss, Files
<1>3. ASSUME Busy
      PROVE  \/ Now.do = "throw"
             \/ (Now.do \in Cleanups /\ Harmless(Tail(todo)))
             \/ \E F \in SUBSET vfs : <<todo, F>> \in Known
  <2>1. CASE Harmless(todo)
    BY <1>3, <2>1, RethrowsTail DEF Control, Harmless, Busy, Now
  <2>2. QED
    BY <1>3, <2>1 DEF FileInv, Supplied, Busy
<1>4. CASE Passes
  <2>1. todo' = Tail(todo) /\ UNCHANGED <<scopes, result>> /\ Busy /\ Now.do \in Plain /\ vfs' = VfsAfter
    BY <1>4, PassShape DEF Passes
  <2>2. CopiedOutFirst'
    BY <1>4 DEF Passes, NoLoss, FileInv, CopiedOutFirst
  <2>3. CASE Now.do \in Cleanups /\ Harmless(Tail(todo))
    BY <1>1, <2>1, <2>2, <2>3 DEF FileInv, Supplied
  <2>4. ASSUME NEW F \in SUBSET vfs, <<todo, F>> \in Known PROVE Supplied(Tail(todo), VfsAfter)
    <3>1. CASE Now.do = "reset"
      BY <2>1, <2>4, <3>1, KnownFacts DEF Busy, Now, Supplied, VfsAfter
    <3>2. CASE Now.do = "put"
      <4>1. <<Tail(todo), F \cup {Now.file}>> \in Known /\ VfsAfter = vfs \cup {Now.file}
        BY <2>1, <2>4, <3>2, KnownFacts DEF Busy, Now, VfsAfter
      <4>2. QED
        BY <4>1 DEF Supplied
    <3>3. CASE Now.do = "main"
      <4>1. <<Tail(todo), F \cup Now.makes>> \in Known /\ VfsAfter = vfs \cup Now.makes
        BY <2>1, <2>4, <3>3, KnownFacts DEF Busy, Now, VfsAfter
      <4>2. QED
        BY <4>1 DEF Supplied
    <3>4. CASE Now.do \notin {"reset", "put", "main"}
      <4>1. <<Tail(todo), F>> \in Known /\ VfsAfter = vfs
        BY <2>1, <2>4, <3>4, KnownFacts DEF Busy, Now, VfsAfter, Plain
      <4>2. QED
        BY <4>1 DEF Supplied
    <3>5. QED
      BY <3>1, <3>2, <3>3, <3>4
  <2>5. Now.do # "throw"
    BY <2>1 DEF Plain
  <2>6. QED
    BY <1>1, <1>3, <2>1, <2>2, <2>3, <2>4, <2>5 DEF FileInv
<1>5. CASE Choose
  <2>1. Busy /\ Now.do = "either" /\ UNCHANGED <<scopes, result, vfs, notes>>
    BY <1>5, ChooseShape DEF Choose, Files
  <2>2. PICK F \in SUBSET vfs : <<todo, F>> \in Known
    BY <1>3, <2>1 DEF Cleanups
  <2>3. PICK i \in DOMAIN Now.alternatives : todo' = Now.alternatives[i] \o Tail(todo)
    BY <1>5, ChooseShape
  <2>4. <<todo', F>> \in Known
    BY <2>1, <2>2, <2>3, KnownFacts DEF Busy, Now
  <2>5. QED
    BY <2>1, <2>2, <2>4 DEF FileInv, Supplied, CopiedOutFirst
<1>6. CASE Enter
  <2>1. Busy /\ Now.do \in Blocks /\ UNCHANGED <<result, vfs, notes>> /\ todo' = Now.body \o << Leave >>
    BY <1>6, EnterShape DEF Enter, Files
  <2>2. PICK F \in SUBSET vfs : <<todo, F>> \in Known
    BY <1>3, <2>1 DEF Cleanups, Blocks
  <2>3. <<todo', F>> \in Known
    BY <2>1, <2>2, KnownFacts DEF Busy, Now
  <2> DEFINE f == [do |-> Now.do, kinds |-> Now.kinds, handler |-> Now.handler, rest |-> Tail(todo)]
  <2>4. KnownFrame(f)
    BY <2>1, <2>2, KnownFacts DEF Busy, Now, KnownFrame
  <2>5. \A i \in DOMAIN scopes' : KnownFrame(scopes'[i])
    <3> HIDE DEF f
    <3>1. scopes'[Len(scopes) + 1] = f
      BY <1>6, EnterShape DEF f
    <3>2. ASSUME NEW i \in DOMAIN scopes' PROVE i = Len(scopes) + 1 \/ i \in 1 .. Len(scopes)
      BY <1>6, EnterShape
    <3>3. \A i \in 1 .. Len(scopes) : scopes'[i] = scopes[i] /\ i \in DOMAIN scopes
      BY <1>6, EnterShape
    <3>4. QED
      BY <1>1, <2>4, <3>1, <3>2, <3>3
  <2>6. QED
    BY <2>1, <2>2, <2>3, <2>5 DEF FileInv, Supplied, CopiedOutFirst
<1>7. CASE ExitScope
  <2>1. UNCHANGED <<result, vfs, notes>>
    BY <1>7 DEF ExitScope, Files
  <2> DEFINE f == scopes[Len(scopes)]
  <2>2. KnownFrame(f) /\ f \in Frames /\ f.rest \in Seq(All)
        /\ todo' = (IF f.do = "finally" THEN f.handler ELSE << >>) \o f.rest
    BY <1>1, <1>7, ExitShape
  <2>3. <<todo', {}>> \in Known
    <3>1. f.do \in Blocks /\ << >> \o f.rest = f.rest
      BY <2>2, FrameFacts, ConcatEmptySeq
    <3>2. QED
      BY <2>2, <3>1 DEF KnownFrame, Blocks
  <2>4. \A i \in DOMAIN scopes' : KnownFrame(scopes'[i])
    BY <1>1, <1>7, ExitShape
  <2>5. QED
    BY <2>1, <2>3, <2>4 DEF FileInv, Supplied, CopiedOutFirst
<1>8. CASE Finish
  BY <1>8 DEF Finish, FileInv, CopiedOutFirst
<1>9. ASSUME NEW kind \in Kinds, Throws(kind) PROVE FileInv'
  <2>1. Thrown(kind, Len(scopes)) /\ result = "running" /\ Busy
    BY <1>9, ThrowShape DEF Throws, Busy
  <2>2. ~Missing
    <3>1. ASSUME NEW F \in SUBSET vfs, <<todo, F>> \in Known PROVE ~Missing
      BY <2>1, <3>1, KnownFacts DEF Missing, Busy, Now
    <3>2. QED
      BY <1>3, <2>1, <3>1 DEF Missing, Cleanups
  <2>3. CopiedOutFirst'
    BY <1>9, <2>2 DEF Throws, NoLoss, FileInv, CopiedOutFirst
  <2>4. QED
    BY <1>1, <2>1, <2>3, FileLands DEF FileInv
<1>10. ASSUME NEW i \in DOMAIN scopes, NEW kind \in Kinds, Lost(i, kind) PROVE FileInv'
  <2>1. Thrown(kind, i - 1) /\ result = "running"
    BY <1>10, ThrowShape DEF Lost
  <2>2. CopiedOutFirst'
    BY <1>10 DEF Lost, NoLoss, FileInv, CopiedOutFirst
  <2>3. QED
    BY <1>1, <2>1, <2>2, FileLands DEF FileInv
<1>11. QED
  BY <1>1, <1>2, <1>4, <1>5, <1>6, <1>7, <1>8, <1>9, <1>10 DEF Moves

\* No step changes the operation.
LEMMA OpFixed == [Next]_vars => UNCHANGED op
<1>1. /\ RunCheck \/ RunPoll \/ RunThrow \/ Choose \/ Enter \/ ExitScope \/ Finish => UNCHANGED op
      /\ RunReset \/ RunPut \/ RunGet \/ RunMain \/ RunTemp \/ RunDrop => UNCHANGED op
  BY DEF RunCheck, RunPoll, RunThrow, Choose, Enter, ExitScope, Finish, RunReset, RunPut,
         RunGet, RunMain, RunTemp, RunDrop, Outside
<1>2. /\ RunWrite \/ RunWriteTree \/ RunReplace \/ RunRemove => UNCHANGED op
      /\ RunStage \/ RunPublish \/ RunUnstage => UNCHANGED op
  BY DEF RunWrite, RunWriteTree, RunReplace, RunRemove, RunStage, RunPublish, RunUnstage, Outside
<1>3. Spawn \/ CallBinding \/ BindingSettles \/ KilledChildCloses => UNCHANGED op
  BY DEF Spawn, CallBinding, BindingSettles, KilledChildCloses
<1>4. KillChild \/ GiveUp \/ (\E code \in {0, 2} : ChildCloses(code)) => UNCHANGED op
  BY DEF KillChild, GiveUp, ChildCloses
<1>5. Ask \/ LoseWorker \/ Rest \/ UNCHANGED vars => UNCHANGED op
  BY DEF Ask, LoseWorker, Rest, vars
<1>6. QED
  BY <1>1, <1>2, <1>3, <1>4, <1>5 DEF Next, Step

\* An operation that promises to copy its files out first reads no file of the 7-Zip
\* instance that a reset has removed, if all its reads are covered by what was put or made
\* since the last reset in the same block.
THEOREM VirtualFilesAreKept ==
  ASSUME OfCode, KnowsFiles(Known),
         \A p \in DOMAIN Programs :
           "copiesOut" \in Programs[p].promises => <<Programs[p].steps, {}>> \in Known
  PROVE  Spec => []VirtualFilesKept
<1>1. Init => Control /\ (Promised("copiesOut") => FileInv)
  <2> SUFFICES ASSUME Init, Promised("copiesOut") PROVE FileInv
    BY ControlInit
  <2>1. <<todo, {}>> \in Known /\ vfs = {} /\ notes = {} /\ DOMAIN scopes = {}
    BY DEF Init, Promised
  <2>2. QED
    BY <2>1 DEF FileInv, Supplied, CopiedOutFirst
<1>2. Control /\ (Promised("copiesOut") => FileInv) /\ [Next]_vars
        => Control' /\ (Promised("copiesOut") => FileInv)'
  <2> SUFFICES ASSUME Control, Promised("copiesOut") => FileInv, [Next]_vars
               PROVE  Control' /\ (Promised("copiesOut") => FileInv)'
    OBVIOUS
  <2>1. Control' /\ op' = op
    BY ControlStep, OpFixed DEF OfCode
  <2>2. (Promised("copiesOut"))' => Promised("copiesOut")
    BY <2>1 DEF Promised
  <2>3. Promised("copiesOut") => FileInv'
    BY FileStep DEF OfCode
  <2>4. QED
    BY <2>1, <2>2, <2>3
<1>3. (Promised("copiesOut") => FileInv) => VirtualFilesKept
  BY DEF FileInv, VirtualFilesKept
<1>4. QED
  BY <1>1, <1>2, <1>3, PTL DEF Spec
-----------------------------------------------------------------------------
(* Temporary files, staged copies, processes                               *)

\* What the first k frames of a stack guarantee, as a context promises it.
OffThread(S, k) == \A j \in 1 .. k : S[j].do # "worker"
Sound(c, S, k) ==
  /\ \A d \in c.temps :
       \E i \in 1 .. k : S[i].do = "finally" /\ d \in DroppedBy(S[i].handler)
  /\ c.unstaged =>
       \E i \in 1 .. k : S[i].do = "finally" /\ Unstages(S[i].handler) /\ OffThread(S, i)
  /\ ~c.thread => OffThread(S, k)

\* A text that stands in a context, but for steps that make nothing.
Idle == Cleanups \cup {"throw", "leave"}
Loose(q, c) == \A i \in DOMAIN q : Kept(q, i, c) /\ (q[i].do \in Idle \/ <<q[i], c>> \in Tidy)

TidyFrame(f, S, k) ==
  /\ f.do = "finally" => CleansUp(f.handler)
  /\ \E c : Sound(c, S, k) /\ Loose(f.rest, c) /\ (f.do = "catch" => Loose(f.handler, c))
TidyInv ==
  /\ \E c : Sound(c, scopes, Len(scopes)) /\ Loose(todo, c)
  /\ \A i \in DOMAIN scopes : TidyFrame(scopes[i], scopes, i - 1)

\* A context that the first k frames guarantee is guaranteed wherever they are.
LEMMA SoundAgain ==
  ASSUME NEW S, NEW T, NEW c, NEW k \in Nat, Sound(c, S, k), \A j \in 1 .. k : T[j] = S[j]
  PROVE  Sound(c, T, k)
<1>1. \A i \in 1 .. k : OffThread(S, i) => OffThread(T, i)
  BY DEF OffThread
<1>2. OffThread(S, k) => OffThread(T, k)
  BY DEF OffThread
<1>3. QED
  BY <1>1, <1>2 DEF Sound

\* Without frames nothing is guaranteed.
LEMMA SoundAtBottom == \A S : Sound(Outermost, S, 0)
BY DEF Sound, Outermost, OffThread

\* A context is deepened with the stack.
LEMMA SoundDeeper ==
  ASSUME NEW S, NEW c, NEW k \in Nat, Sound(c, S, k)
  PROVE  /\ S[k + 1].do = "catch" => Sound(c, S, k + 1)
         /\ S[k + 1].do = "finally" => Sound(Guarded(c, S[k + 1].handler), S, k + 1)
         /\ S[k + 1].do = "worker" => Sound(OnThread(c), S, k + 1)
<1> DEFINE f == S[k + 1]
<1>0. \A i \in 1 .. k : i \in 1 .. k + 1
  OBVIOUS
<1>1. /\ \A d \in c.temps : \E i \in 1 .. k + 1 : S[i].do = "finally" /\ d \in DroppedBy(S[i].handler)
      /\ c.unstaged => \E i \in 1 .. k + 1 : S[i].do = "finally" /\ Unstages(S[i].handler) /\ OffThread(S, i)
  BY <1>0 DEF Sound
<1>2. f.do # "worker" /\ ~c.thread => OffThread(S, k + 1)
  <2>1. \A j \in 1 .. k + 1 : j \in 1 .. k \/ j = k + 1
    OBVIOUS
  <2>2. QED
    BY <2>1 DEF Sound, OffThread
<1>3. f.do = "catch" => Sound(c, S, k + 1)
  BY <1>1, <1>2 DEF Sound
<1>4. k + 1 \in 1 .. k + 1
  OBVIOUS
<1>5. ASSUME f.do = "finally" PROVE Sound(Guarded(c, f.handler), S, k + 1)
  <2> DEFINE g == Guarded(c, f.handler)
  <2>1. /\ g.temps = c.temps \cup DroppedBy(f.handler)
        /\ g.unstaged = (c.unstaged \/ (~c.thread /\ Unstages(f.handler)))
        /\ g.thread = c.thread
    BY DEF Guarded
  <2> HIDE DEF g
  <2>2. \A d \in g.temps : \E i \in 1 .. k + 1 : S[i].do = "finally" /\ d \in DroppedBy(S[i].handler)
    BY <1>1, <1>4, <1>5, <2>1
  <2>3. g.unstaged => \E i \in 1 .. k + 1 : S[i].do = "finally" /\ Unstages(S[i].handler) /\ OffThread(S, i)
    BY <1>1, <1>2, <1>4, <1>5, <2>1
  <2>4. ~g.thread => OffThread(S, k + 1)
    BY <1>2, <1>5, <2>1
  <2>5. Sound(g, S, k + 1)
    BY <2>2, <2>3, <2>4 DEF Sound
  <2>6. QED
    BY <2>5 DEF g
<1>6. Sound(OnThread(c), S, k + 1)
  BY <1>1 DEF Sound, OnThread
<1>7. QED
  BY <1>3, <1>5, <1>6

\* Texts that stand in a context, put together and taken apart.
LEMMA LooseJoin ==
  ASSUME NEW p \in Seq(All), NEW q \in Seq(All), NEW c, Loose(p, c), Loose(q, c)
  PROVE  Loose(p \o q, c)
<1> DEFINE r == p \o q
<1>1. ASSUME NEW i \in DOMAIN r PROVE i \in 1 .. Len(p) \/ \E j \in 1 .. Len(q) : i = Len(p) + j
  <2>1. i \in 1 .. Len(p) \/ (i - Len(p) \in 1 .. Len(q) /\ i = Len(p) + (i - Len(p)))
    BY JoinFacts
  <2>2. QED
    BY <2>1
<1>2. ASSUME NEW i \in 1 .. Len(p) PROVE Kept(r, i, c) /\ (r[i].do \in Idle \/ <<r[i], c>> \in Tidy)
  <2>1. r[i] = p[i] /\ i \in DOMAIN p
    BY JoinFacts
  <2>2. i + 1 \in DOMAIN p => i + 1 \in DOMAIN r /\ r[i + 1] = p[i + 1]
    BY JoinFacts
  <2>3. Kept(p, i, c) /\ (p[i].do \in Idle \/ <<p[i], c>> \in Tidy)
    BY <2>1 DEF Loose
  <2> HIDE DEF r
  <2>4. QED
    BY <2>1, <2>2, <2>3 DEF Kept
<1>3. ASSUME NEW j \in 1 .. Len(q)
      PROVE  Kept(r, Len(p) + j, c) /\ (r[Len(p) + j].do \in Idle \/ <<r[Len(p) + j], c>> \in Tidy)
  <2> DEFINE i == Len(p) + j
  <2>1. r[i] = q[j] /\ j \in DOMAIN q
    BY JoinFacts
  <2>2. j + 1 \in DOMAIN q => i + 1 \in DOMAIN r /\ r[i + 1] = q[j + 1]
    <3>1. ASSUME j + 1 \in DOMAIN q PROVE j + 1 \in 1 .. Len(q) /\ Len(p) + (j + 1) = i + 1
      BY <3>1, JoinFacts
    <3>2. QED
      BY <3>1, JoinFacts
  <2>3. Kept(q, j, c) /\ (q[j].do \in Idle \/ <<q[j], c>> \in Tidy)
    BY <2>1 DEF Loose
  <2> HIDE DEF r, i
  <2>4. Kept(r, i, c) /\ (r[i].do \in Idle \/ <<r[i], c>> \in Tidy)
    BY <2>1, <2>2, <2>3 DEF Kept
  <2>5. QED
    BY <2>4 DEF i
<1>4. QED
  BY <1>1, <1>2, <1>3 DEF Loose

\* A text that stands in a context still does behind its first step.
LEMMA LooseTail ==
  ASSUME Nested(Code), NEW q \in Seq(All), q # << >>, NEW c, Loose(q, c)
  PROVE  Loose(Tail(q), c)
<1>1. ASSUME NEW i \in DOMAIN Tail(q)
      PROVE  Kept(Tail(q), i, c) /\ (Tail(q)[i].do \in Idle \/ <<Tail(q)[i], c>> \in Tidy)
  <2>1. Tail(q)[i] = q[i + 1] /\ i + 1 \in DOMAIN q
    BY HeadFacts
  <2>2. (i + 1) + 1 \in DOMAIN q => i + 1 \in DOMAIN Tail(q) /\ Tail(q)[i + 1] = q[(i + 1) + 1]
    <3>1. Len(Tail(q)) = Len(q) - 1 /\ Tail(q) \in Seq(All) /\ DOMAIN q = 1 .. Len(q)
          /\ Len(q) \in Nat
      BY HeadFacts, LenProperties
    <3>2. DOMAIN Tail(q) = 1 .. Len(q) - 1
      BY <3>1, LenProperties
    <3>3. (i + 1) + 1 \in DOMAIN q => i + 1 \in DOMAIN Tail(q)
      BY <3>1, <3>2
    <3>4. QED
      BY <3>3, HeadFacts
  <2>3. Kept(q, i + 1, c) /\ (q[i + 1].do \in Idle \/ <<q[i + 1], c>> \in Tidy)
    BY <2>1 DEF Loose
  <2>4. QED
    BY <2>1, <2>2, <2>3 DEF Kept
<1>2. QED
  BY <1>1 DEF Loose

\* The texts that stand in a context: those of Tidy, cleanups, and the ends of bodies.
LEMMA LooseFacts ==
  ASSUME NEW c
  PROVE  /\ \A q : TidyIn(q, c, Tidy) => Loose(q, c)
         /\ \A q : CleansUp(q) => Loose(q, c)
         /\ Loose(<< >>, c) /\ Loose(<< Leave >>, c)
         /\ \A kind : Loose(<< Throw(kind) >>, c)
<1>1. \A q : TidyIn(q, c, Tidy) => Loose(q, c)
  BY DEF TidyIn, Loose
<1>2. \A q : CleansUp(q) => Loose(q, c)
  BY DEF CleansUp, Loose, Idle, Cleanups, Kept
<1>3. Loose(<< >>, c)
  BY DEF Loose
<1>4. ASSUME NEW s, s.do \in {"throw", "leave"} PROVE Loose(<< s >>, c)
  <2> DEFINE q == << s >>
  <2>1. \A i \in DOMAIN q : q[i] = s
    OBVIOUS
  <2> HIDE DEF q
  <2>2. Loose(q, c)
    BY <1>4, <2>1 DEF Loose, Idle, Kept
  <2>3. QED
    BY <2>2 DEF q
<1>5. Leave.do = "leave" /\ \A kind : Throw(kind).do = "throw"
  BY DEF Leave, Throw
<1>6. QED
  BY <1>1, <1>2, <1>3, <1>4, <1>5

\* A frame is judged by the frames below it.
LEMMA TidyFrameAgain ==
  ASSUME NEW f, NEW S, NEW T, NEW k \in Nat, TidyFrame(f, S, k), \A j \in 1 .. k : T[j] = S[j]
  PROVE  TidyFrame(f, T, k)
BY SoundAgain DEF TidyFrame

\* Frames below a frame that goes are left as they were.
LEMMA TidyBelow ==
  ASSUME Control, TidyInv, NEW m \in Nat, m <= Len(scopes), DOMAIN scopes' = 1 .. m,
         \A j \in 1 .. m : scopes'[j] = scopes[j] /\ j \in DOMAIN scopes
  PROVE  \A i \in DOMAIN scopes' : TidyFrame(scopes'[i], scopes', i - 1)
<1>1. ASSUME NEW i \in 1 .. m PROVE TidyFrame(scopes'[i], scopes', i - 1)
  <2>1. scopes'[i] = scopes[i] /\ TidyFrame(scopes[i], scopes, i - 1)
    BY DEF TidyInv
  <2>2. i - 1 \in Nat /\ \A j \in 1 .. i - 1 : scopes'[j] = scopes[j]
    OBVIOUS
  <2>3. TidyFrame(scopes[i], scopes', i - 1)
    BY <2>1, <2>2, TidyFrameAgain
  <2>4. QED
    BY <2>1, <2>3
<1>2. QED
  BY <1>1

\* An exception comes to a text that stands in the context of the frames that are left.
LEMMA TidyLands ==
  ASSUME Nested(Code), Control, TidyInv, NEW kind \in Kinds, NEW from, Thrown(kind, from)
  PROVE  TidyInv'
<1>1. CASE EndsIt(kind, from)
  <2>1. Len(scopes') = 0 /\ DOMAIN scopes' = {} /\ todo' = << >>
    BY <1>1 DEF EndsIt
  <2>2. Sound(Outermost, scopes', Len(scopes')) /\ Loose(todo', Outermost)
    BY <2>1, SoundAtBottom, LooseFacts
  <2>3. QED
    BY <2>1, <2>2 DEF TidyInv
<1>2. ASSUME NEW i \in 1 .. from, Lands(i, kind, from) PROVE TidyInv'
  <2> DEFINE f == scopes[i]
  <2>1. /\ i \in DOMAIN scopes /\ i - 1 \in Nat /\ f \in Frames /\ Takes(f, kind)
        /\ f.handler \in Seq(Code) /\ f.rest \in Seq(All)
        /\ Len(scopes') = i - 1 /\ DOMAIN scopes' = 1 .. i - 1
        /\ \A j \in 1 .. i - 1 : scopes'[j] = scopes[j] /\ j \in DOMAIN scopes
        /\ todo' = f.handler \o (IF f.do = "finally" THEN << Throw(kind) >> ELSE f.rest)
    BY <1>2 DEF Lands
  <2>2. i - 1 <= Len(scopes)
    BY <1>2, LenProperties DEF Control, Lands
  <2>3. PICK c : /\ Sound(c, scopes, i - 1) /\ Loose(f.rest, c)
                 /\ f.do = "catch" => Loose(f.handler, c)
                 /\ f.do = "finally" => CleansUp(f.handler)
    BY <2>1 DEF TidyInv, TidyFrame
  <2>4. f.do \in {"finally", "catch"}
    BY <2>1, FrameFacts DEF Takes, Blocks
  <2>5. Loose(f.handler, c)
    BY <2>3, <2>4, LooseFacts
  <2>6. Sound(c, scopes', i - 1)
    BY <2>1, <2>3, SoundAgain
  <2>7. f.handler \in Seq(All)
    BY <2>1, SeqMonotonic DEF All
  <2>8. << Throw(kind) >> \in Seq(All) /\ Loose(<< Throw(kind) >>, c)
    <3>1. Throw(kind) \in All
      BY DEF All
    <3>2. QED
      BY <3>1, LooseFacts
  <2>9. Loose(todo', c)
    BY <2>1, <2>3, <2>5, <2>7, <2>8, LooseJoin
  <2>10. \A j \in DOMAIN scopes' : TidyFrame(scopes'[j], scopes', j - 1)
    BY <2>1, <2>2, TidyBelow
  <2>11. QED
    BY <2>1, <2>6, <2>9, <2>10 DEF TidyInv
<1>3. QED
  BY <1>1, <1>2 DEF Thrown

\* What is left to do stands in a context that the frames guarantee.
LEMMA TidyStep ==
  ASSUME Nested(Code), TidiesUp(Tidy), Control, TidyInv, [Next]_vars
  PROVE  TidyInv'
<1>1. Moves /\ Len(scopes) \in Nat
  BY Flow, LenProperties DEF Control
<1>2. PICK c : Sound(c, scopes, Len(scopes)) /\ Loose(todo, c)
  BY DEF TidyInv
<1>3. CASE Stays
  BY <1>3 DEF Stays, TidyInv
<1>4. Busy => /\ todo \in Seq(All) /\ todo # << >> /\ Loose(Tail(todo), c) /\ Tail(todo) \in Seq(All)
              /\ Now.do \notin Idle => <<Now, c>> \in Tidy
  <2>1. SUFFICES ASSUME Busy PROVE /\ todo \in Seq(All) /\ todo # << >> /\ Loose(Tail(todo), c)
                                   /\ Tail(todo) \in Seq(All)
                                   /\ Now.do \notin Idle => <<Now, c>> \in Tidy
    OBVIOUS
  <2>2. todo \in Seq(All) /\ todo # << >>
    BY <2>1 DEF Busy, Control
  <2>3. Now = todo[1] /\ 1 \in DOMAIN todo
    BY <2>2, HeadFacts DEF Now
  <2>4. Now.do \notin Idle => <<Now, c>> \in Tidy
    BY <1>2, <2>3 DEF Loose
  <2>5. QED
    BY <1>2, <2>2, <2>4, LooseTail, HeadFacts
<1>5. CASE Passes
  BY <1>2, <1>4, <1>5, PassShape DEF TidyInv, Passes
<1>6. CASE Choose
  <2>1. Busy /\ Now.do = "either" /\ UNCHANGED <<scopes, result>>
    BY <1>6, ChooseShape
  <2>2. PICK i \in DOMAIN Now.alternatives :
          Now.alternatives[i] \in Seq(Code) /\ todo' = Now.alternatives[i] \o Tail(todo)
    BY <1>6, ChooseShape
  <2>3. <<Now, c>> \in Tidy
    BY <1>4, <2>1 DEF Idle, Cleanups
  <2>4. TidyIn(Now.alternatives[i], c, Tidy)
    BY <2>1, <2>3 DEF TidiesUp
  <2>5. Now.alternatives[i] \in Seq(All)
    BY <2>2, SeqMonotonic DEF All
  <2>6. Loose(todo', c)
    BY <1>4, <2>1, <2>2, <2>4, <2>5, LooseFacts, LooseJoin
  <2>7. QED
    BY <1>2, <2>1, <2>6 DEF TidyInv
<1>7. CASE Enter
  <2> DEFINE n == Len(scopes)
             f == scopes'[n + 1]
  <2>1. /\ Busy /\ Now.do \in Blocks /\ Now.body \in Seq(Code) /\ todo' = Now.body \o << Leave >>
        /\ DOMAIN scopes = 1 .. n /\ Len(scopes') = n + 1 /\ DOMAIN scopes' = 1 .. n + 1
        /\ \A i \in 1 .. n : scopes'[i] = scopes[i]
    BY <1>7, EnterShape
  <2>2. f.do = Now.do /\ f.handler = Now.handler /\ f.rest = Tail(todo)
    BY <1>7, EnterShape
  <2>3. <<Now, c>> \in Tidy
    BY <1>4, <2>1 DEF Idle, Cleanups, Blocks
  <2>4. Sound(c, scopes', n)
    BY <1>1, <1>2, <2>1, SoundAgain
  <2>5. \E g : Sound(g, scopes', n + 1) /\ TidyIn(Now.body, g, Tidy)
    <3>1. CASE Now.do = "finally"
      <4>1. TidyIn(Now.body, Guarded(c, Now.handler), Tidy)
        BY <2>3, <3>1 DEF TidiesUp
      <4>2. QED
        BY <1>1, <2>2, <2>4, <3>1, <4>1, SoundDeeper
    <3>2. CASE Now.do = "catch"
      <4>1. TidyIn(Now.body, c, Tidy)
        BY <2>3, <3>2 DEF TidiesUp
      <4>2. QED
        BY <1>1, <2>2, <2>4, <3>2, <4>1, SoundDeeper
    <3>3. CASE Now.do = "worker"
      <4>1. TidyIn(Now.body, OnThread(c), Tidy)
        BY <2>3, <3>3 DEF TidiesUp
      <4>2. QED
        BY <1>1, <2>2, <2>4, <3>3, <4>1, SoundDeeper
    <3>4. QED
      BY <2>1, <3>1, <3>2, <3>3 DEF Blocks
  <2>6. PICK g : Sound(g, scopes', n + 1) /\ TidyIn(Now.body, g, Tidy)
    BY <2>5
  <2>7. Loose(todo', g)
    <3>1. << Leave >> \in Seq(All) /\ Now.body \in Seq(All)
      <4>1. Leave \in All
        BY DEF All
      <4>2. QED
        BY <2>1, <4>1, SeqMonotonic DEF All
    <3>2. QED
      BY <2>1, <2>6, <3>1, LooseFacts, LooseJoin
  <2>8. TidyFrame(f, scopes', n)
    <3>1. Now.do = "finally" => CleansUp(Now.handler)
      BY <2>3 DEF TidiesUp
    <3>2. Now.do = "catch" => Loose(Now.handler, c)
      <4>1. Now.do = "catch" => TidyIn(Now.handler, c, Tidy)
        BY <2>3 DEF TidiesUp
      <4>2. QED
        BY <4>1, LooseFacts
    <3>3. Loose(Tail(todo), c)
      BY <1>4, <2>1
    <3> HIDE DEF f
    <3>4. QED
      BY <2>2, <2>4, <3>1, <3>2, <3>3 DEF TidyFrame
  <2>9. ASSUME NEW i \in DOMAIN scopes' PROVE TidyFrame(scopes'[i], scopes', i - 1)
    <3>1. CASE i \in 1 .. n
      <4>1. scopes'[i] = scopes[i] /\ TidyFrame(scopes[i], scopes, i - 1)
        BY <2>1, <3>1 DEF TidyInv
      <4>2. i - 1 \in Nat /\ \A j \in 1 .. i - 1 : scopes'[j] = scopes[j]
        BY <1>1, <2>1, <3>1
      <4>3. TidyFrame(scopes[i], scopes', i - 1)
        BY <4>1, <4>2, TidyFrameAgain
      <4>4. QED
        BY <4>1, <4>3
    <3>2. CASE i = n + 1
      <4>1. i - 1 = n
        BY <1>1, <3>2
      <4>2. QED
        BY <2>8, <3>2, <4>1
    <3>3. QED
      BY <1>1, <2>1, <3>1, <3>2
  <2>10. QED
    BY <2>1, <2>6, <2>7, <2>9 DEF TidyInv
<1>8. CASE ExitScope
  <2> DEFINE n == Len(scopes)
             f == scopes[n]
  <2>1. /\ n \in Nat \ {0} /\ n \in DOMAIN scopes /\ f.handler \in Seq(Code) /\ f.rest \in Seq(All)
        /\ Len(scopes') = n - 1 /\ DOMAIN scopes' = 1 .. n - 1
        /\ \A j \in 1 .. n - 1 : scopes'[j] = scopes[j] /\ j \in DOMAIN scopes
        /\ todo' = (IF f.do = "finally" THEN f.handler ELSE << >>) \o f.rest
    BY <1>8, ExitShape
  <2>2. PICK g : /\ Sound(g, scopes, n - 1) /\ Loose(f.rest, g)
                 /\ f.do = "finally" => CleansUp(f.handler)
    BY <2>1 DEF TidyInv, TidyFrame
  <2>3. n - 1 \in Nat /\ n - 1 <= n
    BY <2>1
  <2>4. Sound(g, scopes', n - 1)
    BY <2>1, <2>2, <2>3, SoundAgain
  <2>5. f.handler \in Seq(All) /\ << >> \in Seq(All)
    BY <2>1, SeqMonotonic, EmptySeq DEF All
  <2>6. Loose(todo', g)
    <3> DEFINE h == IF f.do = "finally" THEN f.handler ELSE << >>
    <3>1. h \in Seq(All)
      BY <2>5
    <3>2. Loose(h, g)
      BY <2>2, LooseFacts
    <3> HIDE DEF h
    <3>3. Loose(h \o f.rest, g)
      BY <2>1, <2>2, <3>1, <3>2, LooseJoin
    <3>4. QED
      BY <2>1, <3>3 DEF h
  <2>7. \A i \in DOMAIN scopes' : TidyFrame(scopes'[i], scopes', i - 1)
    BY <2>1, <2>3, TidyBelow
  <2>8. QED
    BY <2>1, <2>4, <2>6, <2>7 DEF TidyInv
<1>9. CASE Finish
  BY <1>9 DEF Finish, TidyInv
<1>10. ASSUME NEW kind \in Kinds, Throws(kind) PROVE TidyInv'
  BY <1>10, ThrowShape, TidyLands
<1>11. ASSUME NEW i \in DOMAIN scopes, NEW kind \in Kinds, Lost(i, kind) PROVE TidyInv'
  BY <1>11, ThrowShape, TidyLands
<1>12. QED
  BY <1>1, <1>3, <1>5, <1>6, <1>7, <1>8, <1>9, <1>10, <1>11 DEF Moves

\* What a text is about to do: clean up until it has dropped d, or the staged copy.
DropsSoon(q, d) ==
  \E n \in DOMAIN q :
    /\ \/ q[n].do = "drop" /\ d = q[n].dir
       \/ q[n].do = "dropAfter" /\ d \in {q[n].file, q[n].dir}
    /\ \A i \in 1 .. n - 1 : q[i].do \in Cleanups
UnstagesSoon(q) ==
  \E n \in DOMAIN q : q[n].do = "unstage" /\ \A i \in 1 .. n - 1 : q[i].do \in Cleanups

\* A finally block that is about to run, or to be entered, removes what is there.
DropFrame(i, d) == scopes[i].do = "finally" /\ d \in DroppedBy(scopes[i].handler)
DropsAtOnce(s, d) ==
  Drops(s, d) \/ (s.do = "catch" /\ s.body # << >> /\ Drops(s.body[1], d))
SafeTemp(d) ==
  \/ \E i \in DOMAIN scopes : DropFrame(i, d)
  \/ DropsSoon(todo, d)
  \/ todo # << >> /\ DropsAtOnce(Head(todo), d)
UnstageFrame(i) ==
  scopes[i].do = "finally" /\ Unstages(scopes[i].handler) /\ OffThread(scopes, i)
SafeStage ==
  \/ \E i \in DOMAIN scopes : UnstageFrame(i)
  \/ /\ OffThread(scopes, Len(scopes))
     /\ UnstagesSoon(todo) \/ (todo # << >> /\ Clears(Head(todo)))

TempInv == {"workerLost", "leaked"} \cap notes = {} => \A d \in temps : SafeTemp(d)
StageInv == staged # "none" => SafeStage
ChildInv == child # "none" => Busy /\ Now.do \in {"child", "binding"}

\* A finally block in front of any text removes what it is there to remove.
LEMMA SoonJoin ==
  ASSUME NEW p \in Seq(All), NEW q \in Seq(All), CleansUp(p)
  PROVE  /\ \A d \in DroppedBy(p) : DropsSoon(p \o q, d)
         /\ Unstages(p) => UnstagesSoon(p \o q)
<1>1. ASSUME NEW n \in DOMAIN p
      PROVE  /\ n \in DOMAIN (p \o q) /\ (p \o q)[n] = p[n]
             /\ \A i \in 1 .. n - 1 : (p \o q)[i].do \in Cleanups
  <2>1. n \in 1 .. Len(p) /\ n \in DOMAIN (p \o q) /\ (p \o q)[n] = p[n]
    BY JoinFacts
  <2>2. ASSUME NEW i \in 1 .. n - 1 PROVE (p \o q)[i].do \in Cleanups
    <3>1. i \in 1 .. Len(p) /\ i \in DOMAIN p
      BY <2>1, JoinFacts
    <3>2. QED
      BY <3>1, JoinFacts DEF CleansUp
  <2>3. QED
    BY <2>1, <2>2
<1>2. ASSUME NEW d \in DroppedBy(p) PROVE DropsSoon(p \o q, d)
  <2>1. PICK n \in DOMAIN p : \/ p[n].do = "drop" /\ d = p[n].dir
                              \/ p[n].do = "dropAfter" /\ d \in {p[n].file, p[n].dir}
    BY DEF DroppedBy
  <2>2. QED
    BY <1>1, <2>1 DEF DropsSoon
<1>3. ASSUME Unstages(p) PROVE UnstagesSoon(p \o q)
  <2>1. PICK n \in DOMAIN p : p[n].do = "unstage"
    BY <1>3 DEF Unstages
  <2>2. QED
    BY <1>1, <2>1 DEF UnstagesSoon
<1>4. QED
  BY <1>2, <1>3

\* What happens behind cleanups happens one step earlier behind the first of them.
LEMMA SoonTail ==
  ASSUME Nested(Code), NEW q \in Seq(All), q # << >>, NEW n \in DOMAIN q, n # 1,
         \A i \in 1 .. n - 1 : q[i].do \in Cleanups
  PROVE  /\ Head(q).do \in Cleanups
         /\ n - 1 \in DOMAIN Tail(q) /\ Tail(q)[n - 1] = q[n]
         /\ \A i \in 1 .. (n - 1) - 1 : Tail(q)[i].do \in Cleanups
<1>1. Len(q) \in Nat /\ n \in 1 .. Len(q) /\ Head(q) = q[1]
  BY HeadFacts, LenProperties
<1>2. DOMAIN Tail(q) = 1 .. Len(q) - 1
  <2>1. Tail(q) \in Seq(All) /\ Len(Tail(q)) = Len(q) - 1
    BY HeadFacts
  <2>2. QED
    BY <2>1, LenProperties
<1>3. n - 1 \in DOMAIN Tail(q) /\ (n - 1) + 1 = n
  BY <1>1, <1>2
<1>4. Tail(q)[n - 1] = q[n]
  BY <1>3, HeadFacts
<1>5. ASSUME NEW i \in 1 .. (n - 1) - 1 PROVE Tail(q)[i].do \in Cleanups
  <2>1. i \in DOMAIN Tail(q) /\ i + 1 \in 1 .. n - 1
    BY <1>1, <1>2
  <2>2. QED
    BY <2>1, HeadFacts
<1>6. QED
  BY <1>1, <1>3, <1>4, <1>5

\* What is soon dropped is dropped by the next step, or soon behind it.
LEMMA DropsTail ==
  ASSUME Nested(Code), NEW q \in Seq(All), q # << >>, NEW d, DropsSoon(q, d)
  PROVE  /\ Head(q).do \in Cleanups
         /\ \/ Head(q).do = "drop" /\ d = Head(q).dir
            \/ Head(q).do = "dropAfter" /\ d \in {Head(q).file, Head(q).dir}
            \/ DropsSoon(Tail(q), d)
<1>1. PICK n \in DOMAIN q :
        /\ \/ q[n].do = "drop" /\ d = q[n].dir
           \/ q[n].do = "dropAfter" /\ d \in {q[n].file, q[n].dir}
        /\ \A i \in 1 .. n - 1 : q[i].do \in Cleanups
  BY DEF DropsSoon
<1>2. CASE n = 1
  BY <1>1, <1>2, HeadFacts DEF Cleanups
<1>3. CASE n # 1
  BY <1>1, <1>3, SoonTail DEF DropsSoon
<1>4. QED
  BY <1>2, <1>3

\* The same for the staged copy.
LEMMA UnstagesTail ==
  ASSUME Nested(Code), NEW q \in Seq(All), q # << >>, UnstagesSoon(q)
  PROVE  /\ Head(q).do \in Cleanups
         /\ Head(q).do = "unstage" \/ UnstagesSoon(Tail(q))
<1>1. PICK n \in DOMAIN q : q[n].do = "unstage" /\ \A i \in 1 .. n - 1 : q[i].do \in Cleanups
  BY DEF UnstagesSoon
<1>2. CASE n = 1
  BY <1>1, <1>2, HeadFacts DEF Cleanups
<1>3. CASE n # 1
  BY <1>1, <1>3, SoonTail DEF UnstagesSoon
<1>4. QED
  BY <1>2, <1>3

\* An exception comes past no finally block: it stays on the stack, or runs.
LEMMA FinallyLands ==
  ASSUME Nested(Code), Control, TidyInv, NEW kind \in Kinds, NEW from \in 0 .. Len(scopes),
         Thrown(kind, from), NEW k \in 1 .. from, scopes[k].do = "finally"
  PROVE  \/ k \in DOMAIN scopes' /\ \A j \in 1 .. k : scopes'[j] = scopes[j]
         \/ /\ CleansUp(scopes[k].handler) /\ scopes[k].handler \in Seq(All)
            /\ << Throw(kind) >> \in Seq(All) /\ Len(scopes') = k - 1
            /\ \A j \in 1 .. k - 1 : scopes'[j] = scopes[j]
            /\ todo' = scopes[k].handler \o << Throw(kind) >>
<1>1. Takes(scopes[k], kind)
  BY DEF Takes
<1>2. ~EndsIt(kind, from)
  BY <1>1 DEF EndsIt
<1>3. PICK i \in 1 .. from : Lands(i, kind, from)
  BY <1>2 DEF Thrown
<1>4. k <= i
  BY <1>1, <1>3 DEF Lands
<1>5. CASE k < i
  <2>1. k \in 1 .. i - 1 /\ \A j \in 1 .. k : j \in 1 .. i - 1
    BY <1>5
  <2>2. QED
    BY <1>3, <2>1 DEF Lands
<1>6. CASE k = i
  <2>1. scopes[k].handler \in Seq(Code) /\ k \in DOMAIN scopes
    BY <1>3, <1>6 DEF Lands
  <2>2. CleansUp(scopes[k].handler)
    BY <2>1 DEF TidyInv, TidyFrame
  <2>3. << Throw(kind) >> \in Seq(All)
    <3>1. Throw(kind) \in All
      BY DEF All
    <3>2. QED
      BY <3>1
  <2>4. scopes[k].handler \in Seq(All)
    BY <2>1, SeqMonotonic DEF All
  <2>5. QED
    BY <1>3, <1>6, <2>2, <2>3, <2>4 DEF Lands
<1>7. QED
  BY <1>4, <1>5, <1>6

\* Whatever is made and not yet removed will be removed before the operation ends.
LEMMA TempStep ==
  ASSUME Nested(Code), TidiesUp(Tidy), Control, TidyInv, TempInv, [Next]_vars
  PROVE  TempInv'
<1> SUFFICES ASSUME {"workerLost", "leaked"} \cap notes' = {}, NEW d \in temps'
             PROVE  SafeTemp(d)'
  BY DEF TempInv
<1>1. Moves /\ DOMAIN scopes = 1 .. Len(scopes) /\ Len(scopes) \in Nat
  BY Flow, LenProperties DEF Control
<1>2. notes \subseteq notes' /\ "workerLost" \notin notes' /\ "leaked" \notin notes'
  BY Flow
<1>3. \A e \in temps : SafeTemp(e)
  BY <1>2 DEF TempInv
<1>4. Busy => todo \in Seq(All) /\ todo # << >>
  BY DEF Busy, Control
<1>5. CASE Stays
  <2>1. UNCHANGED <<todo, scopes>> /\ d \in temps
    BY <1>5 DEF Stays, Files
  <2>2. SafeTemp(d)
    BY <1>3, <2>1
  <2>3. QED
    BY <2>1, <2>2 DEF SafeTemp, DropFrame
<1>6. CASE Passes
  <2>1. /\ Busy /\ Now.do \in Plain /\ todo' = Tail(todo) /\ UNCHANGED scopes
        /\ Dropping /\ TempsGrow
    BY <1>6, PassShape DEF Passes
  <2>2. CASE d \in temps
    <3>1. CASE \E i \in DOMAIN scopes : DropFrame(i, d)
      BY <2>1, <3>1 DEF SafeTemp, DropFrame
    <3>2. CASE DropsSoon(todo, d)
      <4>1. ~(Now.do = "drop" /\ d = Now.dir)
        BY <2>1 DEF Dropping
      <4>2. ~(Now.do = "dropAfter" /\ d \in {Now.file, Now.dir})
        BY <1>2, <2>1 DEF Dropping
      <4>3. DropsSoon(Tail(todo), d)
        BY <1>4, <2>1, <3>2, <4>1, <4>2, DropsTail DEF Now
      <4>4. QED
        BY <2>1, <4>3 DEF SafeTemp
    <3>3. ~DropsAtOnce(Head(todo), d)
      BY <2>1 DEF DropsAtOnce, Drops, Plain, Now
    <3>4. QED
      BY <1>3, <2>2, <3>1, <3>2, <3>3 DEF SafeTemp
  <2>3. CASE d \notin temps
    <3>1. Now.do = "temp" /\ d = Now.dir
      BY <2>1, <2>3 DEF TempsGrow
    <3>2. Now = todo[1] /\ 1 \in DOMAIN todo
      BY <1>4, <2>1, HeadFacts DEF Now
    <3>3. PICK c : Sound(c, scopes, Len(scopes)) /\ Loose(todo, c)
      BY DEF TidyInv
    <3>4. \/ d \in c.temps
          \/ /\ 1 + 1 \in DOMAIN todo
             /\ DropsAtOnce(todo[1 + 1], d)
      <4>1. Kept(todo, 1, c)
        BY <3>2, <3>3 DEF Loose
      <4>2. QED
        BY <3>1, <3>2, <4>1 DEF Kept, DropsAtOnce
    <3>5. CASE d \in c.temps
      BY <1>1, <2>1, <3>3, <3>5 DEF Sound, SafeTemp, DropFrame
    <3>6. CASE 1 + 1 \in DOMAIN todo /\ DropsAtOnce(todo[1 + 1], d)
      <4>1. Tail(todo) \in Seq(All) /\ Tail(todo) # << >> /\ Head(Tail(todo)) = todo[1 + 1]
        <5>1. Tail(todo) \in Seq(All) /\ Len(Tail(todo)) = Len(todo) - 1
          BY <1>4, <2>1, HeadFacts
        <5>2. 1 \in DOMAIN Tail(todo)
          BY <1>4, <2>1, <3>6, <5>1, LenProperties
        <5>3. Tail(todo)[1] = todo[1 + 1]
          BY <1>4, <2>1, <5>2, HeadFacts
        <5>4. Tail(todo) # << >>
          <6>1. ~(1 \in DOMAIN << >>)
            OBVIOUS
          <6>2. QED
            BY <5>2, <6>1
        <5>5. Head(Tail(todo)) = Tail(todo)[1]
          BY <5>1, <5>4, HeadFacts
        <5>6. QED
          BY <5>1, <5>3, <5>4, <5>5
      <4>2. QED
        BY <2>1, <3>6, <4>1 DEF SafeTemp
    <3>7. QED
      BY <3>4, <3>5, <3>6
  <2>4. QED
    BY <2>2, <2>3
<1>7. Busy /\ Now.do \notin Cleanups /\ d \in temps =>
        (\E i \in DOMAIN scopes : DropFrame(i, d)) \/ DropsAtOnce(Now, d)
  BY <1>3, <1>4, DropsTail DEF SafeTemp, Now
<1>8. CASE Choose
  <2>1. Busy /\ Now.do = "either" /\ UNCHANGED <<scopes, temps>>
    BY <1>8, ChooseShape DEF Choose, Files
  <2>2. \E i \in DOMAIN scopes : DropFrame(i, d)
    BY <1>7, <2>1 DEF Cleanups, DropsAtOnce, Drops
  <2>3. QED
    BY <2>1, <2>2 DEF SafeTemp, DropFrame
<1>9. CASE Enter
  <2> DEFINE n == Len(scopes)
  <2>1. /\ Busy /\ Now.do \in Blocks /\ UNCHANGED temps
        /\ Now.body \in Seq(Code) /\ todo' = Now.body \o << Leave >>
        /\ DOMAIN scopes' = 1 .. n + 1
        /\ \A i \in 1 .. n : scopes'[i] = scopes[i]
    BY <1>9, EnterShape DEF Enter, Files
  <2>2. CASE \E i \in DOMAIN scopes : DropFrame(i, d)
    <3>1. PICK i \in 1 .. n : DropFrame(i, d)
      BY <1>1, <2>2
    <3>2. i \in DOMAIN scopes' /\ scopes'[i] = scopes[i]
      BY <1>1, <2>1
    <3>3. QED
      BY <3>1, <3>2 DEF SafeTemp, DropFrame
  <2>3. CASE Drops(Now, d)
    <3>1. n + 1 \in DOMAIN scopes'
      BY <1>1, <2>1
    <3>2. scopes'[n + 1].do = Now.do /\ scopes'[n + 1].handler = Now.handler
      BY <1>9, EnterShape
    <3>3. QED
      BY <2>3, <3>1, <3>2 DEF SafeTemp, DropFrame, Drops
  <2>4. CASE Now.body # << >> /\ Drops(Now.body[1], d)
    <3>1. Now.body \in Seq(All) /\ << Leave >> \in Seq(All)
      <4>1. Leave \in All
        BY DEF All
      <4>2. QED
        BY <2>1, <4>1, SeqMonotonic DEF All
    <3>2. 1 \in 1 .. Len(Now.body)
      BY <2>4, <3>1, EmptySeq
    <3>3. todo' # << >> /\ todo' \in Seq(All) /\ todo'[1] = Now.body[1]
      BY <2>1, <3>1, <3>2, JoinFacts, ConcatEqualIffEmpty
    <3>4. Head(todo') = Now.body[1]
      BY <3>3, HeadFacts
    <3>5. QED
      BY <2>4, <3>3, <3>4 DEF SafeTemp, DropsAtOnce
  <2>5. QED
    BY <1>7, <2>1, <2>2, <2>3, <2>4 DEF Cleanups, Blocks, DropsAtOnce
<1>10. CASE ExitScope
  <2> DEFINE n == Len(scopes)
  <2>1. /\ Busy /\ Now.do = "leave" /\ UNCHANGED temps /\ n \in Nat \ {0}
        /\ n \in DOMAIN scopes
        /\ scopes[n].handler \in Seq(Code) /\ scopes[n].rest \in Seq(All)
        /\ DOMAIN scopes' = 1 .. n - 1
        /\ \A j \in 1 .. n - 1 : scopes'[j] = scopes[j] /\ j \in DOMAIN scopes
        /\ todo' = (IF scopes[n].do = "finally" THEN scopes[n].handler ELSE << >>) \o scopes[n].rest
    BY <1>10, ExitShape DEF ExitScope, Files
  <2>2. PICK i \in 1 .. n : DropFrame(i, d)
    BY <1>1, <1>7, <2>1 DEF Cleanups, DropsAtOnce, Drops
  <2>3. CASE i = n
    <3>1. CleansUp(scopes[n].handler)
      BY <2>1, <2>2, <2>3 DEF TidyInv, TidyFrame, DropFrame
    <3>2. scopes[n].handler \in Seq(All)
      BY <2>1, SeqMonotonic DEF All
    <3>3. DropsSoon(scopes[n].handler \o scopes[n].rest, d)
      BY <2>1, <2>2, <2>3, <3>1, <3>2, SoonJoin DEF DropFrame
    <3>4. QED
      BY <2>1, <2>2, <2>3, <3>3 DEF SafeTemp, DropFrame
  <2>4. CASE i # n
    <3>1. i \in 1 .. n - 1
      BY <2>1, <2>4
    <3>2. QED
      BY <2>1, <2>2, <3>1 DEF SafeTemp, DropFrame
  <2>5. QED
    BY <2>3, <2>4
<1>11. CASE Finish
  <2>1. todo = << >> /\ d \in temps /\ UNCHANGED <<scopes, todo>>
    BY <1>11 DEF Finish, Files
  <2>2. ~DropsSoon(todo, d)
    BY <2>1 DEF DropsSoon
  <2>3. QED
    BY <1>3, <2>1, <2>2 DEF SafeTemp, DropFrame
<1>12. ASSUME NEW kind \in Kinds, Throws(kind) PROVE SafeTemp(d)'
  <2>1. Busy /\ Now.do \in Throwing /\ UNCHANGED temps /\ Thrown(kind, Len(scopes))
    BY <1>12, ThrowShape DEF Throws, Files
  <2>2. PICK i \in 1 .. Len(scopes) : DropFrame(i, d)
    BY <1>1, <1>7, <2>1 DEF Throwing, Plain, Cleanups, DropsAtOnce, Drops
  <2>3. Len(scopes) \in 0 .. Len(scopes)
    BY <1>1
  <2>4. \/ i \in DOMAIN scopes' /\ scopes'[i] = scopes[i]
        \/ DropsSoon(todo', d)
    <3>1. \/ i \in DOMAIN scopes' /\ \A j \in 1 .. i : scopes'[j] = scopes[j]
          \/ /\ CleansUp(scopes[i].handler) /\ scopes[i].handler \in Seq(All)
             /\ << Throw(kind) >> \in Seq(All)
             /\ todo' = scopes[i].handler \o << Throw(kind) >>
      BY <2>1, <2>2, <2>3, FinallyLands DEF DropFrame
    <3>2. i \in 1 .. i
      OBVIOUS
    <3>3. QED
      BY <2>2, <3>1, <3>2, SoonJoin DEF DropFrame
  <2>5. QED
    BY <2>2, <2>4 DEF SafeTemp, DropFrame
<1>13. ~\E i \in DOMAIN scopes, kind \in Kinds : Lost(i, kind)
  BY <1>2 DEF Lost, Note
<1>14. QED
  BY <1>1, <1>5, <1>6, <1>8, <1>9, <1>10, <1>11, <1>12, <1>13 DEF Moves

\* The same for the staged copy, which only code outside of the worker thread keeps: its
\* finally block runs when the thread is lost.
LEMMA StageLands ==
  ASSUME Nested(Code), Control, TidyInv, NEW kind \in Kinds, NEW from \in 0 .. Len(scopes),
         Thrown(kind, from), NEW i \in 1 .. from, UnstageFrame(i)
  PROVE  SafeStage'
<1>1. \/ i \in DOMAIN scopes' /\ \A j \in 1 .. i : scopes'[j] = scopes[j]
      \/ /\ CleansUp(scopes[i].handler) /\ scopes[i].handler \in Seq(All)
         /\ << Throw(kind) >> \in Seq(All) /\ Len(scopes') = i - 1
         /\ \A j \in 1 .. i - 1 : scopes'[j] = scopes[j]
         /\ todo' = scopes[i].handler \o << Throw(kind) >>
  BY FinallyLands DEF UnstageFrame
<1>2. i \in 1 .. i /\ \A j \in 1 .. i - 1 : j \in 1 .. i
  OBVIOUS
<1>3. CASE i \in DOMAIN scopes' /\ \A j \in 1 .. i : scopes'[j] = scopes[j]
  <2>1. OffThread(scopes', i)
    BY <1>3 DEF UnstageFrame, OffThread
  <2>2. QED
    BY <1>2, <1>3, <2>1 DEF SafeStage, UnstageFrame
<1>4. CASE /\ CleansUp(scopes[i].handler) /\ scopes[i].handler \in Seq(All)
           /\ << Throw(kind) >> \in Seq(All) /\ Len(scopes') = i - 1
           /\ \A j \in 1 .. i - 1 : scopes'[j] = scopes[j]
           /\ todo' = scopes[i].handler \o << Throw(kind) >>
  <2>1. UnstagesSoon(todo')
    BY <1>4, SoonJoin DEF UnstageFrame
  <2>2. OffThread(scopes', Len(scopes'))
    BY <1>2, <1>4 DEF UnstageFrame, OffThread
  <2>3. QED
    BY <2>1, <2>2 DEF SafeStage
<1>5. QED
  BY <1>1, <1>3, <1>4

\* A staged copy will be removed, or has been published, before the operation ends.
LEMMA StageStep ==
  ASSUME Nested(Code), TidiesUp(Tidy), Control, TidyInv, StageInv, [Next]_vars
  PROVE  StageInv'
<1> SUFFICES ASSUME staged' # "none" PROVE SafeStage'
  BY DEF StageInv
<1>1. Moves /\ DOMAIN scopes = 1 .. Len(scopes) /\ Len(scopes) \in Nat
  BY Flow, LenProperties DEF Control
<1>2. Busy => todo \in Seq(All) /\ todo # << >>
  BY DEF Busy, Control
<1>3. Unstaged => SafeStage
  BY DEF Unstaged, StageInv
<1>4. CASE Stays
  BY <1>3, <1>4 DEF Stays, SafeStage, UnstageFrame, OffThread
<1>5. CASE Passes
  <2>1. /\ Busy /\ Now.do \in Plain /\ todo' = Tail(todo) /\ UNCHANGED scopes
        /\ Now.do # "stage" => Unstaged
        /\ Now.do # "unstage"
    BY <1>5, PassShape DEF Passes
  <2>2. CASE Now.do # "stage"
    <3>1. SafeStage
      BY <1>3, <2>1, <2>2
    <3>2. CASE \E i \in DOMAIN scopes : UnstageFrame(i)
      BY <2>1, <3>2 DEF SafeStage, UnstageFrame, OffThread
    <3>3. CASE OffThread(scopes, Len(scopes)) /\ UnstagesSoon(todo)
      <4>1. UnstagesSoon(Tail(todo))
        BY <1>2, <2>1, <3>3, UnstagesTail DEF Now
      <4>2. QED
        BY <2>1, <3>3, <4>1 DEF SafeStage
    <3>4. ~Clears(Head(todo))
      BY <2>1 DEF Clears, Plain, Now
    <3>5. QED
      BY <3>1, <3>2, <3>3, <3>4 DEF SafeStage
  <2>3. CASE Now.do = "stage"
    <3>1. Now = todo[1] /\ 1 \in DOMAIN todo
      BY <1>2, <2>1, HeadFacts DEF Now
    <3>2. PICK c : Sound(c, scopes, Len(scopes)) /\ Loose(todo, c)
      BY DEF TidyInv
    <3>3. c.unstaged \/ (~c.thread /\ 1 + 1 \in DOMAIN todo /\ Clears(todo[1 + 1]))
      <4>1. Kept(todo, 1, c)
        BY <3>1, <3>2 DEF Loose
      <4>2. QED
        BY <2>3, <3>1, <4>1 DEF Kept
    <3>4. CASE c.unstaged
      <4>1. \E i \in DOMAIN scopes : UnstageFrame(i)
        BY <1>1, <3>2, <3>4 DEF Sound, UnstageFrame
      <4>2. QED
        BY <2>1, <4>1 DEF SafeStage, UnstageFrame, OffThread
    <3>5. CASE ~c.thread /\ 1 + 1 \in DOMAIN todo /\ Clears(todo[1 + 1])
      <4>1. Tail(todo) \in Seq(All) /\ Len(Tail(todo)) = Len(todo) - 1
        BY <1>2, <2>1, HeadFacts
      <4>2. 1 \in DOMAIN Tail(todo)
        BY <1>2, <2>1, <3>5, <4>1, LenProperties
      <4>3. Tail(todo)[1] = todo[1 + 1] /\ Tail(todo) # << >>
        BY <1>2, <2>1, <4>2, HeadFacts
      <4>4. Head(Tail(todo)) = Tail(todo)[1]
        BY <4>1, <4>3, HeadFacts
      <4>5. OffThread(scopes, Len(scopes))
        BY <3>2, <3>5 DEF Sound
      <4>6. QED
        BY <2>1, <3>5, <4>3, <4>4, <4>5 DEF SafeStage
    <3>6. QED
      BY <3>3, <3>4, <3>5
  <2>4. QED
    BY <2>2, <2>3
<1>6. Busy /\ Now.do \notin Cleanups /\ Unstaged =>
        \/ \E i \in DOMAIN scopes : UnstageFrame(i)
        \/ OffThread(scopes, Len(scopes)) /\ Clears(Now)
  BY <1>2, <1>3, UnstagesTail DEF SafeStage, Now
<1>7. CASE Choose
  <2>1. Busy /\ Now.do = "either" /\ UNCHANGED scopes /\ Unstaged
    BY <1>7, ChooseShape DEF Choose, Target, Unstaged
  <2>2. \E i \in DOMAIN scopes : UnstageFrame(i)
    BY <1>6, <2>1 DEF Cleanups, Clears
  <2>3. QED
    BY <2>1, <2>2 DEF SafeStage, UnstageFrame, OffThread
<1>8. CASE Enter
  <2> DEFINE n == Len(scopes)
  <2>1. /\ Busy /\ Now.do \in Blocks /\ Unstaged
        /\ DOMAIN scopes' = 1 .. n + 1
        /\ \A i \in 1 .. n : scopes'[i] = scopes[i]
    BY <1>8, EnterShape DEF Enter, Target, Unstaged
  <2>2. CASE \E i \in DOMAIN scopes : UnstageFrame(i)
    <3>1. PICK i \in 1 .. n : UnstageFrame(i)
      BY <1>1, <2>2
    <3>2. i \in DOMAIN scopes' /\ \A j \in 1 .. i : scopes'[j] = scopes[j]
      BY <1>1, <2>1
    <3>3. OffThread(scopes', i)
      BY <3>1, <3>2 DEF UnstageFrame, OffThread
    <3>4. i \in 1 .. i
      OBVIOUS
    <3>5. QED
      BY <3>1, <3>2, <3>3, <3>4 DEF SafeStage, UnstageFrame
  <2>3. CASE OffThread(scopes, n) /\ Clears(Now)
    <3>1. n + 1 \in DOMAIN scopes' /\ \A j \in 1 .. n + 1 : j \in 1 .. n \/ j = n + 1
      BY <1>1, <2>1
    <3>2. scopes'[n + 1].do = Now.do /\ scopes'[n + 1].handler = Now.handler
      BY <1>8, EnterShape
    <3>3. OffThread(scopes', n + 1)
      BY <2>1, <2>3, <3>1, <3>2 DEF OffThread, Clears
    <3>4. QED
      BY <2>3, <3>1, <3>2, <3>3 DEF SafeStage, UnstageFrame, Clears
  <2>4. QED
    BY <1>6, <2>1, <2>2, <2>3 DEF Cleanups, Blocks
<1>9. CASE ExitScope
  <2> DEFINE n == Len(scopes)
  <2>1. /\ Busy /\ Now.do = "leave" /\ Unstaged /\ n \in Nat \ {0}
        /\ n \in DOMAIN scopes
        /\ scopes[n].handler \in Seq(Code) /\ scopes[n].rest \in Seq(All)
        /\ Len(scopes') = n - 1 /\ DOMAIN scopes' = 1 .. n - 1
        /\ \A j \in 1 .. n - 1 : scopes'[j] = scopes[j] /\ j \in DOMAIN scopes
        /\ todo' = (IF scopes[n].do = "finally" THEN scopes[n].handler ELSE << >>) \o scopes[n].rest
    BY <1>9, ExitShape DEF ExitScope, Target, Unstaged
  <2>2. PICK i \in 1 .. n : UnstageFrame(i)
    BY <1>1, <1>6, <2>1 DEF Cleanups, Clears
  <2>3. CASE i = n
    <3>1. CleansUp(scopes[n].handler)
      BY <2>1, <2>2, <2>3 DEF TidyInv, TidyFrame, UnstageFrame
    <3>2. scopes[n].handler \in Seq(All)
      BY <2>1, SeqMonotonic DEF All
    <3>3. UnstagesSoon(scopes[n].handler \o scopes[n].rest)
      BY <2>1, <2>2, <2>3, <3>1, <3>2, SoonJoin DEF UnstageFrame
    <3>4. \A j \in 1 .. n - 1 : j \in 1 .. n
      BY <2>1
    <3>5. OffThread(scopes', n - 1)
      BY <2>1, <2>2, <2>3, <3>4 DEF UnstageFrame, OffThread
    <3>6. QED
      BY <2>1, <2>2, <2>3, <3>3, <3>5 DEF SafeStage, UnstageFrame
  <2>4. CASE i # n
    <3>1. i \in 1 .. n - 1 /\ \A j \in 1 .. i : j \in 1 .. n - 1
      BY <2>1, <2>4
    <3>2. OffThread(scopes', i)
      BY <2>1, <2>2, <3>1 DEF UnstageFrame, OffThread
    <3>3. QED
      BY <2>1, <2>2, <3>1, <3>2 DEF SafeStage, UnstageFrame
  <2>5. QED
    BY <2>3, <2>4
<1>10. CASE Finish
  <2>1. todo = << >> /\ Unstaged /\ UNCHANGED <<scopes, todo>>
    BY <1>10 DEF Finish, Target, Unstaged
  <2>2. QED
    BY <1>3, <2>1 DEF SafeStage, UnstageFrame, OffThread
<1>11. ASSUME NEW kind \in Kinds, Throws(kind) PROVE SafeStage'
  <2>1. Busy /\ Now.do \in Throwing /\ Unstaged /\ Thrown(kind, Len(scopes))
    BY <1>11, ThrowShape DEF Throws
  <2>2. PICK i \in 1 .. Len(scopes) : UnstageFrame(i)
    BY <1>1, <1>6, <2>1 DEF Throwing, Plain, Cleanups, Clears
  <2>3. Len(scopes) \in 0 .. Len(scopes)
    BY <1>1
  <2>4. QED
    BY <2>1, <2>2, <2>3, StageLands
<1>12. ASSUME NEW k \in DOMAIN scopes, NEW kind \in Kinds, Lost(k, kind) PROVE SafeStage'
  <2>1. scopes[k].do = "worker" /\ Unstaged /\ Thrown(kind, k - 1) /\ k \in 1 .. Len(scopes)
    BY <1>12, ThrowShape DEF Lost
  <2>2. ~OffThread(scopes, Len(scopes))
    BY <2>1 DEF OffThread
  <2>3. PICK i \in 1 .. Len(scopes) : UnstageFrame(i)
    BY <1>1, <1>3, <2>1, <2>2 DEF SafeStage
  <2>4. i \in 1 .. k - 1 /\ k - 1 \in 0 .. Len(scopes)
    <3>1. ~(k \in 1 .. i)
      BY <2>1, <2>3 DEF UnstageFrame, OffThread
    <3>2. QED
      BY <1>1, <2>1, <3>1
  <2>5. QED
    BY <2>1, <2>3, <2>4, StageLands
<1>13. QED
  BY <1>1, <1>4, <1>5, <1>7, <1>8, <1>9, <1>10, <1>11, <1>12 DEF Moves

\* Only the step at hand waits for a process or a promise.
LEMMA ChildStep ==
  ASSUME Nested(Code), Control, ChildInv, [Next]_vars
  PROVE  ChildInv'
<1>1. Moves
  BY Flow
<1>2. CASE Stays
  BY <1>2 DEF Stays, Awaiting, ChildInv, Busy, Now
<1>3. child = "none" \/ (Busy /\ Now.do \in {"child", "binding"})
  BY DEF ChildInv
<1>4. CASE Passes \/ \E kind \in Kinds : Throws(kind)
  <2>1. Settled
    BY <1>4 DEF Passes, Throws
  <2>2. QED
    BY <1>3, <2>1 DEF Settled, ChildInv
<1>5. CASE Choose \/ Enter \/ ExitScope \/ Finish
  <2>1. child = "none" /\ UNCHANGED child
    BY <1>3, <1>5 DEF Choose, Enter, ExitScope, Finish, Outside, Next1, Busy
  <2>2. QED
    BY <2>1 DEF ChildInv
<1>6. CASE \E i \in DOMAIN scopes, kind \in Kinds : Lost(i, kind)
  BY <1>6 DEF Lost, ChildInv
<1>7. QED
  BY <1>1, <1>2, <1>4, <1>5, <1>6 DEF Moves

\* However an operation ends, nothing is left behind, in every program that makes what it
\* makes inside, or right in front of, a try block whose finally block removes it.
THEOREM NothingIsLeftBehind ==
  ASSUME OfCode, TidiesUp(Tidy), \A p \in DOMAIN Programs : TidyIn(Programs[p].steps, Outermost, Tidy)
  PROVE  Spec => []NothingLeftBehind
<1> DEFINE LeftInv == TidyInv /\ TempInv /\ StageInv /\ ChildInv
<1>1. Init => Control /\ LeftInv
  <2> SUFFICES ASSUME Init PROVE LeftInv
    BY ControlInit
  <2>1. todo = Programs[op].steps /\ op \in DOMAIN Programs /\ scopes = << >>
        /\ temps = {} /\ child = "none" /\ staged = "none"
    BY DEF Init
  <2>2. Len(scopes) = 0 /\ DOMAIN scopes = {}
    BY <2>1
  <2>3. Sound(Outermost, scopes, Len(scopes)) /\ Loose(todo, Outermost)
    BY <2>1, <2>2, SoundAtBottom, LooseFacts
  <2>4. TidyInv
    BY <2>2, <2>3 DEF TidyInv
  <2>5. QED
    BY <2>1, <2>4 DEF TempInv, StageInv, ChildInv
<1>2. Control /\ LeftInv /\ [Next]_vars => Control' /\ LeftInv'
  BY ControlStep, TidyStep, TempStep, StageStep, ChildStep DEF OfCode
<1>3. Control /\ LeftInv => NothingLeftBehind
  <2> SUFFICES ASSUME Control, LeftInv, Over PROVE
         /\ child = "none" /\ staged = "none"
         /\ {"workerLost", "leaked"} \cap notes = {} => temps = {}
    BY DEF NothingLeftBehind
  <2>1. todo = << >> /\ DOMAIN scopes = {} /\ DOMAIN todo = {}
    BY DEF Control
  <2>2. child = "none"
    BY DEF ChildInv, Busy, Over
  <2>3. staged = "none"
    BY <2>1 DEF StageInv, SafeStage, UnstagesSoon
  <2>4. \A d : ~SafeTemp(d)
    BY <2>1 DEF SafeTemp, DropsSoon
  <2>5. QED
    BY <2>2, <2>3, <2>4 DEF TempInv
<1>4. QED
  BY <1>1, <1>2, <1>3, PTL DEF Spec
-----------------------------------------------------------------------------
(* The output                                                              *)

\* The output as Outcomes reads it.
Here == Output(out, staged, Undisturbed)

\* A child that the token can kill, or has killed, was started with the token.
WiredInv == child \in {"running", "killed"} => Busy /\ Now.do = "child" /\ Now.wired

\* Every step, with what it does to the output.
HoldTo == UNCHANGED <<todo, scopes, result>> /\ Here' = Here
PassTo == Busy /\ Continue /\ Here' \in GoesOn(Now, Here)
ThrowTo(kind) == Busy /\ Raise(kind, Len(scopes)) /\ <<kind, Here'>> \in Stops(Now, Here)
LoseTo(i, kind, t) ==
  /\ result = "running" /\ scopes[i].do = "worker" /\ Raise(kind, i - 1)
  /\ t = Here \/ (Busy /\ <<"lost", t>> \in Stops(Now, Here))
  /\ Here' = Disturbed(t)
OutcomeMoves ==
  \/ HoldTo \/ PassTo
  \/ (Choose \/ Enter \/ ExitScope \/ Finish) /\ Here' = Here
  \/ \E kind \in Kinds : ThrowTo(kind)
  \/ \E i \in DOMAIN scopes, kind \in {"failed", "cancelled"}, t \in {Here, Put1(Here, "torn")} :
       LoseTo(i, kind, t)

\* What is noted, if anything, is no disturbance.
Same == Undisturbed' = Undisturbed
\* What Outcomes sees of the variables, when something is written and when nothing is.
LEMMA WriteHere ==
  /\ Target /\ Same => Here' = Here
  /\ \A v : WriteTarget(v) /\ Same => Here' = Put1(Here, v)
  /\ Here.staged = staged /\ Here.out = out /\ Here.calm = Undisturbed
BY DEF Target, Same, WriteTarget, Here, Put1, Output

\* What is noted is a disturbance or none.
LEMMA SameNotes ==
  /\ UNCHANGED notes => Same
  /\ \A n : n \notin {"gaveUp", "workerLost"} /\ Note(n) => Same
  /\ \A n : n \in {"gaveUp", "workerLost"} /\ Note(n) => Undisturbed' = FALSE
<1>1. UNCHANGED notes => Same
  BY DEF Same, Undisturbed
<1>2. ASSUME NEW n, n \notin {"gaveUp", "workerLost"}, Note(n) PROVE Same
  <2>1. Undisturbed' <=> Undisturbed
    BY <1>2 DEF Undisturbed, Note
  <2>2. QED
    BY <2>1 DEF Same, Undisturbed
<1>3. ASSUME NEW n, n \in {"gaveUp", "workerLost"}, Note(n) PROVE Undisturbed' = FALSE
  <2>1. ~Undisturbed'
    BY <1>3 DEF Undisturbed, Note
  <2>2. QED
    BY <2>1 DEF Undisturbed
<1>4. QED
  BY <1>1, <1>2, <1>3

\* Every step does to the output what Outcomes says of it.
LEMMA OutcomeFlow ==
  ASSUME Nested(Code), Control, WiredInv, [Next]_vars
  PROVE  OutcomeMoves
<1>1. Fail => Raise("failed", Len(scopes))
  BY DEF Fail
<1>2. Cancel => Raise("cancelled", Len(scopes))
  BY DEF Cancel
<1>3. "failed" \in Kinds /\ "cancelled" \in Kinds
  BY DEF Kinds, AnyError, Failure
<1> DEFINE Fails == Busy /\ Fail /\ <<"failed", Here'>> \in Stops(Now, Here)
           Cancels == Busy /\ Cancel /\ <<"cancelled", Here'>> \in Stops(Now, Here)
<1>4. Fails \/ Cancels => \E kind \in Kinds : ThrowTo(kind)
  BY <1>1, <1>2, <1>3 DEF ThrowTo
<1>5. RunThrow => \E kind \in Kinds : ThrowTo(kind)
  <2> SUFFICES ASSUME RunThrow PROVE \E kind \in Kinds : ThrowTo(kind)
    OBVIOUS
  <2>1. Busy /\ Now.do = "throw" /\ Raise(Now.kind, Len(scopes)) /\ Target /\ UNCHANGED notes
    BY DEF RunThrow, Next1, Busy
  <2>2. PICK kind \in Kinds : Now = Throw(kind)
    BY <2>1, HeadFacts DEF Now, Control, Busy
  <2>3. Now.kind = kind /\ Here' = Here
    BY <2>1, <2>2, WriteHere, SameNotes DEF Throw
  <2>4. <<kind, Here'>> \in Stops(Now, Here)
    BY <2>1, <2>3 DEF Stops
  <2>5. QED
    BY <2>1, <2>3, <2>4 DEF ThrowTo
<1> DEFINE Ends1 == PassTo \/ Fails \/ Cancels
<1>6. ASSUME RunCheck \/ RunReset \/ RunPut \/ RunGet \/ RunMain \/ RunTemp PROVE Ends1
  <2>1. /\ Busy /\ Now.do \in {"check", "reset", "put", "get", "main", "temp"}
        /\ Continue \/ Fail
        /\ Target /\ (UNCHANGED notes \/ Note("lost"))
    BY <1>6 DEF RunCheck, RunReset, RunPut, RunGet, RunMain, RunTemp, Next1, Busy
  <2>2. Here' = Here
    BY <2>1, WriteHere, SameNotes
  <2>3. Here \in GoesOn(Now, Here) /\ <<"failed", Here>> \in Stops(Now, Here)
    BY <2>1 DEF GoesOn, Stops
  <2>4. QED
    BY <2>1, <2>2, <2>3 DEF PassTo
<1>7. ASSUME RunPoll \/ RunDrop PROVE Ends1
  <2>1. /\ Busy /\ Target
        /\ UNCHANGED notes \/ Note("cancelThrown") \/ Note("leaked")
        /\ \/ Now.do \in {"poll", "drop", "dropAfter"} /\ Continue
           \/ Now.do = "poll" /\ Cancel
    BY <1>7 DEF RunPoll, RunDrop, Next1, Busy
  <2>2. Here' = Here
    BY <2>1, WriteHere, SameNotes
  <2>3. /\ Now.do \in {"poll", "drop", "dropAfter"} => Here \in GoesOn(Now, Here)
        /\ Now.do = "poll" => <<"cancelled", Here>> \in Stops(Now, Here)
    BY DEF GoesOn, Stops
  <2>4. QED
    BY <2>1, <2>2, <2>3 DEF PassTo
<1>8. ASSUME RunWrite \/ RunWriteTree PROVE Ends1
  <2>1. /\ Busy /\ Now.do \in {"write", "tree"}
        /\ UNCHANGED notes \/ Note("cancelThrown")
        /\ \/ WriteTarget("new") /\ Continue
           \/ WriteTarget("torn") /\ Fail
           \/ Now.do = "tree" /\ WriteTarget("torn") /\ Cancel
    BY <1>8 DEF RunWrite, RunWriteTree, Next1, Busy
  <2>2. \A v : WriteTarget(v) => Here' = Put1(Here, v)
    BY <2>1, WriteHere, SameNotes
  <2>3. /\ Put1(Here, "new") \in GoesOn(Now, Here)
        /\ <<"failed", Put1(Here, "torn")>> \in Stops(Now, Here)
        /\ Now.do = "tree" => <<"cancelled", Put1(Here, "torn")>> \in Stops(Now, Here)
    BY <2>1 DEF GoesOn, Stops
  <2>4. QED
    BY <2>1, <2>2, <2>3 DEF PassTo
<1>9. ASSUME RunReplace PROVE Ends1
  <2>1. /\ Busy /\ Now.do = "replace" /\ UNCHANGED notes
        /\ \/ WriteTarget("new") /\ Continue
           \/ Target /\ Fail
    BY <1>9 DEF RunReplace, Next1, Busy
  <2>2. (\A v : WriteTarget(v) => Here' = Put1(Here, v)) /\ (Target => Here' = Here)
    BY <2>1, WriteHere, SameNotes
  <2>3. Put1(Here, "new") \in GoesOn(Now, Here) /\ <<"failed", Here>> \in Stops(Now, Here)
    BY <2>1 DEF GoesOn, Stops
  <2>4. QED
    BY <2>1, <2>2, <2>3 DEF PassTo
<1>10. ASSUME RunPublish PROVE Ends1
  <2>1. /\ Busy /\ Now.do = "publish" /\ Same
        /\ \/ out' = staged /\ staged' = "none" /\ Continue
           \/ Target /\ Fail
    BY <1>10, SameNotes DEF RunPublish, Next1, Busy
  <2>2. Target => Here' = Here
    BY <2>1, WriteHere
  <2>3. out' = staged /\ staged' = "none" => Here' = Output(Here.staged, "none", Here.calm)
    BY <2>1, WriteHere DEF Here, Same, Output
  <2>4. /\ Output(Here.staged, "none", Here.calm) \in GoesOn(Now, Here)
        /\ <<"failed", Here>> \in Stops(Now, Here)
    BY <2>1 DEF GoesOn, Stops
  <2>5. QED
    BY <2>1, <2>2, <2>3, <2>4 DEF PassTo
<1>11. ASSUME RunStage \/ RunUnstage PROVE Ends1
  <2>1. /\ Busy /\ Continue /\ UNCHANGED out /\ Same
        /\ \/ Now.do = "stage" /\ staged' = "empty"
           \/ Now.do = "unstage" /\ staged' = "none"
    BY <1>11, SameNotes DEF RunStage, RunUnstage, Next1, Busy
  <2>2. \A v : staged' = v => Here' = Output(Here.out, v, Here.calm)
    BY <2>1, WriteHere DEF Here, Same, Output
  <2>3. /\ Now.do = "stage" => Output(Here.out, "empty", Here.calm) \in GoesOn(Now, Here)
        /\ Now.do = "unstage" => Output(Here.out, "none", Here.calm) \in GoesOn(Now, Here)
    BY DEF GoesOn
  <2>4. QED
    BY <2>1, <2>2, <2>3 DEF PassTo
<1>12. ASSUME RunRemove PROVE Ends1
  <2>1. /\ Busy /\ Now.do = "remove" /\ Continue /\ UNCHANGED notes
        /\ WriteTarget(IF staged = "none" THEN "gone" ELSE "empty")
    BY <1>12 DEF RunRemove, Next1, Busy
  <2>2. Here' = Put1(Here, IF Here.staged = "none" THEN "gone" ELSE "empty")
    BY <2>1, WriteHere, SameNotes
  <2>3. Put1(Here, IF Here.staged = "none" THEN "gone" ELSE "empty") \in GoesOn(Now, Here)
    BY <2>1 DEF GoesOn
  <2>4. QED
    BY <2>1, <2>2, <2>3 DEF PassTo
<1>13. Spawn => HoldTo \/ Fails
  <2> SUFFICES ASSUME Spawn PROVE HoldTo \/ Fails
    OBVIOUS
  <2>1. Busy /\ Now.do = "child" /\ (UNCHANGED <<todo, scopes, result>> \/ Fail) /\ Target /\ UNCHANGED notes
    BY DEF Spawn, Next1, Busy
  <2>2. Here' = Here
    BY <2>1, WriteHere, SameNotes
  <2>3. <<"failed", Here>> \in Stops(Now, Here)
    BY <2>1 DEF Stops
  <2>4. QED
    BY <2>1, <2>2, <2>3 DEF HoldTo
<1>14. Now.do = "child" /\ Busy => Now.writes \in {"none", "create", "replace"}
  BY HeadFacts DEF Control, Now, Busy
<1>15. ASSUME NEW code \in {0, 2}, ChildCloses(code) PROVE Ends1
  <2> DEFINE u == Exited(Now, Here, code)
  <2>1. Busy /\ Now.do = "child"
    BY <1>15 DEF ChildCloses, Next1, Busy
  <2>2. UNCHANGED notes \/ Note("cancelThrown")
    BY <1>15 DEF ChildCloses
  <2>3. Here' = u
    <3>1. /\ Now.writes = "none" => Target
          /\ Now.writes = "create" => WriteTarget(IF code = 0 THEN "new" ELSE "torn")
          /\ Now.writes = "replace" => IF code = 0 THEN WriteTarget("new") ELSE Target
      BY <1>15 DEF ChildCloses
    <3>2. (\A v : WriteTarget(v) => Here' = Put1(Here, v)) /\ (Target => Here' = Here)
      BY <2>2, WriteHere, SameNotes
    <3>3. QED
      BY <1>14, <2>1, <3>1, <3>2 DEF Exited
  <2> HIDE DEF u
  <2>4. \/ Now.wired /\ Cancel
        \/ code # 0 /\ Now.strict /\ Fail
        \/ (code = 0 \/ ~Now.strict) /\ Continue
    BY <1>15 DEF ChildCloses
  <2>5. /\ Now.wired => <<"cancelled", u>> \in Stops(Now, Here)
        /\ code # 0 /\ Now.strict => <<"failed", u>> \in Stops(Now, Here)
        /\ code = 0 \/ ~Now.strict => u \in GoesOn(Now, Here)
    <3>1. Now.wired => <<"cancelled", u>> \in Stops(Now, Here)
      BY <2>1 DEF Stops, u
    <3>2. code # 0 /\ Now.strict => <<"failed", u>> \in Stops(Now, Here)
      BY <2>1 DEF Stops, u
    <3>3. code = 0 \/ ~Now.strict => u \in GoesOn(Now, Here)
      BY <2>1 DEF GoesOn, u
    <3>4. QED
      BY <3>1, <3>2, <3>3
  <2>6. QED
    BY <2>1, <2>3, <2>4, <2>5 DEF PassTo
<1>16. ASSUME KilledChildCloses PROVE Ends1
  <2>1. Busy /\ Now.do = "child" /\ Now.wired /\ Cancel /\ Note("cancelThrown")
    BY <1>16 DEF KilledChildCloses, Next1, Busy, WiredInv
  <2>2. Here' = Cut(Now, Here)
    <3>1. IF Now.writes = "create" THEN WriteTarget("torn") ELSE Target
      BY <1>16 DEF KilledChildCloses
    <3>2. (\A v : WriteTarget(v) => Here' = Put1(Here, v)) /\ (Target => Here' = Here)
      BY <2>1, WriteHere, SameNotes
    <3>3. QED
      BY <3>1, <3>2 DEF Cut
  <2>3. <<"cancelled", Cut(Now, Here)>> \in Stops(Now, Here)
    BY <2>1 DEF Stops
  <2>4. QED
    BY <2>1, <2>2, <2>3
<1>17. ASSUME GiveUp PROVE Ends1
  <2>1. Busy /\ Now.do = "child" /\ Now.timed /\ Fail /\ Undisturbed' = FALSE
    BY <1>17, SameNotes DEF GiveUp, Next1, Busy
  <2>2. Here' = Disturbed(Cut(Now, Here))
    <3>1. IF Now.writes = "create" THEN WriteTarget("torn") ELSE Target
      BY <1>17 DEF GiveUp
    <3>2. QED
      BY <2>1, <3>1 DEF Cut, Disturbed, Here, Output, Put1, WriteTarget, Target
  <2>3. <<"failed", Disturbed(Cut(Now, Here))>> \in Stops(Now, Here)
    BY <2>1 DEF Stops
  <2>4. QED
    BY <2>1, <2>2, <2>3
<1>18. ASSUME BindingSettles PROVE Ends1
  <2>1. /\ Busy /\ Now.do = "binding" /\ (UNCHANGED notes \/ Note("cancelThrown"))
        /\ \/ (IF Now.writes THEN WriteTarget("new") ELSE Target) /\ Continue
           \/ (IF Now.writes THEN WriteTarget("torn") ELSE Target) /\ Fail
           \/ (IF Now.writes THEN WriteTarget("torn") ELSE Target) /\ Now.wired /\ Cancel
    BY <1>18 DEF BindingSettles, Next1, Busy
  <2>2. (\A v : WriteTarget(v) => Here' = Put1(Here, v)) /\ (Target => Here' = Here)
    BY <2>1, WriteHere, SameNotes
  <2>3. \A v : (IF Now.writes THEN WriteTarget(v) ELSE Target) => Here' = Bound(Now, Here, v)
    BY <2>2 DEF Bound
  <2>4. /\ Bound(Now, Here, "new") \in GoesOn(Now, Here)
        /\ <<"failed", Bound(Now, Here, "torn")>> \in Stops(Now, Here)
        /\ Now.wired => <<"cancelled", Bound(Now, Here, "torn")>> \in Stops(Now, Here)
    BY <2>1 DEF GoesOn, Stops
  <2>5. QED
    BY <2>1, <2>3, <2>4 DEF PassTo
<1>19. KillChild \/ CallBinding \/ Ask \/ Rest \/ UNCHANGED vars => HoldTo
  <2>1. KillChild \/ CallBinding \/ Ask \/ Rest \/ UNCHANGED vars =>
          UNCHANGED <<todo, scopes, result, notes>> /\ Target
    BY DEF KillChild, CallBinding, Ask, Rest, vars, Target
  <2>2. QED
    BY <2>1, WriteHere, SameNotes DEF HoldTo
<1>20. Choose \/ Enter \/ ExitScope \/ Finish => Here' = Here
  <2>1. Choose \/ Enter \/ ExitScope \/ Finish => UNCHANGED notes /\ Target
    BY DEF Choose, Enter, ExitScope, Finish
  <2>2. QED
    BY <2>1, WriteHere, SameNotes
<1>21. LoseWorker => \E i \in DOMAIN scopes, kind \in {"failed", "cancelled"},
                        t \in {Here, Put1(Here, "torn")} : LoseTo(i, kind, t)
  <2> SUFFICES ASSUME LoseWorker
               PROVE  \E i \in DOMAIN scopes, kind \in {"failed", "cancelled"},
                         t \in {Here, Put1(Here, "torn")} : LoseTo(i, kind, t)
    OBVIOUS
  <2>1. PICK i \in DOMAIN scopes, kind \in {"failed", "cancelled"} :
          scopes[i].do = "worker" /\ Raise(kind, i - 1)
    BY DEF LoseWorker
  <2>2. result = "running" /\ Undisturbed' = FALSE
    BY SameNotes DEF LoseWorker
  <2>3. CASE Target
    <3>1. Here' = Disturbed(Here)
      BY <2>2, <2>3 DEF Target, Here, Disturbed, Output
    <3>2. LoseTo(i, kind, Here)
      BY <2>1, <2>2, <3>1 DEF LoseTo
    <3>3. QED
      BY <3>2
  <2>4. CASE ~Target
    <3>1. Busy /\ Now.do \in {"write", "tree"} /\ WriteTarget("torn")
      BY <2>2, <2>4 DEF LoseWorker, Busy
    <3>2. Here' = Disturbed(Put1(Here, "torn"))
      BY <2>2, <3>1 DEF WriteTarget, Here, Disturbed, Output, Put1
    <3>3. <<"lost", Put1(Here, "torn")>> \in Stops(Now, Here)
      BY <3>1 DEF Stops
    <3>4. LoseTo(i, kind, Put1(Here, "torn"))
      BY <2>1, <2>2, <3>1, <3>2, <3>3 DEF LoseTo
    <3>5. QED
      BY <3>4
  <2>5. QED
    BY <2>3, <2>4
<1> HIDE DEF Fails, Cancels
<1>22. Ends1 => OutcomeMoves
  BY <1>4 DEF OutcomeMoves
<1>23. QED
  BY <1>4, <1>5, <1>6, <1>7, <1>8, <1>9, <1>10, <1>11, <1>12, <1>13, <1>15, <1>16, <1>17, <1>18,
     <1>19, <1>20, <1>21, <1>22 DEF Next, Step, OutcomeMoves

\* Only a process that was started with the token is killed by it.
LEMMA WiredStep ==
  ASSUME Nested(Code), Control, WiredInv, [Next]_vars
  PROVE  WiredInv'
<1> SUFFICES ASSUME child' \in {"running", "killed"} PROVE (Busy /\ Now.do = "child" /\ Now.wired)'
  BY DEF WiredInv
<1> DEFINE Held == UNCHANGED <<todo, result>> /\ Busy /\ Now.do = "child" /\ Now.wired
<1>1. Held => (Busy /\ Now.do = "child" /\ Now.wired)'
  BY DEF Busy, Now
<1>2. Spawn \/ KillChild => Held
  <2>1. Spawn => Held
    BY DEF Spawn, Next1, Busy
  <2>2. KillChild => Held
    BY DEF KillChild, Next1, Busy, WiredInv
  <2>3. QED
    BY <2>1, <2>2
<1>3. Ask \/ Rest \/ UNCHANGED vars => Held
  BY DEF Ask, Rest, vars, Outside, WiredInv
<1>4. ~(CallBinding \/ BindingSettles \/ KilledChildCloses \/ GiveUp \/ LoseWorker)
  BY DEF CallBinding, BindingSettles, KilledChildCloses, GiveUp, LoseWorker
<1>5. ~\E code \in {0, 2} : ChildCloses(code)
  BY DEF ChildCloses
<1>6. ASSUME \/ RunCheck \/ RunPoll \/ RunThrow \/ Choose \/ Enter \/ ExitScope \/ Finish
             \/ RunReset \/ RunPut \/ RunGet \/ RunMain
      PROVE FALSE
  <2>1. UNCHANGED child /\ (todo = << >> \/ Now.do # "child")
    BY <1>6 DEF RunCheck, RunPoll, RunThrow, Choose, Enter, ExitScope, Finish, RunReset, RunPut,
                RunGet, RunMain, Outside, Next1
  <2>2. QED
    BY <2>1 DEF WiredInv, Busy
<1>7. ASSUME \/ RunTemp \/ RunDrop \/ RunWrite \/ RunWriteTree \/ RunReplace \/ RunRemove
             \/ RunStage \/ RunPublish \/ RunUnstage
      PROVE FALSE
  <2>1. UNCHANGED child /\ Now.do # "child"
    BY <1>7 DEF RunTemp, RunDrop, RunWrite, RunWriteTree, RunReplace, RunRemove, RunStage,
                RunPublish, RunUnstage, Outside, Next1
  <2>2. QED
    BY <2>1 DEF WiredInv, Busy
<1>8. QED
  BY <1>1, <1>2, <1>3, <1>4, <1>5, <1>6, <1>7 DEF Next, Step

\* The invariant: G[k] is what the text around the first k blocks can still end with.
\* Each block handles what its body ends with; an ending that comes out of blocks that
\* do not take it is one of theirs too; and the text that is left, begun with the output
\* as it is now, ends in no other way, or the operation has ended in one of them.
Program == Programs[op].steps
Answered(E, f, all) == \A how, t : <<how, t>> \in E => Handles(Ends, f, f.rest, how, t, all)
Linked(G, S) == \A k \in 1 .. Len(S) : Answered(G[k], S[k], G[k - 1])
Transit(G, S) ==
  \A k \in 0 .. Len(S), j \in 0 .. Len(S) : \A how, t :
    /\ j <= k /\ <<how, t>> \in G[k] /\ how # "ok"
    /\ how = "lost" \/ \A m \in j + 1 .. k : ~Takes(S[m], how)
    => <<how, t>> \in G[j]
Reports(how) ==
  CASE result = "ok" -> how = "ok"
    [] result = "cancelled" -> how = "cancelled"
    [] OTHER -> how \in Kinds \ {"cancelled"}
Reachable(G) ==
  IF result = "running"
  THEN <<todo, Here>> \in DOMAIN Ends /\ Ends[<<todo, Here>>] \subseteq G[Len(scopes)]
  ELSE \E how \in Kinds \cup {"ok"} : Reports(how) /\ <<how, Here>> \in G[0]
OutcomeInv ==
  \E G : /\ G[0] = Ends[<<Program, Fresh>>]
         /\ Linked(G, scopes) /\ Transit(G, scopes) /\ Reachable(G)

\* What a block does with each ending of its body.
LEMMA HandlesFacts ==
  ASSUME NEW s, NEW rest, NEW how, NEW t, NEW all, Handles(Ends, s, rest, how, t, all)
  PROVE  /\ how = "ok" => Then(Ends, IF s.do = "finally" THEN s.handler \o rest ELSE rest, t, all)
         /\ how = "lost" => <<how, t>> \in all
         /\ how = "lost" /\ s.do = "worker" => {"failed", "cancelled"} \X {Disturbed(t)} \subseteq all
         /\ how \notin {"ok", "lost"} /\ s.do = "finally" =>
              Then(Ends, s.handler \o << Throw(how) >>, t, all)
         /\ how \notin {"ok", "lost"} /\ s.do # "finally" /\ how \in s.kinds =>
              Then(Ends, s.handler \o rest, t, all)
         /\ how # "ok" /\ (how = "lost" \/ ~Takes(s, how)) => <<how, t>> \in all
BY DEF Handles, Takes

\* The same block handles an ending in the same way among more endings.
LEMMA HandlesMore ==
  ASSUME NEW s, NEW f, NEW rest, NEW how, NEW t, NEW all, NEW more,
         Handles(Ends, s, rest, how, t, all), all \subseteq more,
         f.do = s.do, f.kinds = s.kinds, f.handler = s.handler
  PROVE  Handles(Ends, f, rest, how, t, more)
<1>1. \A q : Then(Ends, q, t, all) => Then(Ends, q, t, more)
  BY DEF Then
<1>2. QED
  BY <1>1 DEF Handles

\* The blocks that stay open handle what they did.
LEMMA LinkedBelow ==
  ASSUME NEW G, NEW H, NEW S, NEW T, Linked(G, S), Transit(G, S), NEW n \in Nat, NEW m \in Nat,
         Len(S) = n, Len(T) = m, m <= n,
         \A k \in 1 .. m : T[k] = S[k], \A k \in 0 .. m : H[k] = G[k]
  PROVE  Linked(H, T) /\ Transit(H, T)
<1>1. Linked(H, T)
  <2>1. ASSUME NEW k \in 1 .. m PROVE Answered(H[k], T[k], H[k - 1])
    <3>1. k \in 0 .. m /\ k - 1 \in 0 .. m /\ k \in 1 .. Len(S)
      OBVIOUS
    <3>2. H[k] = G[k] /\ H[k - 1] = G[k - 1] /\ T[k] = S[k]
      BY <3>1
    <3>3. Answered(G[k], S[k], G[k - 1])
      BY <3>1 DEF Linked
    <3>4. QED
      BY <3>2, <3>3
  <2>2. QED
    BY <2>1 DEF Linked
<1>2. Transit(H, T)
  <2>1. ASSUME NEW k \in 0 .. m, NEW j \in 0 .. m, NEW how, NEW t,
               j <= k, <<how, t>> \in H[k], how # "ok",
               how = "lost" \/ \A i \in j + 1 .. k : ~Takes(T[i], how)
        PROVE  <<how, t>> \in H[j]
    <3>1. k \in 0 .. Len(S) /\ j \in 0 .. Len(S) /\ H[k] = G[k] /\ H[j] = G[j]
      OBVIOUS
    <3>2. \A i \in j + 1 .. k : T[i] = S[i]
      OBVIOUS
    <3>3. how = "lost" \/ \A i \in j + 1 .. k : ~Takes(S[i], how)
      BY <2>1, <3>2
    <3>4. <<how, t>> \in G[j]
      BY <2>1, <3>1, <3>3 DEF Transit
    <3>5. QED
      BY <3>1, <3>4
  <2>2. QED
    BY <2>1 DEF Transit
<1>3. QED
  BY <1>1, <1>2

\* A block that is opened handles the endings of its body.
LEMMA LinkedAbove ==
  ASSUME NEW G, NEW S, NEW T, Linked(G, S), Transit(G, S), NEW n \in Nat,
         Len(S) = n, Len(T) = n + 1, \A k \in 1 .. n : T[k] = S[k],
         NEW H, \A k \in 0 .. n : H[k] = G[k], Answered(H[n + 1], T[n + 1], G[n])
  PROVE  Linked(H, T) /\ Transit(H, T)
<1>0. n \in 0 .. n /\ (n + 1) - 1 = n /\ n + 1 # n
  OBVIOUS
<1>1. Linked(H, T)
  <2>1. ASSUME NEW k \in 1 .. n + 1 PROVE Answered(H[k], T[k], H[k - 1])
    <3>1. CASE k = n + 1
      <4>1. k - 1 = n /\ H[n] = G[n]
        BY <1>0, <3>1
      <4>2. QED
        BY <3>1, <4>1
    <3>2. CASE k # n + 1
      <4>1. k \in 1 .. Len(S) /\ k \in 0 .. n /\ k - 1 \in 0 .. n
        BY <3>2
      <4>2. H[k] = G[k] /\ H[k - 1] = G[k - 1] /\ T[k] = S[k]
        BY <4>1
      <4>3. Answered(G[k], S[k], G[k - 1])
        BY <4>1 DEF Linked
      <4>4. QED
        BY <4>2, <4>3
    <3>3. QED
      BY <3>1, <3>2
  <2>2. QED
    BY <2>1 DEF Linked
<1>2. ASSUME NEW k \in 0 .. n, NEW j \in 0 .. n, NEW how, NEW t,
             j <= k, <<how, t>> \in G[k], how # "ok",
             how = "lost" \/ \A i \in j + 1 .. k : ~Takes(T[i], how)
      PROVE  <<how, t>> \in G[j]
  <2>1. \A i \in j + 1 .. k : T[i] = S[i]
    OBVIOUS
  <2>2. how = "lost" \/ \A i \in j + 1 .. k : ~Takes(S[i], how)
    BY <1>2, <2>1
  <2>3. QED
    BY <1>2, <2>2 DEF Transit
<1>3. Transit(H, T)
  <2>1. ASSUME NEW k \in 0 .. n + 1, NEW j \in 0 .. n + 1, NEW how, NEW t,
               j <= k, <<how, t>> \in H[k], how # "ok",
               how = "lost" \/ \A i \in j + 1 .. k : ~Takes(T[i], how)
        PROVE  <<how, t>> \in H[j]
    <3>1. CASE k \in 0 .. n
      <4>1. j \in 0 .. n
        BY <2>1, <3>1
      <4>2. <<how, t>> \in G[k]
        BY <2>1, <3>1
      <4>3. <<how, t>> \in G[j]
        BY <1>2, <2>1, <3>1, <4>1, <4>2
      <4>4. QED
        BY <4>1, <4>3
    <3>2. CASE k = n + 1 /\ j = n + 1
      BY <2>1, <3>2
    <3>3. CASE k = n + 1 /\ j \in 0 .. n
      <4>1. Handles(Ends, T[n + 1], T[n + 1].rest, how, t, G[n])
        BY <2>1, <3>3 DEF Answered
      <4>2. n + 1 \in j + 1 .. k /\ \A i \in j + 1 .. n : i \in j + 1 .. k
        BY <3>3
      <4>3. how = "lost" \/ ~Takes(T[n + 1], how)
        BY <2>1, <4>2
      <4>4. <<how, t>> \in G[n]
        <5> DEFINE rest == T[n + 1].rest
        <5>1. Handles(Ends, T[n + 1], rest, how, t, G[n])
          BY <4>1
        <5> HIDE DEF rest
        <5>2. how # "ok"
          BY <2>1
        <5>3. QED
          BY <4>3, <5>1, <5>2, HandlesFacts
      <4>5. how = "lost" \/ \A i \in j + 1 .. n : ~Takes(T[i], how)
        BY <2>1, <4>2
      <4>6. <<how, t>> \in G[j]
        BY <1>0, <1>2, <2>1, <3>3, <4>4, <4>5
      <4>7. QED
        BY <3>3, <4>6
    <3>4. QED
      BY <3>1, <3>2, <3>3
  <2>2. QED
    BY <2>1 DEF Transit
<1>4. QED
  BY <1>1, <1>3

\* An exception comes out of the blocks that do not take it as it is, and the one that
\* takes it goes on as its text says.
LEMMA OutcomeLands ==
  ASSUME Nested(Code), Control, result = "running", NEW kind \in Kinds,
         NEW from \in 0 .. Len(scopes), Thrown(kind, from), UNCHANGED op,
         NEW G, G[0] = Ends[<<Program, Fresh>>], Linked(G, scopes), Transit(G, scopes),
         <<kind, Here'>> \in G[from]
  PROVE  OutcomeInv'
<1>1. Len(scopes) \in Nat /\ from \in Nat /\ kind \notin {"ok", "lost"}
  <2>1. Len(scopes) \in Nat
    BY LenProperties DEF Control
  <2>2. QED
    BY <2>1 DEF Kinds, AnyError, Failure
<1>2. Program' = Program
  BY DEF Program
<1>3. CASE EndsIt(kind, from)
  <2>1. /\ scopes' = << >> /\ Len(scopes') = 0
        /\ \A i \in 1 .. from : ~Takes(scopes[i], kind)
        /\ result' = IF kind = "cancelled" THEN "cancelled" ELSE "failed"
    BY <1>3 DEF EndsIt
  <2>2. <<kind, Here'>> \in G[0]
    <3>1. 0 \in 0 .. Len(scopes) /\ 0 <= from /\ \A i \in 0 + 1 .. from : i \in 1 .. from
      BY <1>1
    <3>2. QED
      BY <1>1, <2>1, <3>1 DEF Transit
  <2>3. Linked(G, scopes') /\ Transit(G, scopes')
    <3>1. 0 \in Nat /\ 0 <= Len(scopes)
      BY <1>1
    <3>2. (\A k \in 1 .. 0 : scopes'[k] = scopes[k]) /\ \A k \in 0 .. 0 : G[k] = G[k]
      OBVIOUS
    <3>3. QED
      BY <1>1, <2>1, <3>1, <3>2, LinkedBelow
  <2>4. Reports(kind)'
    <3>1. kind \notin {"ok"} /\ (kind = "cancelled" => result' = "cancelled")
          /\ (kind # "cancelled" => result' = "failed")
      BY <1>1, <2>1
    <3>2. CASE kind = "cancelled"
      BY <3>1, <3>2 DEF Reports
    <3>3. CASE kind # "cancelled"
      BY <3>1, <3>3 DEF Reports
    <3>4. QED
      BY <3>2, <3>3
  <2>5. Reachable(G)'
    <3>1. result' # "running" /\ kind \in Kinds \cup {"ok"}
      BY <2>1
    <3>2. QED
      BY <2>2, <2>4, <3>1 DEF Reachable
  <2>6. QED
    BY <1>2, <2>3, <2>5 DEF OutcomeInv
<1>4. ASSUME NEW i \in 1 .. from, Lands(i, kind, from) PROVE OutcomeInv'
  <2> DEFINE f == scopes[i]
  <2>1. /\ f \in Frames /\ Takes(f, kind) /\ \A j \in i + 1 .. from : ~Takes(scopes[j], kind)
        /\ i \in 1 .. Len(scopes) /\ i - 1 \in Nat /\ result' = "running"
        /\ Len(scopes') = i - 1 /\ \A j \in 1 .. i - 1 : scopes'[j] = scopes[j]
        /\ todo' = f.handler \o (IF f.do = "finally" THEN << Throw(kind) >> ELSE f.rest)
    BY <1>4 DEF Lands
  <2>2. <<kind, Here'>> \in G[i]
    <3>1. i \in 0 .. Len(scopes) /\ i <= from
      BY <1>1
    <3>2. QED
      BY <1>1, <2>1, <3>1 DEF Transit
  <2>3. Handles(Ends, f, f.rest, kind, Here', G[i - 1])
    BY <2>1, <2>2 DEF Linked, Answered
  <2>4. Then(Ends, todo', Here', G[i - 1])
    <3> DEFINE rest == f.rest
               all == G[i - 1]
    <3>0. Handles(Ends, f, rest, kind, Here', all) /\ kind \notin {"ok", "lost"}
      BY <1>1, <2>3
    <3> HIDE DEF rest, all
    <3>1. CASE f.do = "finally"
      <4>1. todo' = f.handler \o << Throw(kind) >>
        BY <2>1, <3>1
      <4>2. Then(Ends, f.handler \o << Throw(kind) >>, Here', all)
        BY <3>0, <3>1, HandlesFacts
      <4>3. QED
        BY <4>1, <4>2 DEF all
    <3>2. CASE f.do # "finally"
      <4>1. kind \in f.kinds
        BY <2>1, <3>2 DEF Takes
      <4>2. todo' = f.handler \o rest
        BY <2>1, <3>2 DEF rest
      <4>3. Then(Ends, f.handler \o rest, Here', all)
        BY <3>0, <3>2, <4>1, HandlesFacts
      <4>4. QED
        BY <4>2, <4>3 DEF all
    <3>3. QED
      BY <3>1, <3>2
  <2>5. Linked(G, scopes') /\ Transit(G, scopes')
    <3>1. i - 1 <= Len(scopes)
      BY <1>1, <2>1
    <3>2. \A k \in 0 .. i - 1 : G[k] = G[k]
      OBVIOUS
    <3>3. QED
      BY <1>1, <2>1, <3>1, <3>2, LinkedBelow
  <2>6. Reachable(G)'
    BY <2>1, <2>4 DEF Reachable, Then
  <2>7. QED
    BY <1>2, <2>5, <2>6 DEF OutcomeInv
<1>5. QED
  BY <1>3, <1>4 DEF Thrown

\* The table of endings, rule by rule.
LEMMA EndsFacts ==
  ASSUME Compositional(Ends), NEW q, NEW t, <<q, t>> \in DOMAIN Ends
  PROVE  /\ <<"lost", t>> \in Ends[<<q, t>>]
         /\ q = << >> => <<"ok", t>> \in Ends[<<q, t>>]
         /\ q # << >> =>
              /\ \A u \in GoesOn(Head(q), t) : Then(Ends, Tail(q), u, Ends[<<q, t>>])
              /\ Stops(Head(q), t) \subseteq Ends[<<q, t>>]
              /\ Head(q).do = "either" =>
                   \A i \in DOMAIN Head(q).alternatives :
                     Then(Ends, Head(q).alternatives[i] \o Tail(q), t, Ends[<<q, t>>])
              /\ Head(q).do \in Blocks =>
                   /\ <<Head(q).body \o << Leave >>, t>> \in DOMAIN Ends
                   /\ \A how, u : <<how, u>> \in Ends[<<Head(q).body \o << Leave >>, t>>] =>
                        Handles(Ends, Head(q), Tail(q), how, u, Ends[<<q, t>>])
<1> DEFINE x == <<q, t>>
<1>1. x \in DOMAIN Ends /\ x[1] = q /\ x[2] = t
  OBVIOUS
<1>2. /\ <<"lost", t>> \in Ends[x]
      /\ q = << >> => <<"ok", t>> \in Ends[x]
      /\ q # << >> =>
           /\ \A u \in GoesOn(Head(q), t) : Then(Ends, Tail(q), u, Ends[x])
           /\ Stops(Head(q), t) \subseteq Ends[x]
           /\ Head(q).do = "either" =>
                \A i \in DOMAIN Head(q).alternatives :
                  Then(Ends, Head(q).alternatives[i] \o Tail(q), t, Ends[x])
           /\ Head(q).do \in {"finally", "catch", "worker"} =>
                /\ <<Head(q).body \o << Leave >>, t>> \in DOMAIN Ends
                /\ \A e \in Ends[<<Head(q).body \o << Leave >>, t>>] :
                     Handles(Ends, Head(q), Tail(q), e[1], e[2], Ends[x])
  <2> HIDE DEF x
  <2>1. QED
    BY <1>1, Zenon DEF Compositional
<1>3. ASSUME NEW E, \A e \in E : Handles(Ends, Head(q), Tail(q), e[1], e[2], Ends[x])
      PROVE  \A how, u : <<how, u>> \in E => Handles(Ends, Head(q), Tail(q), how, u, Ends[x])
  <2> SUFFICES ASSUME NEW how, NEW u, <<how, u>> \in E
               PROVE  Handles(Ends, Head(q), Tail(q), how, u, Ends[x])
    OBVIOUS
  <2> DEFINE e == <<how, u>>
  <2>1. e \in E /\ e[1] = how /\ e[2] = u
    OBVIOUS
  <2> HIDE DEF e
  <2>2. QED
    BY <1>3, <2>1
<1> HIDE DEF x
<1>4. QED
  BY <1>2, <1>3 DEF Blocks, x

\* A step that opens or closes no block goes on in a text whose endings are known.
LEMMA OutcomeGoes ==
  ASSUME UNCHANGED <<op, scopes>>, result' = "running",
         NEW G, G[0] = Ends[<<Program, Fresh>>], Linked(G, scopes), Transit(G, scopes),
         NEW all, Then(Ends, todo', Here', all), all \subseteq G[Len(scopes)]
  PROVE  OutcomeInv'
<1>1. Reachable(G)'
  BY DEF Reachable, Then
<1>2. Program' = Program /\ Linked(G, scopes') /\ Transit(G, scopes')
  BY DEF Program
<1>3. QED
  BY <1>1, <1>2 DEF OutcomeInv

\* Entering a block: its body ends as the table says, and the block handles that.
LEMMA OutcomeEnters ==
  ASSUME Nested(Code), Compositional(Ends), Control, Enter, Here' = Here, UNCHANGED op,
         NEW G, G[0] = Ends[<<Program, Fresh>>], Linked(G, scopes), Transit(G, scopes),
         <<todo, Here>> \in DOMAIN Ends, Ends[<<todo, Here>>] \subseteq G[Len(scopes)]
  PROVE  OutcomeInv'
<1>1. PICK body : body = Ends[<<Now.body \o << Leave >>, Here>>]
  OBVIOUS
<1>2. PICK n : n = Len(scopes)
  OBVIOUS
<1>3. /\ todo # << >> /\ result = "running" /\ Now.do \in Blocks /\ UNCHANGED result
      /\ todo' = Now.body \o << Leave >>
      /\ n \in Nat /\ Len(scopes') = n + 1
      /\ \A i \in 1 .. n : scopes'[i] = scopes[i]
      /\ scopes'[n + 1] = [do |-> Now.do, kinds |-> Now.kinds,
                           handler |-> Now.handler, rest |-> Tail(todo)]
  BY <1>2, EnterShape DEF Busy
<1>4. /\ <<todo', Here>> \in DOMAIN Ends
      /\ \A how, u : <<how, u>> \in body => Handles(Ends, Now, Tail(todo), how, u, Ends[<<todo, Here>>])
  BY <1>1, <1>3, EndsFacts DEF Now
<1>5. PICK H : H = [k \in 0 .. n + 1 |-> IF k = n + 1 THEN body ELSE G[k]]
  OBVIOUS
<1>6. H[n + 1] = body /\ (\A k \in 0 .. n : H[k] = G[k]) /\ 0 \in 0 .. n
  BY <1>3, <1>5
<1>7. ASSUME NEW how, NEW u, <<how, u>> \in body
      PROVE  Handles(Ends, scopes'[n + 1], scopes'[n + 1].rest, how, u, G[n])
  <2> DEFINE f == scopes'[n + 1]
  <2>1. /\ f.do = Now.do /\ f.kinds = Now.kinds /\ f.handler = Now.handler
        /\ f.rest = Tail(todo)
    BY <1>3
  <2>2. Handles(Ends, Now, Tail(todo), how, u, Ends[<<todo, Here>>])
    BY <1>4, <1>7
  <2> HIDE DEF f
  <2>3. Handles(Ends, f, Tail(todo), how, u, G[n])
    BY <1>2, <2>1, <2>2, HandlesMore
  <2>4. QED
    BY <2>1, <2>3 DEF f
<1>8. Linked(H, scopes') /\ Transit(H, scopes')
  <2>1. PICK S, T : S = scopes /\ T = scopes'
    OBVIOUS
  <2>2. Len(S) = n /\ Len(T) = n + 1 /\ (\A k \in 1 .. n : T[k] = S[k]) /\ n \in Nat
    BY <1>2, <1>3, <2>1
  <2>3. Answered(H[n + 1], T[n + 1], G[n])
    BY <1>6, <1>7, <2>1 DEF Answered
  <2>4. Linked(G, S) /\ Transit(G, S)
    BY <2>1
  <2>5. Linked(H, T) /\ Transit(H, T)
    BY <1>6, <2>2, <2>3, <2>4, LinkedAbove
  <2>6. QED
    BY <2>1, <2>5
<1>9. Reachable(H)'
  <2>1. Ends[<<todo', Here'>>] = H[Len(scopes')] /\ <<todo', Here'>> \in DOMAIN Ends
    BY <1>1, <1>3, <1>4, <1>6
  <2>2. QED
    BY <1>3, <2>1 DEF Reachable
<1>10. H[0] = Ends[<<Program', Fresh>>]
  BY <1>6 DEF Program
<1>11. QED
  BY <1>8, <1>9, <1>10 DEF OutcomeInv

\* Leaving a block: what it does then was one of the ways it handles its body.
LEMMA OutcomeLeaves ==
  ASSUME Nested(Code), Compositional(Ends), Control, ExitScope, Here' = Here, UNCHANGED op,
         NEW G, G[0] = Ends[<<Program, Fresh>>], Linked(G, scopes), Transit(G, scopes),
         <<todo, Here>> \in DOMAIN Ends, Ends[<<todo, Here>>] \subseteq G[Len(scopes)]
  PROVE  OutcomeInv'
<1> DEFINE n == Len(scopes)
           f == scopes[n]
           rest == f.rest
           all == G[n - 1]
<1>1. /\ todo # << >> /\ result = "running" /\ Now.do = "leave" /\ UNCHANGED result
      /\ n \in Nat \ {0} /\ Len(scopes') = n - 1
      /\ \A j \in 1 .. n - 1 : scopes'[j] = scopes[j]
      /\ f.handler \in Seq(Code) /\ rest \in Seq(All)
      /\ todo' = (IF f.do = "finally" THEN f.handler ELSE << >>) \o rest
  BY ExitShape DEF Busy
<1>2. <<"ok", Here>> \in G[n]
  <2>1. Stops(Now, Here) \subseteq Ends[<<todo, Here>>]
    BY <1>1, EndsFacts DEF Now
  <2>2. <<"ok", Here>> \in Stops(Now, Here)
    BY <1>1 DEF Stops
  <2>3. QED
    BY <2>1, <2>2
<1>3. Handles(Ends, f, rest, "ok", Here, all)
  <2>1. n \in 1 .. Len(scopes)
    BY <1>1
  <2>2. QED
    BY <1>2, <2>1 DEF Linked, Answered
<1>4. << >> \o rest = rest
  BY <1>1, ConcatEmptySeq
<1>5. todo' = IF f.do = "finally" THEN f.handler \o rest ELSE rest
  BY <1>1, <1>4
<1>6. n - 1 \in Nat /\ n - 1 <= n /\ n \in Nat /\ 0 \in 0 .. n - 1
  BY <1>1
<1> HIDE DEF f, rest, all
<1>7. Then(Ends, todo', Here', all)
  BY <1>3, <1>5, HandlesFacts
<1>8. Linked(G, scopes') /\ Transit(G, scopes')
  <2>1. Len(scopes) = n /\ \A k \in 0 .. n - 1 : G[k] = G[k]
    OBVIOUS
  <2> DEFINE m == n - 1
  <2>2. m \in Nat /\ m <= n /\ Len(scopes') = m /\ \A j \in 1 .. m : scopes'[j] = scopes[j]
    BY <1>1, <1>6
  <2> HIDE DEF n, m
  <2>3. QED
    BY <1>6, <2>1, <2>2, LinkedBelow
<1>9. Reachable(G)'
  BY <1>1, <1>7 DEF Reachable, Then, all
<1>10. Program' = Program
  BY DEF Program
<1>11. QED
  BY <1>8, <1>9, <1>10 DEF OutcomeInv

\* The loss of the worker thread: it is lost where it is, and the request fails.
LEMMA OutcomeLost ==
  ASSUME Nested(Code), Compositional(Ends), Control, UNCHANGED op,
         NEW i \in DOMAIN scopes, NEW kind \in {"failed", "cancelled"}, NEW t, LoseTo(i, kind, t),
         NEW G, G[0] = Ends[<<Program, Fresh>>], Linked(G, scopes), Transit(G, scopes),
         <<todo, Here>> \in DOMAIN Ends, Ends[<<todo, Here>>] \subseteq G[Len(scopes)]
  PROVE  OutcomeInv'
<1>1. /\ i \in 1 .. Len(scopes) /\ i - 1 \in 0 .. Len(scopes) /\ i \in 0 .. Len(scopes)
      /\ Len(scopes) \in 0 .. Len(scopes) /\ i <= Len(scopes)
  BY LenProperties DEF Control
<1>2. <<"lost", t>> \in Ends[<<todo, Here>>]
  BY EndsFacts DEF LoseTo, Busy, Now
<1>3. <<"lost", t>> \in G[i]
  BY <1>1, <1>2 DEF Transit
<1>4. Handles(Ends, scopes[i], scopes[i].rest, "lost", t, G[i - 1])
  BY <1>1, <1>3 DEF Linked, Answered
<1>5. <<kind, Here'>> \in G[i - 1]
  <2> DEFINE s == scopes[i]
             rest == s.rest
             all == G[i - 1]
  <2>1. Handles(Ends, s, rest, "lost", t, all) /\ s.do = "worker" /\ Here' = Disturbed(t)
    BY <1>4 DEF LoseTo
  <2> HIDE DEF s, rest, all
  <2>2. {"failed", "cancelled"} \X {Disturbed(t)} \subseteq all
    BY <2>1, HandlesFacts
  <2>3. <<kind, Here'>> \in all
    BY <2>1, <2>2
  <2>4. QED
    BY <2>3 DEF all
<1>6. kind \in Kinds
  BY DEF Kinds, AnyError, Failure
<1>7. Thrown(kind, i - 1)
  <2> DEFINE from == i - 1
  <2>1. from \in 0 .. Len(scopes) /\ Raise(kind, from)
    BY <1>1 DEF LoseTo
  <2> HIDE DEF from
  <2>2. Thrown(kind, from)
    BY <2>1, RaiseShape DEF Thrown
  <2>3. QED
    BY <2>2 DEF from
<1>8. result = "running"
  BY DEF LoseTo
<1>9. QED
  <2> DEFINE from == i - 1
  <2>1. from \in 0 .. Len(scopes) /\ Thrown(kind, from) /\ <<kind, Here'>> \in G[from]
    BY <1>1, <1>5, <1>7
  <2> HIDE DEF from
  <2>2. QED
    BY <1>6, <1>8, <2>1, OutcomeLands

\* Whatever a step does, the operation can still end in the ways of the table only.
LEMMA OutcomeStep ==
  ASSUME Nested(Code), Compositional(Ends), Control, WiredInv, OutcomeInv, [Next]_vars
  PROVE  OutcomeInv'
<1>1. OutcomeMoves /\ UNCHANGED op
  BY OutcomeFlow, OpFixed
<1>2. PICK G : /\ G[0] = Ends[<<Program, Fresh>>]
               /\ Linked(G, scopes) /\ Transit(G, scopes) /\ Reachable(G)
  BY DEF OutcomeInv
<1>3. result = "running" =>
        <<todo, Here>> \in DOMAIN Ends /\ Ends[<<todo, Here>>] \subseteq G[Len(scopes)]
  BY <1>2 DEF Reachable
<1>4. CASE HoldTo
  <2>1. Reachable(G)' /\ Program' = Program /\ scopes' = scopes
    <3>1. UNCHANGED <<todo, scopes, result>> /\ Here' = Here
      BY <1>4 DEF HoldTo
    <3>2. Program' = Program
      BY <1>1 DEF Program
    <3>3. \A how : Reports(how)' = Reports(how)
      BY <3>1 DEF Reports
    <3>4. Reachable(G)'
      BY <1>2, <3>1, <3>3 DEF Reachable
    <3>5. QED
      BY <3>1, <3>2, <3>4
  <2>2. QED
    BY <1>2, <2>1 DEF OutcomeInv
<1>5. CASE PassTo
  <2>1. /\ todo' = Tail(todo) /\ UNCHANGED <<scopes, result>>
        /\ todo # << >> /\ result = "running"
    BY <1>5, GoShape DEF PassTo
  <2>2. Then(Ends, Tail(todo), Here', Ends[<<todo, Here>>])
    BY <1>3, <1>5, <2>1, EndsFacts DEF PassTo, Now
  <2>3. QED
    BY <1>1, <1>2, <1>3, <2>1, <2>2, OutcomeGoes
<1>6. CASE Choose /\ Here' = Here
  <2>1. /\ todo # << >> /\ result = "running" /\ Now.do = "either"
        /\ UNCHANGED <<scopes, result>>
        /\ \E i \in DOMAIN Now.alternatives : todo' = Now.alternatives[i] \o Tail(todo)
    BY <1>6, ChooseShape DEF Busy
  <2>2. Then(Ends, todo', Here, Ends[<<todo, Here>>])
    BY <1>3, <2>1, EndsFacts DEF Now
  <2>3. QED
    BY <1>1, <1>2, <1>3, <1>6, <2>1, <2>2, OutcomeGoes
<1>7. CASE Enter /\ Here' = Here
  <2>1. result = "running"
    BY <1>7, EnterShape DEF Busy
  <2>2. QED
    BY <1>1, <1>2, <1>3, <1>7, <2>1, OutcomeEnters
<1>8. CASE ExitScope /\ Here' = Here
  <2>1. result = "running"
    BY <1>8, ExitShape DEF Busy
  <2>2. QED
    BY <1>1, <1>2, <1>3, <1>8, <2>1, OutcomeLeaves
<1>9. CASE Finish /\ Here' = Here
  <2>1. result = "running" /\ todo = << >> /\ result' = "ok" /\ UNCHANGED scopes
    BY <1>9 DEF Finish
  <2>2. Len(scopes) = 0
    BY <2>1, LenProperties DEF Control, Fits, Ended
  <2>3. <<"ok", Here>> \in G[0]
    BY <1>3, <2>1, <2>2, EndsFacts
  <2>4. Reachable(G)'
    <3>1. Reports("ok")'
      BY <2>1 DEF Reports
    <3>2. QED
      BY <1>9, <2>1, <2>3, <3>1 DEF Reachable
  <2>5. Program' = Program
    BY <1>1 DEF Program
  <2>6. QED
    BY <1>2, <2>1, <2>4, <2>5 DEF OutcomeInv
<1>10. ASSUME NEW kind \in Kinds, ThrowTo(kind) PROVE OutcomeInv'
  <2>1. /\ todo # << >> /\ result = "running" /\ Raise(kind, Len(scopes))
        /\ <<kind, Here'>> \in Stops(Now, Here)
    BY <1>10 DEF ThrowTo, Busy
  <2>2. <<kind, Here'>> \in G[Len(scopes)]
    <3>1. Stops(Now, Here) \subseteq Ends[<<todo, Here>>]
      BY <1>3, <2>1, EndsFacts DEF Now
    <3>2. QED
      BY <1>3, <2>1, <3>1
  <2>3. Len(scopes) \in 0 .. Len(scopes)
    BY LenProperties DEF Control
  <2>4. Thrown(kind, Len(scopes))
    BY <2>1, <2>3, RaiseShape DEF Thrown
  <2>5. QED
    BY <1>1, <1>2, <2>1, <2>2, <2>3, <2>4, OutcomeLands
<1>11. ASSUME NEW i \in DOMAIN scopes, NEW kind \in {"failed", "cancelled"}, NEW t, LoseTo(i, kind, t)
       PROVE  OutcomeInv'
  <2>1. result = "running"
    BY <1>11 DEF LoseTo
  <2>2. QED
    BY <1>1, <1>2, <1>3, <1>11, <2>1, OutcomeLost
<1>12. QED
  BY <1>1, <1>4, <1>5, <1>6, <1>7, <1>8, <1>9, <1>10, <1>11 DEF OutcomeMoves

\* The table covers the operations, and an operation ends as it says.
Tabled == Compositional(Ends) /\ \A p \in DOMAIN Programs : <<Programs[p].steps, Fresh>> \in DOMAIN Ends
EndsOf(p) == Ends[<<Programs[p].steps, Fresh>>]
Tells == Over => \E how \in Kinds \cup {"ok"} : Reports(how) /\ <<how, Here>> \in EndsOf(op)

\* Every operation of Pipeline ends as the table says of its steps.
LEMMA OutcomesAreTabled ==
  ASSUME OfCode, Tabled
  PROVE  Spec => [](op \in DOMAIN Programs /\ Tells)
<1> DEFINE Inv == Control /\ WiredInv /\ OutcomeInv /\ op \in DOMAIN Programs
<1>1. Init => Inv
  <2> SUFFICES ASSUME Init PROVE Inv
    OBVIOUS
  <2>1. /\ todo = Program /\ scopes = << >> /\ child = "none" /\ result = "running"
        /\ op \in DOMAIN Programs
    BY DEF Init, Program
  <2>2. Here = Fresh
    BY DEF Init, Here, Fresh, Output, Undisturbed
  <2>3. PICK G : G = [k \in {0} |-> Ends[<<Program, Fresh>>]]
    OBVIOUS
  <2>4. G[0] = Ends[<<Program, Fresh>>]
    BY <2>3
  <2>5. Len(scopes) = 0
    BY <2>1
  <2>6. Linked(G, scopes)
    BY <2>5 DEF Linked
  <2>7. Transit(G, scopes)
    <3>1. \A k \in 0 .. 0, j \in 0 .. 0 : k = j
      OBVIOUS
    <3>2. QED
      BY <2>5, <3>1 DEF Transit
  <2>8. Reachable(G)
    BY <2>1, <2>2, <2>4, <2>5 DEF Reachable, Tabled, Program
  <2>9. OutcomeInv
    BY <2>4, <2>6, <2>7, <2>8 DEF OutcomeInv
  <2>10. QED
    BY <2>1, <2>9, ControlInit DEF WiredInv
<1>2. Inv /\ [Next]_vars => Inv'
  <2> SUFFICES ASSUME Inv, [Next]_vars PROVE Inv'
    OBVIOUS
  <2>1. Control' /\ WiredInv' /\ OutcomeInv'
    BY ControlStep, WiredStep, OutcomeStep DEF OfCode, Tabled
  <2>2. UNCHANGED op
    BY OpFixed
  <2>3. QED
    BY <2>1, <2>2
<1>3. Inv => op \in DOMAIN Programs /\ Tells
  <2>1. OutcomeInv => Tells
    BY DEF OutcomeInv, Tells, Reachable, Over, EndsOf, Program
  <2>2. QED
    BY <2>1
<1>4. QED
  BY <1>1, <1>2, <1>3, PTL DEF Spec

\* An operation that reports success has written all of its output, in every program that
\* can end with success in no other way.
THEOREM SuccessMeansWhole ==
  ASSUME OfCode, Tabled, \A p \in DOMAIN Programs : "delivers" \in Programs[p].promises => Whole(EndsOf(p))
  PROVE  Spec => []OkMeansWhole
<1>1. op \in DOMAIN Programs /\ Tells => OkMeansWhole
  <2> SUFFICES ASSUME op \in DOMAIN Programs, Tells, result = "ok", Promised("delivers")
               PROVE  out = "new"
    BY DEF OkMeansWhole
  <2>1. <<"ok", Here>> \in EndsOf(op)
    BY DEF Tells, Over, Reports
  <2>2. Here.out = "new"
    BY <2>1 DEF Promised, Whole
  <2>3. QED
    BY <2>2, WriteHere
<1>2. QED
  BY <1>1, OutcomesAreTabled, PTL

\* A modification or conversion that fails or is cancelled leaves the archive as it was, in
\* every program that cannot fail or be cancelled with anything else, unless a process
\* was given up or the thread was lost.
THEOREM FailureKeepsTheArchive ==
  ASSUME OfCode, Tabled,
         \A p \in DOMAIN Programs :
           /\ {"keeps", "keepsIfFailed"} \cap Programs[p].promises # {} => KeptIfFailed(EndsOf(p))
           /\ "keeps" \in Programs[p].promises => KeptIfCancelled(EndsOf(p))
  PROVE  Spec => []FailedKeepsArchive
<1>1. op \in DOMAIN Programs /\ Tells => FailedKeepsArchive
  <2> SUFFICES ASSUME op \in DOMAIN Programs, Tells, Undisturbed,
                      \/ result = "failed" /\ (Promised("keeps") \/ Promised("keepsIfFailed"))
                      \/ result = "cancelled" /\ Promised("keeps")
               PROVE  out = "old"
    BY DEF FailedKeepsArchive
  <2>1. PICK how \in Kinds \cup {"ok"} : Reports(how) /\ <<how, Here>> \in EndsOf(op)
    BY DEF Tells, Over
  <2>2. Here.calm /\ Here.out = out
    BY WriteHere
  <2>3. CASE result = "failed"
    <3>1. how \in Kinds \ {"cancelled"}
      BY <2>1, <2>3 DEF Reports
    <3>2. how \notin {"ok", "lost", "cancelled"}
      BY <3>1 DEF Kinds, AnyError, Failure
    <3>3. KeptIfFailed(EndsOf(op))
      BY <2>3 DEF Promised
    <3>4. QED
      BY <2>1, <2>2, <3>2, <3>3 DEF KeptIfFailed
  <2>4. CASE result = "cancelled"
    <3>1. how = "cancelled"
      BY <2>1, <2>4 DEF Reports
    <3>2. KeptIfCancelled(EndsOf(op))
      BY <2>4 DEF Promised
    <3>3. QED
      BY <2>1, <2>2, <3>1, <3>2 DEF KeptIfCancelled
  <2>5. QED
    BY <2>3, <2>4
<1>2. QED
  BY <1>1, OutcomesAreTabled, PTL

\* No part of an archive stays behind, in every program that ends with none.
THEOREM NoPartStaysBehind ==
  ASSUME OfCode, Tabled, \A p \in DOMAIN Programs : "tidies" \in Programs[p].promises => NeverTorn(EndsOf(p))
  PROVE  Spec => []NoPartialOutput
<1>1. op \in DOMAIN Programs /\ Tells => NoPartialOutput
  <2> SUFFICES ASSUME op \in DOMAIN Programs, Tells, Over, Promised("tidies")
               PROVE  out # "torn"
    BY DEF NoPartialOutput
  <2>1. PICK how \in Kinds \cup {"ok"} : <<how, Here>> \in EndsOf(op)
    BY DEF Tells
  <2>2. how # "lost"
    BY DEF Kinds, AnyError, Failure
  <2>3. Here.out # "torn"
    BY <2>1, <2>2 DEF Promised, NeverTorn
  <2>4. QED
    BY <2>3, WriteHere
<1>2. QED
  BY <1>1, OutcomesAreTabled, PTL

=============================================================================
