---------------------------- MODULE Conventions ----------------------------
(***************************************************************************)
(* What the code of the operations keeps to, as conditions on programs of  *)
(* Steps.  PipelineProofs shows that a program that keeps to a convention, *)
(* however long, and however often its loops turn, has the property the    *)
(* convention is for.  MCWizard has TLC evaluate the conditions on the     *)
(* operations of the extension.                                            *)
(***************************************************************************)
EXTENDS Steps, Naturals

Blocks == {"finally", "catch", "worker"}
\* What is thrown: errors, and the null of a native codec that declines.
Kinds == AnyError \cup {"null"}
Cleanups == {"drop", "dropAfter", "unstage", "remove"}

\* The steps of some programs, with all the steps nested in them.
Nested(Code) ==
  \A s \in Code :
    /\ s.do # "leave"
    /\ s.do = "either" =>
         \A i \in DOMAIN s.alternatives : s.alternatives[i] \in Seq(Code)
    /\ s.do \in Blocks => s.body \in Seq(Code) /\ s.handler \in Seq(Code)
    /\ s.do \in Blocks => s.kinds \subseteq Kinds
    /\ s.do = "worker" => s.kinds = {} /\ s.handler = << >>
    /\ s.do = "throw" => \E kind \in Kinds : s = Throw(kind)
    /\ s.do = "child" => s.writes \in {"none", "create", "replace"}

\* Steps that can neither fail nor be cancelled, as finally blocks are written.
CleansUp(q) == \A i \in DOMAIN q : q[i].do \in Cleanups

----------------------------------------------------------------------------
\* Cancellation: a catch block that takes it cleans up and throws it again.

Rethrows(q, kind) ==
  \E n \in DOMAIN q : q[n] = Throw(kind) /\ \A i \in 1 .. n - 1 : q[i].do \in Cleanups
PassesCancellation(Code) ==
  \A s \in Code :
    /\ s.do = "finally" => CleansUp(s.handler)
    /\ s.do = "catch" /\ "cancelled" \in s.kinds => Rethrows(s.handler, "cancelled")

----------------------------------------------------------------------------
\* Temporary files and staged copies: each is made inside, or right in front of,
\* a try block whose finally block removes it.  A step stands in a context: the
\* names the finally blocks around it remove, whether one of them, outside the
\* worker thread, removes the staged copy, and whether it runs on that thread.

DroppedBy(h) ==
  {h[i].dir : i \in {j \in DOMAIN h : h[j].do \in {"drop", "dropAfter"}}}
    \cup {h[i].file : i \in {j \in DOMAIN h : h[j].do = "dropAfter"}}
Unstages(h) == \E i \in DOMAIN h : h[i].do = "unstage"

Outermost == [temps |-> {}, unstaged |-> FALSE, thread |-> FALSE]
Guarded(c, h) ==
  [temps |-> c.temps \cup DroppedBy(h), unstaged |-> c.unstaged \/ (~c.thread /\ Unstages(h)),
   thread |-> c.thread]
OnThread(c) == [temps |-> c.temps, unstaged |-> c.unstaged, thread |-> TRUE]

\* A finally block is entered at once: try/finally, or try/catch/finally.
Drops(s, d) == s.do = "finally" /\ d \in DroppedBy(s.handler)
Clears(s) == s.do = "finally" /\ Unstages(s.handler)
Kept(q, i, c) ==
  /\ q[i].do = "temp" =>
       \/ q[i].dir \in c.temps
       \/ /\ i + 1 \in DOMAIN q
          /\ \/ Drops(q[i + 1], q[i].dir)
             \/ /\ q[i + 1].do = "catch" /\ q[i + 1].body # << >>
                /\ Drops(q[i + 1].body[1], q[i].dir)
  /\ q[i].do = "stage" =>
       c.unstaged \/ (~c.thread /\ i + 1 \in DOMAIN q /\ Clears(q[i + 1]))

\* Tidy is a set of steps with the context each stands in.
TidyIn(q, c, Tidy) == \A i \in DOMAIN q : <<q[i], c>> \in Tidy /\ Kept(q, i, c)
TidiesUp(Tidy) ==
  \A x \in Tidy :
    LET s == x[1]
        c == x[2]
    IN /\ s.do = "either" => \A i \in DOMAIN s.alternatives : TidyIn(s.alternatives[i], c, Tidy)
       /\ s.do = "finally" => CleansUp(s.handler) /\ TidyIn(s.body, Guarded(c, s.handler), Tidy)
       /\ s.do = "catch" => TidyIn(s.body, c, Tidy) /\ TidyIn(s.handler, c, Tidy)
       /\ s.do = "worker" => TidyIn(s.body, OnThread(c), Tidy)

----------------------------------------------------------------------------
\* The file system of the 7-Zip instance: what is read has been put there or made
\* since the last reset, and behind a try block nothing counts as put.  Known is
\* a set of programs, each with files that are there when it begins.

KnowsFiles(Known) ==
  \A x \in Known :
    LET s == Head(x[1])
        rest == Tail(x[1])
        files == x[2]
    IN x[1] # << >> =>
         CASE s.do = "reset" -> <<rest, {}>> \in Known
           [] s.do = "put" -> <<rest, files \cup {s.file}>> \in Known
           [] s.do = "get" -> s.file \in files /\ <<rest, files>> \in Known
           [] s.do = "main" -> s.reads \subseteq files /\ <<rest, files \cup s.makes>> \in Known
           [] s.do = "either" ->
                \A i \in DOMAIN s.alternatives : <<s.alternatives[i] \o rest, files>> \in Known
           [] s.do = "finally" ->
                /\ CleansUp(s.handler)
                /\ <<s.body \o << Leave >>, files>> \in Known
                /\ <<s.handler \o rest, {}>> \in Known
           [] s.do = "catch" ->
                /\ <<s.body \o << Leave >>, files>> \in Known
                /\ <<s.handler \o rest, {}>> \in Known
                /\ <<rest, {}>> \in Known
           [] s.do = "worker" ->
                /\ <<s.body \o << Leave >>, files>> \in Known
                /\ <<rest, {}>> \in Known
           [] s.do \in {"throw", "leave"} -> TRUE
           [] OTHER -> <<rest, files>> \in Known
=============================================================================
