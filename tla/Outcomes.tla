------------------------------ MODULE Outcomes ------------------------------
(***************************************************************************)
(* How a program of Steps can end, and what its output is then, read off   *)
(* the text of the program, block by block.  Ends gives for a text and the *)
(* state of the output it begins with the pairs of an ending and a state:  *)
(* "ok", a kind of error, or "lost", the state in which the worker thread  *)
(* around it can be lost.  PipelineProofs shows that an operation of       *)
(* Pipeline ends in no other way, whatever table is Compositional;         *)
(* MCOperations computes one for the operations of the extension, and      *)
(* MCWizard has TLC evaluate on it that it is, and what they promise.      *)
(***************************************************************************)
EXTENDS Steps, Naturals

\* The output, the copy being written elsewhere, and whether nothing was given up
\* or lost on the way (Undisturbed in Pipeline).
Output(out, staged, calm) == [out |-> out, staged |-> staged, calm |-> calm]
Fresh == Output("old", "none", TRUE)
Put1(t, v) == IF t.staged = "none" THEN Output(v, t.staged, t.calm) ELSE Output(t.out, v, t.calm)
Disturbed(t) == Output(t.out, t.staged, FALSE)

\* What is left of the output of a child that exits with the code, or of one
\* that is killed or given up.
Exited(s, t, code) ==
  CASE s.writes = "none" -> t
    [] s.writes = "create" -> Put1(t, IF code = 0 THEN "new" ELSE "torn")
    [] s.writes = "replace" -> IF code = 0 THEN Put1(t, "new") ELSE t
Cut(s, t) == IF s.writes = "create" THEN Put1(t, "torn") ELSE t
Bound(s, t, v) == IF s.writes THEN Put1(t, v) ELSE t

\* Where a step can leave the output when the program goes on behind it, and how
\* it can end the program.  Blocks and branches come below.
GoesOn(s, t) ==
  CASE s.do \in {"check", "poll", "reset", "put", "get", "main", "temp", "drop", "dropAfter"} -> {t}
    [] s.do \in {"write", "tree", "replace"} -> {Put1(t, "new")}
    [] s.do = "remove" -> {Put1(t, IF t.staged = "none" THEN "gone" ELSE "empty")}
    [] s.do = "stage" -> {Output(t.out, "empty", t.calm)}
    [] s.do = "publish" -> {Output(t.staged, "none", t.calm)}
    [] s.do = "unstage" -> {Output(t.out, "none", t.calm)}
    [] s.do = "child" -> {Exited(s, t, code) : code \in IF s.strict THEN {0} ELSE {0, 2}}
    [] s.do = "binding" -> {Bound(s, t, "new")}
    [] OTHER -> {}
Stops(s, t) ==
  CASE s.do \in {"check", "reset", "put", "get", "main", "temp", "replace", "publish"} ->
         {<<"failed", t>>}
    [] s.do = "poll" -> {<<"cancelled", t>>}
    [] s.do = "throw" -> {<<s.kind, t>>}
    [] s.do = "write" -> {<<"failed", Put1(t, "torn")>>, <<"lost", Put1(t, "torn")>>}
    [] s.do = "tree" -> {"failed", "cancelled", "lost"} \X {Put1(t, "torn")}
    [] s.do = "child" ->
         {<<"failed", t>>} \cup
         (IF s.strict THEN {<<"failed", Exited(s, t, 2)>>} ELSE {}) \cup
         (IF s.timed THEN {<<"failed", Disturbed(Cut(s, t))>>} ELSE {}) \cup
         (IF s.wired THEN {"cancelled"} \X {Exited(s, t, 0), Exited(s, t, 2), Cut(s, t)} ELSE {})
    [] s.do = "binding" ->
         {<<"failed", Bound(s, t, "torn")>>} \cup
         (IF s.wired THEN {<<"cancelled", Bound(s, t, "torn")>>} ELSE {})
    [] s.do = "leave" -> {<<"ok", t>>}
    [] OTHER -> {}

\* Each ending of a block leads on to the texts that run behind it, or is passed
\* on; a lost thread fails or cancels the request.
Then(Ends, q, t, all) == <<q, t>> \in DOMAIN Ends /\ Ends[<<q, t>>] \subseteq all
Handles(Ends, s, rest, how, t, all) ==
  CASE how = "ok" ->
         Then(Ends, IF s.do = "finally" THEN s.handler \o rest ELSE rest, t, all)
    [] how = "lost" ->
         /\ <<how, t>> \in all
         /\ s.do = "worker" => {"failed", "cancelled"} \X {Disturbed(t)} \subseteq all
    [] OTHER ->
         CASE s.do = "finally" -> Then(Ends, s.handler \o << Throw(how) >>, t, all)
           [] s.do # "finally" /\ how \in s.kinds -> Then(Ends, s.handler \o rest, t, all)
           [] OTHER -> <<how, t>> \in all

Compositional(Ends) ==
  \A x \in DOMAIN Ends :
    LET q == x[1]
        t == x[2]
        s == Head(q)
        rest == Tail(q)
    IN /\ <<"lost", t>> \in Ends[x]
       /\ q = << >> => <<"ok", t>> \in Ends[x]
       /\ q # << >> =>
            /\ \A u \in GoesOn(s, t) : Then(Ends, rest, u, Ends[x])
            /\ Stops(s, t) \subseteq Ends[x]
            /\ s.do = "either" =>
                 \A i \in DOMAIN s.alternatives : Then(Ends, s.alternatives[i] \o rest, t, Ends[x])
            /\ s.do \in {"finally", "catch", "worker"} =>
                 /\ <<s.body \o << Leave >>, t>> \in DOMAIN Ends
                 /\ \A e \in Ends[<<s.body \o << Leave >>, t>>] :
                      Handles(Ends, s, rest, e[1], e[2], Ends[x])

\* What an operation promises of its output, of the pairs it can end with.
Whole(E) == \A e \in E : e[1] = "ok" => e[2].out = "new"
KeptIfFailed(E) ==
  \A e \in E : e[1] \notin {"ok", "lost", "cancelled"} /\ e[2].calm => e[2].out = "old"
KeptIfCancelled(E) == \A e \in E : e[1] = "cancelled" /\ e[2].calm => e[2].out = "old"
NeverTorn(E) == \A e \in E : e[1] # "lost" => e[2].out # "torn"
=============================================================================
