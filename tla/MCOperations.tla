---------------------------- MODULE MCOperations ----------------------------
(***************************************************************************)
(* The sets and the table that the theorems of PipelineProofs ask for,     *)
(* computed for the operations of the extension: its steps, its texts with *)
(* the contexts and files they run with, and the endings of every text.    *)
(* For TLC only: MCWizard has it evaluate the conditions on them.          *)
(***************************************************************************)
EXTENDS Operations, Conventions, Outcomes, TLC

SeqRange(q) == {q[i] : i \in DOMAIN q}
Texts == {AllOps[p].steps : p \in DOMAIN AllOps}

\* The texts in a step, and all the steps of some texts.
Inner(s) == IF s.do = "either" THEN SeqRange(s.alternatives)
            ELSE IF s.do \in Blocks THEN {s.body, s.handler} ELSE {}
RECURSIVE CodeOf(_)
CodeOf(texts) ==
  IF texts = {} THEN {}
  ELSE LET now == UNION {SeqRange(q) : q \in texts}
       IN now \cup CodeOf(UNION {Inner(s) : s \in now})
Code == CodeOf(Texts)

\* Each step with its context.
RECURSIVE TidyOf(_, _)
TidyOf(q, c) ==
  UNION {{<<q[i], c>>} \cup
         (CASE q[i].do = "either" -> UNION {TidyOf(a, c) : a \in SeqRange(q[i].alternatives)}
            [] q[i].do = "finally" -> TidyOf(q[i].body, Guarded(c, q[i].handler))
            [] q[i].do = "catch" -> TidyOf(q[i].body, c) \cup TidyOf(q[i].handler, c)
            [] q[i].do = "worker" -> TidyOf(q[i].body, OnThread(c))
            [] OTHER -> {}) : i \in DOMAIN q}
Tidy == UNION {TidyOf(q, Outermost) : q \in Texts}

\* Each text that is left to run, with the files that are there.
KnownNext(x) ==
  LET s == Head(x[1])
      rest == Tail(x[1])
      files == x[2]
      behind == {<<s.body \o << Leave >>, files>>, <<rest, {}>>}
  IN IF x[1] = << >> THEN {}
     ELSE CASE s.do = "reset" -> {<<rest, {}>>}
            [] s.do = "put" -> {<<rest, files \cup {s.file}>>}
            [] s.do = "main" -> {<<rest, files \cup s.makes>>}
            [] s.do = "either" -> {<<a \o rest, files>> : a \in SeqRange(s.alternatives)}
            [] s.do \in Blocks -> behind \cup {<<s.handler \o rest, {}>>}
            [] s.do \in {"throw", "leave"} -> {}
            [] OTHER -> {<<rest, files>>}
RECURSIVE KnownOf(_, _)
KnownOf(new, all) ==
  IF new = {} THEN all
  ELSE KnownOf(UNION {KnownNext(x) : x \in new} \ (all \cup new), all \cup new)
CopyingOut == {p \in DOMAIN AllOps : "copiesOut" \in AllOps[p].promises}
Known == KnownOf({<<AllOps[p].steps, {}>> : p \in CopyingOut}, {})

----------------------------------------------------------------------------
\* The table of endings.

\* What a block does behind an ending of its body: the text it goes on with, or
\* the endings it passes on.
After(s, rest, how, t) ==
  IF how = "ok" THEN {<<IF s.do = "finally" THEN s.handler \o rest ELSE rest, t>>}
  ELSE IF how = "lost" THEN {}
  ELSE IF s.do = "finally" THEN {<<s.handler \o << Throw(how) >>, t>>}
  ELSE IF how \in s.kinds THEN {<<s.handler \o rest, t>>} ELSE {}
Passed(s, how, t) ==
  IF how = "lost"
  THEN {<<how, t>>} \cup (IF s.do = "worker" THEN {"failed", "cancelled"} \X {Disturbed(t)} ELSE {})
  ELSE IF how # "ok" /\ s.do # "finally" /\ how \notin s.kinds THEN {<<how, t>>} ELSE {}

\* The points a point goes on to, and the endings it has itself, once the endings
\* of the body it begins with are in the table T.
Inside(T, x) ==
  IF x[1] # << >> /\ Head(x[1]).do \in Blocks
  THEN T[<<Head(x[1]).body \o << Leave >>, x[2]>>] ELSE {}
Parts(T, x) ==
  LET s == Head(x[1])
      rest == Tail(x[1])
  IN IF x[1] = << >> THEN {}
     ELSE {<<rest, u>> : u \in GoesOn(s, x[2])} \cup
          (IF s.do = "either" THEN {<<a \o rest, x[2]>> : a \in SeqRange(s.alternatives)} ELSE {}) \cup
          UNION {After(s, rest, e[1], e[2]) : e \in Inside(T, x)}
Own(T, x) ==
  {<<"lost", x[2]>>} \cup
  (IF x[1] = << >> THEN {<<"ok", x[2]>>}
   ELSE Stops(Head(x[1]), x[2]) \cup UNION {Passed(Head(x[1]), e[1], e[2]) : e \in Inside(T, x)})

\* Depth first, with the table so far.
RECURSIVE Solve(_, _), SolveAll(_, _)
SolveAll(T, S) ==
  IF S = {} THEN T
  ELSE LET x == CHOOSE x \in S : TRUE IN SolveAll(Solve(T, x), S \ {x})
Solve(T, x) ==
  IF x \in DOMAIN T THEN T
  ELSE LET T1 == IF x[1] # << >> /\ Head(x[1]).do \in Blocks
                 THEN Solve(T, <<Head(x[1]).body \o << Leave >>, x[2]>>) ELSE T
           parts == Parts(T1, x)
           T2 == SolveAll(T1, parts)
       IN T2 @@ (x :> (Own(T2, x) \cup UNION {T2[y] : y \in parts}))

Tables == {Solve(<< >>, <<q, Fresh>>) : q \in Texts}
Ends == [x \in UNION {DOMAIN T : T \in Tables} |-> UNION {T[x] : T \in {T \in Tables : x \in DOMAIN T}}]
EndsOf(p) == Ends[<<AllOps[p].steps, Fresh>>]
=============================================================================
