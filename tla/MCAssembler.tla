----------------------------- MODULE MCAssembler ----------------------------
(***************************************************************************)
(* Programs for Assembler, and what they should assemble to.  A program is *)
(* a tree (a sequence of nodes), from which the lines are written out; its *)
(* meaning is defined on the tree, in one walk.                            *)
(***************************************************************************)
EXTENDS Assembler

(* Nodes: <<op, name, arg>> for a line, or <<"if", test, then, else>>,     *)
(* <<"repeat", count, body>>, <<"macro", name, body>>, <<"include", body>>, *)
(* and <<"open", op>> for a directive whose end is missing.                *)
Ln(op, name, arg) == <<[op |-> op, name |-> name, arg |-> arg]>>
Zero == <<"num", 0>>

RECURSIVE Text(_)
Text(tree) ==
  IF tree = <<>> THEN <<>> ELSE
  LET n == Head(tree) IN
  (CASE n[1] = "if" -> Ln("if", "", n[2]) \o Text(n[3])
                       \o (IF n[4] = <<>> THEN <<>> ELSE Ln("else", "", Zero) \o Text(n[4]))
                       \o Ln("endif", "", Zero)
     [] n[1] = "repeat" -> Ln("repeat", "", n[2]) \o Text(n[3]) \o Ln("endr", "", Zero)
     [] n[1] = "macro"  -> Ln("macro", n[2], Zero) \o Text(n[3]) \o Ln("endm", "", Zero)
     [] n[1] = "include" -> Ln("include", "", Text(n[2]))
     [] n[1] = "open"    -> Ln(n[2], "m", Zero)
     [] OTHER -> Ln(n[1], n[2], n[3])) \o Text(Tail(tree))

-----------------------------------------------------------------------------
(* The meaning: a list of events, in the order of the text as expanded.    *)
(* An event defines a symbol or is a unit of code; a symbol is its name    *)
(* and, for a local one, its scope: the expansion it is in, or the number  *)
(* of global definitions before it.  Kept beside the events:               *)
(*   depth     the IFs around the place, in: whether it is repeated or in  *)
(*             a macro                                                     *)
(*   asserted  whether a macro or a repeat ended within an IF around it    *)
(*   open      whether a macro or a repeat left an IF to what follows it   *)
(*   tests     the functions asked, of what, and after how many events     *)
Start == [ok |-> TRUE, left |-> FALSE, pos |-> -1, events |-> <<>>, scope |-> <<>>, calls |-> 0,
          bodies |-> <<>>, depth |-> 0, in |-> FALSE, asserted |-> FALSE, open |-> FALSE,
          tests |-> <<>>]

Globals(r) == Len(SelectSeq(r.events, LAMBDA e : e.kind # "code" /\ e.sym[1] \notin LocalNames))
Sym(r, x) == <<x, IF x \notin LocalNames THEN <<>>
                  ELSE IF r.scope = <<>> THEN <<0, Globals(r)>> ELSE r.scope>>

DefsOf(events, s) == {i \in DOMAIN events : events[i].kind # "code" /\ events[i].sym = s}
Latest(events, s) == Max(DefsOf(events, s))

(* The value of an expression [const, sym], by what was defined before it. *)
Known(events, e) ==
  IF e.sym = <<>> THEN <<e.const>>
  ELSE IF DefsOf(events, e.sym) = {} THEN <<>>
  ELSE LET v == events[Latest(events, e.sym)].val
       IN  IF v = <<>> THEN <<>> ELSE <<v[1] + e.const>>

Flag(b) == [const |-> IF b THEN 1 ELSE 0, sym |-> <<>>]
Expr(r, e) ==
  CASE e[1] = "num"  -> [const |-> e[2], sym |-> <<>>]
    [] e[1] = "sym"  -> [const |-> 0, sym |-> Sym(r, e[2])]
    [] e[1] = "next" -> [const |-> 1, sym |-> Sym(r, e[2])]
    [] e[1] \in {"def", "passdef"} -> Flag(DefsOf(r.events, Sym(r, e[2])) # {})
    [] e[1] = "new"    -> Flag(DefsOf(r.events, Sym(r, e[2])) = {})
    [] e[1] = "wanted" -> Flag(/\ DefsOf(r.events, Sym(r, e[2])) = {}
                               /\ \E i \in DOMAIN r.events : r.events[i].expr.sym = Sym(r, e[2]))

Event(r, kind, sym, e) ==
  [r EXCEPT !.events = Append(@, [kind |-> kind, sym |-> sym, expr |-> e, calls |-> r.calls,
                                  val |-> Known(r.events, e), pos |-> r.pos])]
Bad(r) == [r EXCEPT !.ok = FALSE]

(* What a node asks, if anything: of a local label it may not.             *)
Operand(n) ==
  CASE n[1] \in {"if", "repeat"} -> n[2]
    [] n[1] \in {"equ", "set", "code", "ds"} -> n[3]
    [] OTHER -> Zero
Ask(r, e) ==
  IF e[1] \in {"num", "sym", "next"} THEN r
  ELSE IF e[2] \in LocalNames THEN Bad(r)
  ELSE [r EXCEPT !.tests = Append(@, [f |-> e[1], sym |-> Sym(r, e[2]), at |-> Len(r.events)])]

(* The end m of a macro or a repeat that began at r                        *)
Closed(r, m) == [m EXCEPT !.depth = r.depth, !.in = r.in,
                          !.asserted = @ \/ (m.depth = r.depth /\ r.depth > 0)]

RECURSIVE Meaning(_, _)
RECURSIVE Times(_, _, _)
Times(body, n, r) == IF n = 0 THEN r ELSE Times(body, n - 1, Meaning(body, r))

(* An IF without end among these nodes, assembled or skipped               *)
Strays(tree) == \E i \in DOMAIN tree : tree[i][1] = "open" /\ tree[i][2] = "if"

(* left: an EXITM was met, and the rest of the macro does not count.       *)
Effect(n, r) ==
  CASE n[1] = "org"   -> [r EXCEPT !.pos = n[3][2]]
    [] n[1] = "label" -> IF r.pos = -1 THEN Bad(r)
                         ELSE Event(r, "const", Sym(r, n[2]), [const |-> r.pos, sym |-> <<>>])
    [] n[1] = "equ"   -> Event(r, "const", Sym(r, n[2]), Expr(r, n[3]))
    [] n[1] = "set"   -> Event(r, "var", Sym(r, n[2]), Expr(r, n[3]))
    [] n[1] = "code"  -> IF r.pos = -1 THEN Bad(r)
                         ELSE [Event(r, "code", <<>>, Expr(r, n[3])) EXCEPT !.pos = @ + 1]
    [] n[1] = "ds"    -> LET v == Known(r.events, Expr(r, n[3]))
                         IN  IF v = <<>> \/ r.pos = -1 THEN Bad(r) ELSE [r EXCEPT !.pos = @ + v[1]]
    [] n[1] = "if"    -> LET v == Known(r.events, Expr(r, n[2]))
                             m == Meaning(IF v # <<0>> THEN n[3] ELSE n[4], [r EXCEPT !.depth = @ + 1])
                         IN  IF r.in /\ (Strays(n[3]) \/ Strays(n[4])) THEN [r EXCEPT !.open = TRUE]
                             ELSE IF v = <<>> THEN Bad(r)
                             ELSE IF m.left THEN m ELSE [m EXCEPT !.depth = @ - 1]
    [] n[1] = "repeat" -> LET v == Known(r.events, Expr(r, n[2]))
                          IN  IF v = <<>> THEN Bad(r)
                              ELSE Closed(r, Times(n[3], v[1], [r EXCEPT !.in = TRUE]))
    [] n[1] = "include" -> IF r.scope = <<>> THEN Meaning(n[2], r) ELSE Bad(r)
    [] n[1] = "macro" -> IF n[2] \in DOMAIN r.bodies \/ \E i \in DOMAIN n[3] : n[3][i][1] = "macro"
                           THEN Bad(r)
                         ELSE [r EXCEPT !.bodies = (n[2] :> n[3]) @@ @]
    [] n[1] = "call"  -> IF n[2] \notin DOMAIN r.bodies THEN Bad(r)
                         ELSE LET m == Meaning(r.bodies[n[2]], [r EXCEPT !.scope = <<1, r.calls>>,
                                                                         !.calls = @ + 1, !.in = TRUE])
                              IN  [Closed(r, m) EXCEPT !.scope = r.scope, !.left = FALSE]
    [] n[1] = "end"   -> [r EXCEPT !.left = TRUE]
    [] n[1] = "open"  -> IF n[2] = "repeat" \/ (n[2] = "if" /\ r.in) THEN [r EXCEPT !.open = TRUE]
                         ELSE Bad(r)
    [] n[1] \in {"else", "endif"} -> IF r.in /\ r.depth > 0 THEN [r EXCEPT !.open = TRUE] ELSE Bad(r)
    [] n[1] \in {"endm", "endr"} -> Bad(r)
    [] n[1] = "exitm" -> IF r.scope = <<>> THEN Bad(r) ELSE [r EXCEPT !.left = TRUE]

Node(n, r) == LET q == Ask(r, Operand(n)) IN IF q.ok THEN Effect(n, q) ELSE q

Meaning(tree, r) ==
  IF tree = <<>> \/ ~r.ok \/ r.left THEN r ELSE Meaning(Tail(tree), Node(Head(tree), r))

(* Once all is defined: a forward reference is to the value the whole text *)
(* gives a symbol, if that itself needed no forward reference.             *)
RECURSIVE Final(_, _)
Final(events, i) ==
  LET e    == events[i].expr
      defs == {j \in DefsOf(events, e.sym) : j < i}
  IN  IF e.sym = <<>> THEN <<e.const>>
      ELSE LET v == IF defs # {} THEN Final(events, Max(defs))
                    ELSE IF DefsOf(events, e.sym) = {} THEN <<>>
                    ELSE events[Latest(events, e.sym)].val
           IN  IF v = <<>> THEN <<>> ELSE <<v[1] + e.const>>

Resolved(events) == \A i \in DOMAIN events : Final(events, i) # <<>>

(* Pairs of definitions of one symbol, not both variables                  *)
Redefinitions(events) ==
  {p \in (DOMAIN events) \X (DOMAIN events) :
     /\ p[1] < p[2] /\ events[p[1]].sym = events[p[2]].sym
     /\ events[p[1]].kind # "code" /\ events[p[2]].kind # "code"
     /\ ~(events[p[1]].kind = "var" /\ events[p[2]].kind = "var")}

(* What the code is known to do otherwise.  The labels of a macro are      *)
(* those of the last call made (macro_local_area is not put back), so that *)
(* after a call its own are lost, or mixed up with those of the macro that *)
(* it called.                                                              *)
Own(e) == {s \in {e.sym, e.expr.sym} \ {<<>>} : s[2] # <<>> /\ s[2][1] = 1}
Lost(events) ==
  \E i, j \in DOMAIN events : \E s \in Own(events[i]), t \in Own(events[j]) :
     s[1] = t[1] /\ (s = t) # (events[i].calls = events[j].calls)

(* The answers to a test by the text before it, in the first pass (what    *)
(* has no value yet is not defined) and in the second (all that the first  *)
(* pass defined or referred to is there, a variable is never checked).     *)
Answers(events, t) ==
  LET before   == {i \in DefsOf(events, t.sym) : i <= t.at}
      consts   == {i \in before : events[i].kind = "const"}
      Valued(D) == D # {} /\ events[Max(D)].val # <<>>
      Met(n)   == before # {} \/ \E i \in 1 .. n : t.sym \in {events[i].sym, events[i].expr.sym}
      all      == Len(events)
  IN  CASE t.f = "def" -> {before # {}, Valued(before), before # {} \/ Valued(DefsOf(events, t.sym))}
        [] t.f \in {"passdef", "new"} -> {before # {}, Valued(before), consts # {}}
        [] t.f = "wanted" -> {Met(t.at) /\ before = {}, Met(t.at) /\ ~Valued(before),
                              Met(all) /\ consts = {}}
Unsteady(m) == \E i \in DOMAIN m.tests : Cardinality(Answers(m.events, m.tests[i])) > 1

Image(events) ==
  LET units == SelectSeq([i \in DOMAIN events |-> i], LAMBDA i : events[i].kind = "code")
  IN  [u \in DOMAIN units |-> <<events[units[u]].pos, Final(events, units[u])[1]>>]

-----------------------------------------------------------------------------
(* The programs.  Seqs(S, n) are the trees of at most n nodes of S.        *)
Seqs(S, n) == UNION {[1 .. k -> S] : k \in 0 .. n}

Data(e)  == <<"code", "", e>>
Here(x)  == <<"label", x, Zero>>

(* Labels, constants and variables, forward references to them, local      *)
(* labels, and definitions that depend on what is defined already.         *)
Symbols ==
  {Here("a"), Here(".l"), <<"equ", "x", <<"sym", "a">>>>,
   <<"set", "v", <<"num", 1>>>>, <<"set", "v", <<"next", "v">>>>,
   <<"ds", "", <<"sym", "v">>>>,
   Data(<<"sym", "a">>), Data(<<"sym", ".l">>), Data(<<"sym", "x">>), Data(<<"sym", "v">>),
   <<"if", <<"new", "a">>, <<Data(Zero), Here("a")>>, <<>>>>}

(* Conditions and repetitions, nested, with the ways out of a macro.       *)
Unit(n)  == Data(<<"num", n>>)
Exit     == <<"exitm", "", Zero>>
Run(m)   == <<"call", m, Zero>>
Wraps(S) ==
  {<<"if", <<"num", t>>, <<x, Unit(1)>>, e>> : t \in {0, 1}, x \in S, e \in {<<>>, <<Unit(2)>>}}
  \cup {<<"if", <<"num", t>>, <<Unit(2)>>, <<x>>>> : t \in {0, 1}, x \in S}
  \cup {<<"repeat", <<"num", n>>, <<x, Unit(3)>>>> : n \in {0, 2}, x \in S}
Flat   == {Unit(4), Exit}
Nested == Flat \cup Wraps(Flat \cup Wraps(Flat))

(* A macro with such a body, called from each kind of source.              *)
Uses == {<<Run("m")>>} \cup {<<w>> : w \in Wraps({Run("m")})} \cup {<<<<"include", <<Run("m"), Unit(5)>>>>>>}
Control == {<<<<"macro", "m", <<x, Unit(6)>>>>>> \o u \o <<Unit(7)>> : x \in Nested, u \in Uses}

(* Macros with labels of their own, before and after a call of another.    *)
Inner  == {Here(".l"), Data(<<"sym", ".l">>), Here("a"), Data(<<"sym", "a">>)}
Scoped == {<<Here(".l"), <<"macro", "m", b>>, <<"macro", "k", h \o <<Run("m")>> \o t \o <<Unit(1)>>>>>> \o u
           : b \in Seqs(Inner, 2), h \in {<<>>, <<Here(".l")>>},
             t \in Seqs({Here(".l"), Data(<<"sym", ".l">>)}, 1),
             u \in {<<Run("m"), Data(<<"sym", ".l">>)>>, <<Run("m"), Run("k")>>,
                     <<<<"repeat", <<"num", 2>>, <<Run("k"), Data(<<"sym", "a">>)>>>>>>}}

(* Macros that are defined in a conditional, repeated or included part     *)
Placed == {<<w, Run("m")>> : w \in Wraps({<<"macro", "m", <<Unit(8)>>>>})
                             \cup {<<"include", <<<<"macro", "m", <<Unit(8)>>>>, Unit(9)>>>>}}

(* Lines, and definitions, that depend on what was defined or referenced   *)
(* before and on what is afterwards                                        *)
Test(f, x, b) == <<"if", <<f, x>>, b, <<>>>>
Defining(x)   == IF x = "v" THEN <<"set", "v", <<"num", 1>>>> ELSE Here(x)
About(x)      == {Defining(x), Data(<<"sym", x>>), Unit(4)}
Asked ==
  UNION {{t \o <<Test(f, x, <<Unit(1)>> \o d)>> \o u \o <<Here("b"), Data(<<"sym", "b">>)>>
          : t \in Seqs(About(x), 2), u \in Seqs(About(x), 1), d \in {<<>>, <<Defining(x)>>},
            f \in {"def", "passdef", "new", "wanted"}} : x \in {"a", "v"}}

(* Directives that do not match, on their own, in a macro and in a repeat  *)
Directive(op) == <<op, "", Zero>>
Unmatched ==
  {<<Unit(1)>> \o t \o <<Unit(2)>> :
     t \in {<<Directive(op)>> : op \in {"else", "endif", "endm", "endr", "end"}}
           \cup {<<<<"open", op>>>> : op \in {"if", "macro", "repeat"}}
           \cup {<<Test(f, ".l", <<>>)>> : f \in {"def", "passdef", "wanted"}}
           \cup {<<<<"macro", "m", <<<<"macro", "k", <<>>>>>>>>>>,
                 <<<<"macro", "m", <<<<"include", <<>>>>>>>>, Run("m")>>}}

Stray == {<<"open", "if">>, <<"if", <<"num", 0>>, <<Unit(1), <<"open", "if">>>>, <<>>>>,
          Directive("else"), Directive("endif")}
Straying ==
  {<<<<"macro", "m", <<Unit(6), x, Unit(6)>>>>>> \o u \o v
   : x \in Stray, u \in Uses, v \in {<<>>, <<Unit(7), Test("def", "b", <<Unit(8)>>), Unit(9)>>}}
  \cup {<<w, Unit(7), Test("def", "b", <<Unit(8)>>), Unit(9)>>
        : w \in {<<"repeat", <<"num", 2>>, <<Unit(6), x>>>> : x \in Stray}}

Orig(t) == <<<<"org", "", Zero>>>> \o t
MCTrees == {Orig(t) : t \in Seqs(Symbols, 3) \cup Control \cup Scoped \cup Placed
                        \cup Asked \cup Unmatched \cup Straying}
MCLocal == {".l"}

-----------------------------------------------------------------------------
(* Modes, tables and stack keep their shapes, a macro that has a name has  *)
(* lines, and the file the pass began with stays at the bottom (CFAsm).    *)
TypeOK ==
  /\ pass \in {1, 2}
  /\ {skip, inMacro, skipMacro, asserted} \subseteq BOOLEAN
  /\ Len(rept) <= 1 /\ nested >= 0 /\ area >= 0 /\ marea >= 0
  /\ \A k \in DOMAIN idents : idents[k] \in [val : {<<>>} \cup {<<n>> : n \in 0 .. 99}, var : BOOLEAN,
                                             checked : BOOLEAN]
  /\ \A x \in DOMAIN names : names[x] \in DOMAIN macros
  /\ src # <<>> /\ src[1].kind = "file"


(* The passes disagree about a label only where it is defined twice or a   *)
(* test is answered differently by them: DEF of what is defined later, REF *)
(* of what is referenced or defined only later, and PASSDEF of a variable  *)
(* (or of a constant that had no value yet).  With PASSDEF of a label, and *)
(* with REF of what was referenced before, a definition may depend on the  *)
(* test, as Help/Assembler-1.htm shows, even in a program that is refused  *)
(* for another reason.                                                     *)
PhasesAgree ==
  status = "ERR_PHASE" =>
    LET m == Meaning(prog, Start) IN Redefinitions(m.events) # {} \/ Unsteady(m)

(* Every program without recursive macros is assembled or refused.         *)
Terminates == <>(status # "working")
=============================================================================
