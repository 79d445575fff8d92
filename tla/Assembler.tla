------------------------------ MODULE Assembler -----------------------------
(***************************************************************************)
(* The two passes of the macro assembler (ColdFire/CFAsm.cpp): the stack   *)
(* of sources its lines come from (files, macros, repeated lines), the     *)
(* conditional, recording and skipping modes, and the symbol tables.  A    *)
(* line is [op, name, arg]; names and operands are parsed already.  Every  *)
(* instruction or datum takes one unit of memory.  One step assembles,     *)
(* records or skips one line, or leaves one source.                        *)
(***************************************************************************)
EXTENDS Integers, Sequences, SequencesExt, TLC

CONSTANTS
  Programs,
  Source(_),   \* the lines of a program's first file
  LocalNames   \* the labels that begin with a dot

VARIABLES
  prog,        \* the program that is assembled
  pass,        \* pass_
  status,      \* "working", "ok" or the error
  src,         \* source_ with text_ on top
  cond,        \* conditional_asm_
  skip, inMacro, skipMacro,   \* skip, in_macro_ # nullptr, skip_macro
  rept,        \* repeat_def_: <<>>, or <<the repeat being recorded>>
  nested,      \* rept_nested_
  idents,      \* global_ident_, local_ident_ and macro_ident_
  area, marea, \* local_area_, macro_local_area
  macros,      \* macros_: the lines of each
  names,       \* macro_names_
  origin,      \* origin_
  out,         \* what generate_code has put into program_
  asserted     \* the ASSERT of set_level failed (a debug build stops there)

tables == <<idents, area, marea>>
modes  == <<skip, inMacro, skipMacro, rept, nested>>
vars   == <<prog, pass, status, src, cond, modes, tables, macros, names, origin, out,
            asserted>>

Missing == -1                      \* no ORG yet
Fin     == [op |-> "fin", name |-> "", arg |-> <<>>]     \* past the last line

(* Sources.  All entries of one macro are the same MacroDef object, which  *)
(* has one position and one level: id tells objects apart.                 *)
File(lines, depth) ==
  [kind |-> "file", id |-> depth, lines |-> lines, next |-> 1, left |-> 0, level |-> -1]
Repeated(lines, n) ==
  [kind |-> "repeat", id |-> 0, lines |-> lines, next |-> Len(lines) + 1, left |-> n, level |-> 0]
Expansion(m) ==
  [kind |-> "macro", id |-> -m, lines |-> macros[m], next |-> 1, left |-> 0, level |-> Len(cond)]

Init ==
  /\ prog \in Programs
  /\ pass = 1 /\ status = "working"
  /\ src = <<File(Source(prog), 1)>>
  /\ cond = <<>> /\ skip = FALSE /\ inMacro = FALSE /\ skipMacro = FALSE
  /\ rept = <<>> /\ nested = 0
  /\ idents = <<>> /\ area = 0 /\ marea = 0
  /\ macros = <<>> /\ names = <<>>
  /\ origin = Missing /\ out = <<>> /\ asserted = FALSE

-----------------------------------------------------------------------------
(* Reading lines: GetCurrLine of the sources *)

Top       == src[Len(src)]
AtEnd     == Top.next > Len(Top.lines)
Exhausted == Top.kind # "file" /\ AtEnd /\ (Top.left = 0 \/ Top.lines = <<>>)
Expanding == \E i \in DOMAIN src : src[i].kind = "macro"

Line ==
  IF ~AtEnd THEN Top.lines[Top.next]
  ELSE IF Top.kind = "repeat" THEN Top.lines[1] ELSE Fin

(* The sources after the line was read *)
Read ==
  LET s == IF AtEnd /\ Top.kind = "repeat"
             THEN [Top EXCEPT !.next = 2, !.left = @ - 1] ELSE [Top EXCEPT !.next = @ + 1]
  IN  [i \in DOMAIN src |-> IF src[i].id = s.id THEN s ELSE src[i]]

(* ConditionalAsm::set_level: the IFs left open by a source are closed,    *)
(* and a source that closed all of its own within an IF is taken for an    *)
(* error.                                                                  *)
Level(c, level) ==
  IF level >= 0 /\ level < Len(c) THEN SubSeq(c, 1, level) ELSE c
Asserts(c, level) == level > 0 /\ c # <<>> /\ level >= Len(c)

(* Source::Fin of the sources from the top one down to the m-th            *)
LeaveFrom(m) ==
  LET Leave(s, r) == [cond |-> Level(r.cond, s.level),
                      asserted |-> r.asserted \/ Asserts(r.cond, s.level)]
      left == FoldRight(Leave, SubSeq(src, m, Len(src)), [cond |-> cond, asserted |-> asserted])
  IN  cond' = left.cond /\ asserted' = left.asserted

(* Faulty variant of EndSource: the source is not popped.                  *)
EndSourceKept ==
  /\ status = "working" /\ Exhausted
  /\ LeaveFrom(Len(src))
  /\ UNCHANGED <<prog, pass, status, src, modes, tables, macros, names, origin, out>>

EndSource ==
  /\ status = "working" /\ Exhausted
  /\ LeaveFrom(Len(src))
  /\ src' = Front(src)
  /\ UNCHANGED <<prog, pass, status, modes, tables, macros, names, origin, out>>

-----------------------------------------------------------------------------
(* Symbols *)

Global(x) == x \notin LocalNames
Key(x, a) == IF Global(x) THEN <<"global", 0, x>>
             ELSE IF Expanding THEN <<"macro", marea, x>> ELSE <<"local", a, x>>

Undef == <<>>
Ident(v, var) == [val |-> v, var |-> var, checked |-> FALSE]

(* IdentTable::insert of a reference *)
Refer(tab, k) == IF k \in DOMAIN tab THEN tab ELSE (k :> Ident(Undef, FALSE)) @@ tab

(* IdentTable::replace: whether it succeeds, and what it leaves            *)
Replaces(tab, k, new) ==
  \/ k \notin DOMAIN tab
  \/ LET old == tab[k] IN
     IF new.var THEN old.var \/ old.val = Undef ELSE ~old.var /\ old.val = Undef
Replaced(tab, k, new) ==
  IF k \in DOMAIN tab /\ ~Replaces(tab, k, new) /\ tab[k].var # new.var
    THEN tab ELSE (k :> new) @@ tab

(* def_ident in the first pass, chk_ident_def in the second                *)
Defined(tab, k, new) ==
  LET known == k \in DOMAIN tab /\ tab[k].val # Undef
      inf   == IF known THEN tab[k] ELSE new
  IN  IF pass = 1
        THEN [err |-> IF Replaces(tab, k, new) THEN "" ELSE "ERR_LABEL_REDEF",
              tab |-> Replaced(tab, k, new)]
      ELSE IF known /\ inf.val # new.val /\ ~inf.var THEN [err |-> "ERR_PHASE", tab |-> tab]
      ELSE [err |-> "",
            tab |-> IF inf.var THEN Replaced(tab, k, [inf EXCEPT !.val = new.val])
                    ELSE IF k[1] = "global" THEN Replaced(tab, k, [inf EXCEPT !.checked = TRUE])
                    ELSE tab]

(* An expression is <<"num", n>>, <<"sym", x>>, <<"next", x>> (x + 1) or   *)
(* <<f, x>>: DEF, PASSDEF, its negation ("new"), or REF(x) && !PASSDEF(x)  *)
(* ("wanted").                                                             *)
Symbol(e) == Key(e[2], area)
Names(e)  == e[1] \in {"sym", "next"}
IsKnown(k)   == k \in DOMAIN idents /\ idents[k].val # Undef
Truth(b)     == IF b THEN <<1>> ELSE <<0>>

(* Faulty variant of PassDef: a label of the first pass counts.            *)
PassDefAsDef(k) == IsKnown(k)

PassDef(k) == IsKnown(k) /\ (pass = 1 \/ idents[k].checked)

ValueOf(e) ==
  LET k == Symbol(e)
  IN  CASE e[1] = "num"     -> <<e[2]>>
        [] e[1] = "sym"     -> IF IsKnown(k) THEN idents[k].val ELSE Undef
        [] e[1] = "next"    -> IF IsKnown(k) THEN <<idents[k].val[1] + 1>> ELSE Undef
        [] e[1] = "def"     -> Truth(IsKnown(k))
        [] e[1] = "passdef" -> Truth(PassDef(k))
        [] e[1] = "new"     -> Truth(~PassDef(k))
        [] e[1] = "wanted"  -> Truth(k \in DOMAIN idents /\ ~PassDef(k))
Noted(e) == IF Names(e) THEN Refer(idents, Symbol(e)) ELSE idents

(* What is wrong with an expression, if anything: the functions take no    *)
(* local labels, and a symbol must be known in the second pass.            *)
Fault(e) ==
  IF e[1] # "num" /\ ~Names(e) /\ ~Global(e[2]) THEN "ERR_LOCAL_LABEL_NOT_ALLOWED"
  ELSE IF pass = 2 /\ Names(e) /\ ValueOf(e) = Undef THEN "ERR_UNDEF_LABEL"
  ELSE ""

-----------------------------------------------------------------------------
(* The lines of a program that is neither skipped nor recorded *)

Fail(error) ==
  /\ status' = error
  /\ UNCHANGED <<prog, pass, src, cond, modes, tables, macros, names, origin, out, asserted>>

Assembling == status = "working" /\ ~Exhausted /\ ~skip /\ ~inMacro /\ ~skipMacro /\ rept = <<>>
At(op)     == Assembling /\ Line.op = op

Org ==
  /\ At("org")
  /\ origin' = Line.arg[2] /\ src' = Read
  /\ UNCHANGED <<prog, pass, status, cond, modes, tables, macros, names, out, asserted>>

(* Define a symbol: a label here, a constant, or a variable of SET.        *)
Define(x, v, var) ==
  LET d == Defined(Noted(Line.arg), Key(x, area), Ident(v, var))
  IN  IF d.err # "" THEN Fail(d.err)
      ELSE /\ idents' = d.tab
           /\ area' = IF Global(x) THEN area + 1 ELSE area
           /\ src' = Read
           /\ UNCHANGED <<prog, pass, status, cond, modes, marea, macros, names, origin, out,
                          asserted>>

Label ==
  /\ At("label")
  /\ IF origin = Missing THEN Fail("ERR_UNDEF_ORIGIN") ELSE Define(Line.name, <<origin>>, FALSE)

Assign ==
  /\ Assembling /\ Line.op \in {"equ", "set"}
  /\ IF Fault(Line.arg) # "" THEN Fail(Fault(Line.arg))
     ELSE Define(Line.name, ValueOf(Line.arg), Line.op = "set")

(* An instruction, or DC.                                                  *)
Code ==
  /\ At("code")
  /\ IF Fault(Line.arg) # "" THEN Fail(Fault(Line.arg))
     ELSE IF origin = Missing THEN Fail("ERR_UNDEF_ORIGIN")
     ELSE /\ idents' = Noted(Line.arg)
          /\ out' = IF pass = 2 THEN Append(out, <<origin, ValueOf(Line.arg)[1]>>) ELSE out
          /\ origin' = origin + 1
          /\ src' = Read
          /\ UNCHANGED <<prog, pass, status, cond, modes, area, marea, macros, names, asserted>>

(* DS: its size must be known in the first pass.                           *)
Space ==
  /\ At("ds")
  /\ IF Fault(Line.arg) # "" THEN Fail(Fault(Line.arg))
     ELSE IF ValueOf(Line.arg) = Undef THEN Fail("ERR_UNDEF_EXPR")
     ELSE IF origin = Missing THEN Fail("ERR_UNDEF_ORIGIN")
     ELSE /\ origin' = origin + ValueOf(Line.arg)[1]
          /\ src' = Read
          /\ UNCHANGED <<prog, pass, status, cond, modes, tables, macros, names, out, asserted>>

Include ==
  /\ At("include")
  /\ IF Top.kind # "file" THEN Fail("ERR_INCLUDE_NOT_ALLOWED")
     ELSE /\ src' = Append(Read, File(Line.arg, Len(src) + 1))
          /\ UNCHANGED <<prog, pass, status, cond, modes, tables, macros, names, origin, out,
                         asserted>>


Call ==
  /\ At("call")
  /\ IF Line.name \notin DOMAIN names THEN Fail("ERR_UNKNOWN_INSTR")
     ELSE LET e == Expansion(names[Line.name]) IN
          /\ src' = Append([i \in DOMAIN src |-> IF Read[i].id = e.id THEN e ELSE Read[i]], e)
          /\ marea' = marea + 1
          /\ UNCHANGED <<prog, pass, status, cond, modes, idents, area, macros, names, origin,
                         out, asserted>>

(* Faulty variant of Exitm: the source below the macro is left, too.       *)
ExitmTwice ==
  /\ At("exitm")
  /\ IF ~Expanding THEN Fail("ERR_SPURIOUS_EXITM")
     ELSE LET m == CHOOSE i \in DOMAIN src : /\ src[i].kind = "macro"
                                             /\ \A j \in i + 1 .. Len(src) : src[j].kind # "macro"
          IN  /\ src' = SubSeq(src, 1, m - 2)
              /\ LeaveFrom(m)
              /\ UNCHANGED <<prog, pass, status, modes, tables, macros, names, origin, out>>

(* EXITM leaves the sources above the macro, and the macro.                *)
Exitm ==
  /\ At("exitm")
  /\ IF ~Expanding THEN Fail("ERR_SPURIOUS_EXITM")
     ELSE LET m == CHOOSE i \in DOMAIN src : /\ src[i].kind = "macro"
                                             /\ \A j \in i + 1 .. Len(src) : src[j].kind # "macro"
          IN  /\ src' = SubSeq(src, 1, m - 1)
              /\ LeaveFrom(m)
              /\ UNCHANGED <<prog, pass, status, modes, tables, macros, names, origin, out>>

Macro ==
  /\ At("macro")
  /\ IF pass = 1 /\ Line.name \in DOMAIN names THEN Fail("ERR_LABEL_REDEF")
     ELSE IF pass = 2 /\ Line.name \notin DOMAIN names THEN Fail("ERR_UNDEF_LABEL")
     ELSE /\ inMacro' = (pass = 1) /\ skipMacro' = (pass = 2)
          /\ macros' = IF pass = 1 THEN Append(macros, <<>>) ELSE macros
          /\ names' = IF pass = 1 THEN (Line.name :> Len(macros) + 1) @@ names ELSE names
          /\ src' = Read
          /\ UNCHANGED <<prog, pass, status, cond, skip, rept, nested, tables, origin, out,
                         asserted>>

Repeat ==
  /\ At("repeat")
  /\ IF Fault(Line.arg) # "" THEN Fail(Fault(Line.arg))
     ELSE IF ValueOf(Line.arg) = Undef THEN Fail("ERR_UNDEF_EXPR")
     ELSE /\ rept' = <<Repeated(<<>>, ValueOf(Line.arg)[1])>>
          /\ src' = Read
          /\ UNCHANGED <<prog, pass, status, cond, skip, inMacro, skipMacro, nested, tables,
                         macros, names, origin, out, asserted>>

(* ConditionalAsm::instr_if_found, -else_found and -endif_found, for lines *)
(* that are assembled as for those that are skipped                        *)
Before(c) == c[Len(c)]
Active(c) == c = <<>> \/ Before(c).asm
Branch(c) ==
  /\ cond' = c /\ skip' = ~Active(c) /\ src' = Read
  /\ UNCHANGED <<prog, pass, status, inMacro, skipMacro, rept, nested, tables, macros, names,
                 origin, out, asserted>>

OnElse ==
  IF cond = <<>> \/ ~Before(cond).before THEN Fail("ERR_SPURIOUS_ELSE")
  ELSE Branch(Append(Front(cond),
         [before |-> FALSE, asm |-> ~Before(cond).asm /\ Active(Front(cond))]))

OnEndif == IF cond = <<>> THEN Fail("ERR_SPURIOUS_ENDIF") ELSE Branch(Front(cond))

If ==
  /\ At("if")
  /\ IF Fault(Line.arg) # "" THEN Fail(Fault(Line.arg))
     ELSE IF ValueOf(Line.arg) = Undef THEN Fail("ERR_UNDEF_EXPR")
     ELSE Branch(Append(cond, [before |-> TRUE, asm |-> Active(cond) /\ ValueOf(Line.arg) # <<0>>]))

Else  == At("else") /\ OnElse
Endif == At("endif") /\ OnEndif
Endm  == At("endm") /\ Fail("ERR_SPURIOUS_ENDM")
Endr  == At("endr") /\ Fail("ERR_SPURIOUS_ENDR")

-----------------------------------------------------------------------------
(* Lines that are skipped or recorded.  The end of a file gets there, too, *)
(* and is recorded as a line.  A skipped IF has no value: that is an error *)
(* where the end of a source closed the IF that is skipped.                *)

Pass ==
  /\ src' = Read
  /\ UNCHANGED <<prog, pass, status, cond, modes, tables, macros, names, origin, out, asserted>>

SkipLine ==
  /\ status = "working" /\ ~Exhausted /\ skip /\ Line.op # "fin"
  /\ CASE Line.op = "if" ->
            IF Active(cond) THEN Fail("ERR_UNDEF_EXPR")
            ELSE Branch(Append(cond, [before |-> TRUE, asm |-> FALSE]))
       [] Line.op = "else"  -> OnElse
       [] Line.op = "endif" -> OnEndif
       [] OTHER             -> Pass

Recording == status = "working" /\ ~Exhausted /\ ~skip /\ inMacro

RecordMacroLine ==
  /\ Recording /\ Line.op # "fin"
  /\ IF Line.op = "macro" THEN Fail("ERR_NESTED_MACRO")
     ELSE /\ inMacro' = (Line.op # "endm")
          /\ macros' = IF Line.op = "endm" THEN macros
                       ELSE [macros EXCEPT ![Len(macros)] = Append(@, Line)]
          /\ src' = Read
          /\ UNCHANGED <<prog, pass, status, cond, skip, skipMacro, rept, nested, tables, names,
                         origin, out, asserted>>

SkipMacroLine ==
  /\ status = "working" /\ ~Exhausted /\ ~skip /\ ~inMacro /\ skipMacro /\ Line.op # "fin"
  /\ IF Line.op = "macro" THEN Fail("ERR_NESTED_MACRO")
     ELSE /\ skipMacro' = (Line.op # "endm")
          /\ src' = Read
          /\ UNCHANGED <<prog, pass, status, cond, skip, inMacro, rept, nested, tables, macros,
                         names, origin, out, asserted>>

(* record_rept; the outermost ENDR starts the repetition.                  *)
RecordRepeatLine ==
  /\ status = "working" /\ ~Exhausted /\ ~skip /\ ~inMacro /\ ~skipMacro /\ rept # <<>>
  /\ Line.op # "fin"
  /\ IF Line.op = "endr" /\ nested = 0
       THEN /\ rept' = <<>> /\ nested' = nested
            /\ src' = Append(Read, [rept[1] EXCEPT !.id = Len(src) + 1, !.level = Len(cond),
                                                   !.next = Len(rept[1].lines) + 1])
       ELSE /\ nested' = nested + (CASE Line.op = "repeat" -> 1 [] Line.op = "endr" -> -1
                                     [] OTHER -> 0)
            /\ rept' = <<[rept[1] EXCEPT !.lines = Append(@, Line)]>>
            /\ src' = Read
  /\ UNCHANGED <<prog, pass, status, cond, skip, inMacro, skipMacro, tables, macros, names,
                 origin, out, asserted>>

(* The end of a file, or END, in any mode: an included file is left, the   *)
(* first file ends the pass.  The modes live on in the second pass.        *)
Finish ==
  /\ status = "working" /\ ~Exhausted
  /\ Line.op = "fin" \/ (Assembling /\ Line.op = "end")
  /\ IF Top.kind # "file" THEN Fail("ERR_ENDIF_REQUIRED")
     ELSE IF Len(src) > 1
       THEN /\ src' = Front(src)
            /\ macros' = IF Recording THEN [macros EXCEPT ![Len(macros)] = Append(@, Fin)]
                         ELSE macros
            /\ rept' = IF rept # <<>> /\ ~skip /\ ~inMacro /\ ~skipMacro
                         THEN <<[rept[1] EXCEPT !.lines = Append(@, Fin)]>> ELSE rept
            /\ UNCHANGED <<prog, pass, status, cond, skip, inMacro, skipMacro, nested, tables,
                           names, origin, out, asserted>>
     ELSE IF cond # <<>> THEN Fail("ERR_ENDIF_REQUIRED")
     ELSE IF inMacro THEN Fail("ERR_ENDM_REQUIRED")
     ELSE /\ status' = IF pass = 2 THEN "ok" ELSE status
          /\ pass' = 2
          /\ src' = <<File(Source(prog), 1)>>
          /\ area' = 0 /\ marea' = 0 /\ origin' = Missing
          /\ UNCHANGED <<prog, cond, modes, idents, macros, names, out, asserted>>

Assemble ==
  \/ EndSource
  \/ Org \/ Label \/ Assign \/ Code \/ Space \/ Include \/ Call \/ Exitm \/ Macro \/ Repeat
  \/ If \/ Else \/ Endif \/ Endm \/ Endr
  \/ SkipLine \/ RecordMacroLine \/ SkipMacroLine \/ RecordRepeatLine \/ Finish

(* Assembled, or given up *)
Done == status # "working" /\ UNCHANGED vars

Next == Assemble \/ Done

Spec == Init /\ [][Next]_vars /\ WF_vars(Assemble)
=============================================================================
