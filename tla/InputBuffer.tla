---------------------------- MODULE InputBuffer -----------------------------
(***************************************************************************)
(* The keyboard buffer of the terminal window (class InputBuffer of        *)
(* Studio/IOWindow.cpp): a ring of BUF_SIZE characters with one slot left  *)
(* free.  All of it runs in the user-interface thread: key strokes and     *)
(* pasted text put characters in, the simulated program takes them out     *)
(* through SendMessage (Debugger::io_function), so that Paste is never     *)
(* interrupted.                                                            *)
(***************************************************************************)
EXTENDS Integers, Sequences

CONSTANTS
  Char,       \* characters but NUL
  Nothing,    \* the NUL character: no key
  BUF_SIZE,   \* number of slots
  Texts       \* texts the clipboard may hold

ASSUME CharAssumption == Nothing \notin Char
ASSUME SizeAssumption == BUF_SIZE \in Nat /\ BUF_SIZE > 1
ASSUME TextAssumption == Texts \subseteq Seq(Char)

VARIABLES
  buffer,  \* buffer_, not initialised by the constructor
  head,    \* head_: the slot that is filled next
  tail,    \* tail_: the slot that is emptied next
  rest,    \* what Paste has still to put
  answer   \* what GetChar returned last

ring == <<buffer, head, tail>>
vars == <<ring, rest, answer>>

Slots == 0 .. BUF_SIZE - 1

Init ==
  /\ buffer \in [Slots -> Char \cup {Nothing}]
  /\ head = 0 /\ tail = 0
  /\ rest = <<>> /\ answer = Nothing

(* Faulty variant of After: wraps one slot too late.                       *)
AfterLate(slot) == IF slot + 1 > BUF_SIZE THEN 0 ELSE slot + 1

After(slot) == IF slot + 1 >= BUF_SIZE THEN 0 ELSE slot + 1

(* Faulty variant of PutChar: the last free slot is filled too.            *)
PutCharUnchecked(c) ==
  /\ buffer' = [buffer EXCEPT ![head] = c]
  /\ head' = After(head)
  /\ UNCHANGED <<tail, answer>>

PutChar(c) ==
  /\ IF After(head) # tail
       THEN buffer' = [buffer EXCEPT ![head] = c] /\ head' = After(head)
       ELSE UNCHANGED <<buffer, head>>
  /\ UNCHANGED <<tail, answer>>

(* IOWindow::OnChar *)
OnChar(c) ==
  /\ rest = <<>>
  /\ PutChar(c)
  /\ UNCHANGED rest

(* InputBuffer::Paste: at most BUF_SIZE characters of the text, one by one *)
PasteStart(text) ==
  /\ rest = <<>>
  /\ rest' = IF Len(text) <= BUF_SIZE THEN text ELSE SubSeq(text, 1, BUF_SIZE)
  /\ UNCHANGED <<ring, answer>>

PasteChar ==
  /\ rest # <<>>
  /\ PutChar(Head(rest))
  /\ rest' = Tail(rest)

GetChar ==
  /\ rest = <<>>
  /\ IF head # tail
       THEN answer' = buffer[tail] /\ tail' = After(tail)
       ELSE answer' = Nothing /\ UNCHANGED tail
  /\ UNCHANGED <<buffer, head, rest>>

Next ==
  \/ GetChar \/ PasteChar
  \/ \E c \in Char : OnChar(c)
  \/ \E text \in Texts : PasteStart(text)

Spec == Init /\ [][Next]_vars

-----------------------------------------------------------------------------
(* The characters in the ring, oldest first *)

Count    == IF head >= tail THEN head - tail ELSE head - tail + BUF_SIZE
Slot(i)  == IF tail + i - 1 < BUF_SIZE THEN tail + i - 1 ELSE tail + i - 1 - BUF_SIZE
Contents == [i \in 1 .. Count |-> buffer[Slot(i)]]

(* Every variable stays in its range; what Paste still has to put and what *)
(* is in the ring are characters that were typed or pasted, never what the *)
(* memory held before (buffer_ is not initialised).                        *)
TypeOK ==
  /\ buffer \in [Slots -> Char \cup {Nothing}]
  /\ head \in Slots /\ tail \in Slots
  /\ rest \in Seq(Char) /\ answer \in Char \cup {Nothing}
  /\ Contents \in Seq(Char)

(* The ring is the queue it stands for, over any number of rounds: nothing *)
(* is lost but what does not fit, nothing comes twice or out of order, and *)
(* the program is told "nothing" only when nothing is there (GetChar,      *)
(* PutChar and Paste of InputBuffer).                                      *)
Queue == INSTANCE CharQueue WITH queue <- Contents, Capacity <- BUF_SIZE - 1
ImplementsQueue == Queue!Spec
=============================================================================
