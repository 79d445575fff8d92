------------------------- MODULE InputBufferProofs --------------------------
(***************************************************************************)
(* The keyboard ring implements the queue CharQueue, for any number of     *)
(* slots, any characters and any texts.  The lemmas say what filling and   *)
(* emptying one slot does to the sequence the ring stands for.             *)
(***************************************************************************)
EXTENDS InputBuffer, SequenceTheorems, TLAPS

(* What TypeOK says of the ring alone.                                     *)
RingOK == /\ buffer \in [Slots -> Char \cup {Nothing}]
          /\ head \in Slots /\ tail \in Slots

(* The ring holds at most one character less than it has slots.            *)
LEMMA CountRange ==
  ASSUME RingOK
  PROVE  /\ Count \in 0 .. BUF_SIZE - 1
         /\ Count = 0 <=> head = tail
         /\ Count = BUF_SIZE - 1 <=> After(head) = tail
         /\ \A i \in 1 .. BUF_SIZE - 1 : Slot(i) \in Slots
         /\ After(head) \in Slots /\ After(tail) \in Slots
BY SizeAssumption DEF RingOK, Slots, Count, After, Slot

LEMMA ContentsLen ==
  ASSUME RingOK, Contents \in Seq(Char)
  PROVE  Len(Contents) = Count /\ \A i \in 1 .. Count : Contents[i] = buffer[Slot(i)]
<1>1. Count \in Nat /\ DOMAIN Contents = 1 .. Count
  BY CountRange, SizeAssumption DEF Contents
<1>. QED
  BY <1>1, LenProperties DEF Contents

(* A sequence is the function of its elements.                             *)
LEMMA SeqIsFunction ==
  ASSUME NEW S, NEW s \in Seq(S), NEW n, Len(s) = n
  PROVE  s = [i \in 1 .. n |-> s[i]]
<1>1. s \in [1 .. n -> S]
  BY LenProperties
<1>. QED
  BY <1>1, Zenon

(* A slot filled behind the last character.                                *)
LEMMA PutContents ==
  ASSUME RingOK, Contents \in Seq(Char), NEW c \in Char,
         After(head) # tail, tail' = tail,
         buffer' = [buffer EXCEPT ![head] = c], head' = After(head)
  PROVE  Contents' = Append(Contents, c)
<1>1. Count' = Count + 1 /\ Count + 1 \in 1 .. BUF_SIZE - 1
  BY SizeAssumption DEF RingOK, Slots, Count, After
<1>2. Slot(Count + 1) = head /\ \A i \in 1 .. Count : Slot(i) # head
  BY SizeAssumption DEF RingOK, Slots, Count, Slot, After
<1>3. \A i \in 1 .. Count + 1 : Slot(i)' = Slot(i)
  BY DEF Slot
<1>4. Contents' = [i \in 1 .. Count + 1 |-> buffer'[Slot(i)]]
  BY <1>1, <1>3 DEF Contents
<1>5. \A i \in 1 .. Count : buffer'[Slot(i)] = Contents[i]
  BY <1>1, <1>2, CountRange, ContentsLen DEF RingOK
<1>6. buffer'[Slot(Count + 1)] = c
  BY <1>2 DEF RingOK
<1>7. Len(Contents) = Count /\ Count \in Nat
  BY ContentsLen, CountRange
<1>8. Append(Contents, c) \in Seq(Char) /\ Len(Append(Contents, c)) = Count + 1
  BY <1>7, AppendProperties
<1>9. \A i \in 1 .. Count + 1 : Append(Contents, c)[i] = buffer'[Slot(i)]
  BY <1>5, <1>6, <1>7, AppendProperties
<1>10. Append(Contents, c) = [i \in 1 .. Count + 1 |-> Append(Contents, c)[i]]
  BY <1>8, SeqIsFunction, Zenon
<1>. QED
  BY <1>4, <1>9, <1>10, Zenon

(* The slot of the oldest character emptied.                               *)
LEMMA GetContents ==
  ASSUME RingOK, Contents \in Seq(Char), head # tail,
         buffer' = buffer, head' = head, tail' = After(tail)
  PROVE  /\ Contents # <<>> /\ Head(Contents) = buffer[tail]
         /\ Contents' = Tail(Contents)
<1>1. Count' = Count - 1 /\ Count \in 1 .. BUF_SIZE - 1
  BY SizeAssumption DEF RingOK, Slots, Count, After
<1>2. Slot(1) = tail /\ \A i \in 1 .. Count - 1 : Slot(i)' = Slot(i + 1)
  BY <1>1, SizeAssumption DEF RingOK, Slots, Slot, After
<1>3. Contents' = [i \in 1 .. Count - 1 |-> buffer[Slot(i + 1)]]
  BY <1>1, <1>2 DEF Contents
<1>4. Len(Contents) = Count /\ \A i \in 1 .. Count : Contents[i] = buffer[Slot(i)]
  BY ContentsLen
<1>5. Contents # <<>> /\ Head(Contents) = buffer[tail]
  BY <1>1, <1>2, <1>4
<1>6. /\ Tail(Contents) \in Seq(Char) /\ Len(Tail(Contents)) = Count - 1
      /\ \A i \in 1 .. Count - 1 : Tail(Contents)[i] = Contents[i + 1]
  BY <1>4, <1>5, HeadTailProperties
<1>7. Tail(Contents) = [i \in 1 .. Count - 1 |-> Tail(Contents)[i]]
  BY <1>6, SeqIsFunction, Zenon
<1>8. \A i \in 1 .. Count - 1 : Contents[i + 1] = buffer[Slot(i + 1)]
  BY <1>1, <1>4
<1>9. \A i \in 1 .. Count - 1 : Tail(Contents)[i] = buffer[Slot(i + 1)]
  BY <1>6, <1>8
<1>. QED
  BY <1>3, <1>5, <1>7, <1>9, Zenon

(* What one more character does to the ring.                               *)
LEMMA PutCharStep ==
  ASSUME TypeOK, NEW c \in Char, PutChar(c)
  PROVE  /\ RingOK' /\ Contents' \in Seq(Char) /\ Queue!Put(c)
<1>1. RingOK
  BY DEF TypeOK, RingOK
<1>2. CASE After(head) # tail
  <2>1. buffer' = [buffer EXCEPT ![head] = c] /\ head' = After(head) /\ tail' = tail
    BY <1>2 DEF PutChar
  <2>2. Contents' = Append(Contents, c)
    BY <1>1, <1>2, <2>1, PutContents DEF TypeOK
  <2>3. RingOK'
    BY <1>1, <2>1, CountRange DEF RingOK
  <2>4. Len(Contents) < BUF_SIZE - 1
    BY <1>1, <1>2, CountRange, ContentsLen, SizeAssumption DEF TypeOK
  <2>. QED
    BY <2>2, <2>3, <2>4 DEF TypeOK, PutChar, Queue!Put
<1>3. CASE After(head) = tail
  <2>1. UNCHANGED ring
    BY <1>3 DEF PutChar, ring
  <2>2. Contents' = Contents /\ RingOK'
    BY <1>1, <2>1 DEF ring, Contents, Count, Slot, RingOK
  <2>3. ~(Len(Contents) < BUF_SIZE - 1)
    BY <1>1, <1>3, CountRange, ContentsLen, SizeAssumption DEF TypeOK
  <2>. QED
    BY <2>2, <2>3 DEF TypeOK, PutChar, Queue!Put
<1>. QED
  BY <1>2, <1>3

(* An empty ring is the empty queue.                                       *)
LEMMA InitContents == Init => Contents = <<>>
<1>. SUFFICES ASSUME Init PROVE Contents = <<>>
  OBVIOUS
<1>1. 1 .. Count = {}
  BY DEF Init, Count
<1>. QED
  BY <1>1 DEF Contents

LEMMA TypeInit == Init => TypeOK
<1>. SUFFICES ASSUME Init PROVE TypeOK
  OBVIOUS
<1>1. 0 \in Slots /\ Contents = <<>>
  BY InitContents, SizeAssumption DEF Slots
<1>2. Contents \in Seq(Char) /\ rest \in Seq(Char)
  BY <1>1, EmptySeq DEF Init
<1>. QED
  BY <1>1, <1>2, Zenon DEF Init, TypeOK

(* Every step keeps the types and is a step of the queue, or none.         *)
LEMMA Step == TypeOK /\ [Next]_vars => TypeOK' /\ [Queue!Next]_<<Contents, answer>>
<1>. SUFFICES ASSUME TypeOK, [Next]_vars
              PROVE  TypeOK' /\ [Queue!Next]_<<Contents, answer>>
  OBVIOUS
<1>0. RingOK
  BY DEF TypeOK, RingOK
<1>1. ASSUME UNCHANGED <<ring, answer>> PROVE UNCHANGED <<Contents, answer>>
  BY <1>1 DEF ring, Contents, Count, Slot
<1>2. CASE UNCHANGED vars
  BY <1>1, <1>2 DEF vars, ring, TypeOK
<1>3. ASSUME NEW c \in Char, OnChar(c) PROVE TypeOK' /\ Queue!Next
  BY <1>3, PutCharStep DEF OnChar, PutChar, TypeOK, RingOK, Queue!Next
<1>4. ASSUME NEW text \in Texts, PasteStart(text)
      PROVE  TypeOK' /\ UNCHANGED <<Contents, answer>>
  <2>1. text \in Seq(Char) /\ Len(text) \in Nat
    BY TextAssumption
  <2>2. rest' \in Seq(Char)
    <3>1. CASE Len(text) <= BUF_SIZE
      BY <1>4, <2>1, <3>1 DEF PasteStart
    <3>2. CASE ~(Len(text) <= BUF_SIZE)
      <4>1. \A i \in 1 .. BUF_SIZE : text[i] \in Char
        BY <2>1, <3>2, SizeAssumption
      <4>2. SubSeq(text, 1, BUF_SIZE) \in Seq(Char)
        BY <4>1, SubSeqProperties, SizeAssumption
      <4>. QED
        BY <1>4, <3>2, <4>2 DEF PasteStart
    <3>. QED
      BY <3>1, <3>2
  <2>3. UNCHANGED <<Contents, answer>>
    BY <1>1, <1>4 DEF PasteStart
  <2>. QED
    BY <1>4, <2>2, <2>3 DEF PasteStart, ring, TypeOK
<1>5. CASE PasteChar
  <2>1. Head(rest) \in Char /\ Tail(rest) \in Seq(Char)
    BY <1>5, HeadTailProperties DEF PasteChar, TypeOK
  <2>2. /\ RingOK' /\ Contents' \in Seq(Char) /\ Queue!Put(Head(rest))
    BY <1>5, <2>1, PutCharStep DEF PasteChar
  <2>3. rest' = Tail(rest) /\ answer' = answer
    BY <1>5 DEF PasteChar, PutChar
  <2>. QED
    BY <2>1, <2>2, <2>3 DEF TypeOK, RingOK, Queue!Next
<1>6. CASE GetChar
  <2>1. CASE head = tail
    <3>1. UNCHANGED ring /\ answer' = Nothing /\ rest' = rest
      BY <1>6, <2>1 DEF GetChar, ring
    <3>2. Contents' = Contents
      BY <3>1 DEF ring, Contents, Count, Slot
    <3>3. Contents = <<>>
      BY <1>0, <2>1, CountRange, ContentsLen DEF TypeOK
    <3>. QED
      BY <3>1, <3>2, <3>3 DEF ring, TypeOK, Queue!Next, Queue!Get
  <2>2. CASE head # tail
    <3>1. /\ buffer' = buffer /\ head' = head /\ tail' = After(tail)
          /\ answer' = buffer[tail] /\ rest' = rest
      BY <1>6, <2>2 DEF GetChar
    <3>2. /\ Contents # <<>> /\ Head(Contents) = buffer[tail]
          /\ Contents' = Tail(Contents)
      BY <1>0, <2>2, <3>1, GetContents DEF TypeOK
    <3>3. Contents' \in Seq(Char) /\ tail' \in Slots /\ answer' \in Char \cup {Nothing}
      BY <1>0, <3>1, <3>2, CountRange, HeadTailProperties DEF TypeOK
    <3>. QED
      BY <3>1, <3>2, <3>3 DEF TypeOK, Queue!Next, Queue!Get
  <2>. QED
    BY <2>1, <2>2
<1>. QED
  BY <1>2, <1>3, <1>4, <1>5, <1>6 DEF Next

(* Whatever is typed, pasted and read, only characters that were typed or  *)
(* pasted are in the ring, never what the memory held before.              *)
THEOREM TypeCorrect == Spec => []TypeOK
BY TypeInit, Step, PTL DEF Spec

(* For every size of the ring, every sequence of key strokes, pastes and   *)
(* reads the program can see is one of the bounded queue.                  *)
THEOREM RingIsQueue == Spec => ImplementsQueue
<1>1. Init => Queue!Init
  BY InitContents DEF Init, Queue!Init
<1>. QED
  BY <1>1, Step, TypeCorrect, PTL DEF Spec, ImplementsQueue, Queue!Spec
=============================================================================
