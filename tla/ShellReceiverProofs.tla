------------------------ MODULE ShellReceiverProofs ------------------------
(***************************************************************************)
(* Proofs about ShellReceiver: its type invariant, that it implements      *)
(* LineStream, and that what it hands over is pieces of what it received,  *)
(* in order, for every alphabet and every buffer size.                     *)
(***************************************************************************)
EXTENDS ShellReceiver, SequenceTheorems, TLAPS

USE DEF Byte

(* The empty sequence is text, a line and a list of lines.                 *)
LEMMA NothingIsText ==
  <<>> \in Seq(Byte) /\ <<>> \in Seq(Char) /\ <<>> \in Seq(Seq(Char))
  OBVIOUS

(* Every chunk a read may return is a sequence of bytes.                   *)
LEMMA ChunkIsSeq == \A chunk \in Chunks : chunk \in Seq(Byte) /\ chunk # <<>>
  BY SMT DEF Chunks

(* What is looked at since nextstart has been received.                    *)
LineReceived == Len(line) <= Len(received)

(* A piece that ends with the last byte received is a piece.               *)
LEMMA PieceAtTheEnd ==
  ASSUME TypeOK, LineReceived PROVE Line \in Piece /\ Nothing \in Piece
<1>1. Len(received) \in Nat /\ Len(line) \in Nat
  BY DEF TypeOK
<1>2. Len(received) - Len(line) + 1 \in Nat /\ Len(received) + 1 \in Nat
  BY <1>1 DEF LineReceived
<1>3. QED BY <1>1, <1>2 DEF Line, Nothing, Piece

(* The loop's locals keep their types (MPSshShell.m:64-111).               *)
LEMMA ReceiverTypes == Spec => [](TypeOK /\ LineReceived)
<1>1. Init => TypeOK /\ LineReceived
  <2> SUFFICES ASSUME Init PROVE TypeOK /\ LineReceived
    OBVIOUS
  <2>1. LineReceived
    BY DEF Init, LineReceived
  <2>2. kept \in Piece
    BY DEF Init, Nothing, Piece
  <2>3. origin \in Seq(Piece \X Piece)
    BY DEF Init
  <2>4. QED BY <2>1, <2>2, <2>3, NothingIsText, Zenon DEF Init, TypeOK
<1>2. TypeOK /\ LineReceived /\ [Next]_vars => TypeOK' /\ LineReceived'
  <2> SUFFICES ASSUME TypeOK, LineReceived, [Next]_vars
               PROVE  TypeOK' /\ LineReceived'
    OBVIOUS
  <2>1. Line \in Piece
    BY PieceAtTheEnd
  <2> USE DEF TypeOK
  <2>2. ASSUME NEW chunk \in Chunks, Read(chunk) PROVE TypeOK' /\ LineReceived'
    <3>1. UNCHANGED <<origin, kept>>
      BY <2>2, Zenon DEF Read, pieces
    <3>2. LineReceived'
      BY <2>2 DEF Read, LineReceived
    <3>3. intact' \in BOOLEAN
      BY <2>2, Zenon DEF Read
    <3>4. QED BY <2>2, <3>1, <3>2, <3>3, ChunkIsSeq, NothingIsText, Zenon DEF Read
  <2>3. CASE ScanChar
    <3>1. Head(buffer) \in Char /\ Tail(buffer) \in Seq(Byte)
      BY <2>3, HeadTailProperties DEF ScanChar
    <3>2. LineReceived'
      BY <2>3, <3>1 DEF ScanChar, LineReceived
    <3>3. UNCHANGED <<origin, kept>>
      BY <2>3, Zenon DEF ScanChar, pieces
    <3>4. QED BY <2>3, <3>1, <3>2, <3>3 DEF ScanChar
  <2>4. CASE ScanEOL
    <3>1. Head(buffer) \in EOL /\ Tail(buffer) \in Seq(Byte)
      BY <2>4, HeadTailProperties DEF ScanEOL
    <3>2. res \o line \in Seq(Char)
      BY ConcatProperties
    <3>3. Append(received, Head(buffer)) \in Seq(Byte)
      BY <3>1, AppendProperties
    <3>4. delivered' \in Seq(Seq(Char)) /\ res' \in Seq(Char)
      <4>1. Append(delivered, res \o line) \in Seq(Seq(Char))
        BY <3>2, AppendProperties
      <4>2. QED BY <2>4, <4>1, NothingIsText, Zenon DEF ScanEOL
    <3>5. TypeOK'
      <4>1. received' = Append(received, Head(buffer)) /\ line' = <<>>
        BY <2>4, Zenon DEF ScanEOL
      <4>2. origin' \in Seq(Piece \X Piece)
        <5>1. Append(origin, <<kept, Line>>) \in Seq(Piece \X Piece)
          BY <2>1, AppendProperties
        <5>2. QED BY <2>4, <5>1, Zenon DEF ScanEOL, pieces
      <4>3. kept' \in Piece
        <5>1. Nothing' \in Piece
          <6>1. Len(received') \in Nat
            BY <3>3, <4>1
          <6>2. QED BY <6>1 DEF Nothing, Piece
        <5>2. QED BY <2>4, <5>1, Zenon DEF ScanEOL, pieces
      <4>4. QED
        BY <2>4, <3>1, <3>3, <3>4, <4>1, <4>2, <4>3, NothingIsText, Zenon
        DEF ScanEOL
    <3>6. LineReceived'
      BY <2>4, <3>5 DEF ScanEOL, LineReceived
    <3>7. QED BY <3>5, <3>6
  <2>5. CASE KeepTail
    <3>1. kept' \in Piece
      BY <2>1, <2>5, Zenon DEF KeepTail
    <3>2. LineReceived'
      BY <2>5 DEF KeepTail, LineReceived
    <3>3. QED BY <2>5, <3>1, <3>2, NothingIsText, Zenon DEF KeepTail
  <2>6. CASE UNCHANGED vars
    BY <2>6 DEF vars, pieces, LineReceived
  <2>7. QED BY <2>2, <2>3, <2>4, <2>5, <2>6 DEF Next
<1>3. QED BY <1>1, <1>2, PTL DEF Spec

(* The loop's locals keep their types (MPSshShell.m:64-111).               *)
THEOREM ReceiverTypeCorrect == Spec => []TypeOK
  BY ReceiverTypes, PTL

-----------------------------------------------------------------------------
(* The inductive invariant.  Outside the for loop nothing is pending in    *)
(* the buffer; inside it aChar says whether text has been seen since       *)
(* nextstart; and while text of an earlier read is held and no read has    *)
(* cut it badly, the end of its line is still in the buffer, and is not    *)
(* the next byte unless text of this read has been seen, so that it cannot *)
(* be taken for a blank line.                                              *)
LoopInv ==
  /\ pc = "read" => line = <<>>
  /\ aChar <=> line # <<>>
  /\ intact /\ pc = "scan" /\ res # <<>> =>
       /\ \E i \in 1 .. Len(buffer) : buffer[i] \in EOL
       /\ line # <<>> \/ Head(buffer) \in Char

IInv == TypeOK /\ LoopInv

(* Looking at an ordinary byte leaves the pending end of line pending.     *)
LEMMA EndStaysPending ==
  ASSUME NEW s \in Seq(Byte), s # <<>>, Head(s) \notin EOL,
         \E i \in 1 .. Len(s) : s[i] \in EOL
  PROVE  \E i \in 1 .. Len(Tail(s)) : Tail(s)[i] \in EOL
<1>1. PICK i \in 1 .. Len(s) : s[i] \in EOL
  OBVIOUS
<1>2. i # 1
  BY <1>1
<1>3. i - 1 \in 1 .. Len(Tail(s)) /\ Tail(s)[i - 1] = s[i]
  BY <1>2
<1>4. QED BY <1>1, <1>3

(* A sequence with an element appended has one.                            *)
LEMMA AppendNotEmpty ==
  ASSUME NEW S, NEW s \in Seq(S), NEW e \in S PROVE Append(s, e) # <<>>
  BY AppendProperties

(* The invariant holds throughout.                                         *)
LEMMA LoopInvariant == Spec => []IInv
<1>1. Init => LoopInv
  BY DEF Init, LoopInv
<1>2. TypeOK /\ LoopInv /\ [Next]_vars => LoopInv'
  <2> SUFFICES ASSUME TypeOK, LoopInv, [Next]_vars PROVE LoopInv'
    OBVIOUS
  <2> USE DEF TypeOK, LoopInv
  <2>0. CASE UNCHANGED <<pc, buffer, line, aChar, res, intact>>
    BY <2>0
  <2>1. ASSUME NEW chunk \in Chunks, Read(chunk) PROVE LoopInv'
    BY <2>1 DEF Read, SuitsTheLoop
  <2>2. CASE ScanChar
    <3>1. Head(buffer) \notin EOL
      BY <2>2, ReceiverAssumption DEF ScanChar
    <3>2. intact' /\ res' # <<>> => \E i \in 1 .. Len(buffer') : buffer'[i] \in EOL
      BY <2>2, <3>1, EndStaysPending DEF ScanChar
    <3>3. line' # <<>>
      <4>1. line \in Seq(Char) /\ Head(buffer) \in Char
            /\ line' = Append(line, Head(buffer))
        BY <2>2 DEF ScanChar
      <4>2. QED BY <4>1, AppendNotEmpty
    <3>4. QED BY <2>2, <3>2, <3>3 DEF ScanChar
  <2>3. CASE ScanEOL
    <3>1. intact' => res' = <<>>
      BY <2>3, ReceiverAssumption DEF ScanEOL
    <3>2. QED BY <2>3, <3>1 DEF ScanEOL
  <2>4. CASE KeepTail
    BY <2>4 DEF KeepTail
  <2>5. QED BY <2>0, <2>1, <2>2, <2>3, <2>4 DEF Next, vars
<1>3. QED BY <1>1, <1>2, ReceiverTypeCorrect, PTL DEF Spec, IInv

(* What reaches dataReceived: is exactly the lines of the text, however    *)
(* long they are and wherever the reads cut them, while the reads suit the *)
(* loop; one that does not spoils at most the next line handed over        *)
(* (MPSshShell.m:80-111).                                                  *)
THEOREM ReceiverImplementsLineStream == Spec => LineStreamSpec
<1> USE DEF Held
<1>1. Init => Lines!Init
  BY ConcatEmptySeq DEF Init, Lines!Init
<1>2. IInv /\ [Next]_vars => [Lines!Next]_(Lines!vars)
  <2> SUFFICES ASSUME IInv, [Next]_vars
               PROVE  Lines!Next \/ UNCHANGED <<Held, delivered, intact>>
    BY DEF Lines!vars
  <2> USE DEF IInv, TypeOK, LoopInv
  <2>0. CASE UNCHANGED <<res, line, delivered, intact>>
    BY <2>0
  <2>1. ASSUME NEW chunk \in Chunks, Read(chunk)
        PROVE  Lines!Next \/ UNCHANGED <<Held, delivered, intact>>
    <3>1. line = <<>> /\ line' = <<>> /\ res' = res /\ delivered' = delivered
          /\ (intact' = intact \/ (intact /\ intact' = FALSE))
      BY <2>1, Zenon DEF Read
    <3>2. Held' = Held
      BY <3>1
    <3>3. CASE intact' = intact
      BY <3>1, <3>2, <3>3
    <3>4. CASE intact /\ intact' = FALSE
      <4>1. Lines!Cut
        BY <3>1, <3>2, <3>4 DEF Lines!Cut
      <4>2. QED BY <4>1 DEF Lines!Next
    <3>5. QED BY <3>1, <3>3, <3>4
  <2>2. CASE ScanChar
    <3> DEFINE c == Head(buffer)
    <3>1. c \in Char /\ UNCHANGED <<delivered, intact>>
      BY <2>2 DEF ScanChar
    <3>2. <<c>> \in Seq(Char)
      BY <3>1
    <3>3. res \o Append(line, c) = (res \o line) \o <<c>>
      <4>1. Append(line, c) = line \o <<c>>
        BY <3>1, AppendIsConcat
      <4>2. res \o (line \o <<c>>) = (res \o line) \o <<c>>
        BY <3>2, ConcatAssociative
      <4>3. QED BY <4>1, <4>2
    <3>4. (res \o line) \o <<c>> = Append(res \o line, c)
      BY <3>1, ConcatProperties, AppendIsConcat
    <3>5. Held' = Append(Held, c)
      BY <2>2, <3>3, <3>4 DEF ScanChar
    <3>6. CASE intact
      <4>1. Lines!Extend(c)
        BY <3>1, <3>5, <3>6 DEF Lines!Extend
      <4>2. QED BY <3>1, <4>1 DEF Lines!Next
    <3>7. CASE ~intact
      <4>1. Lines!Suffer
        BY <3>1, <3>7 DEF Lines!Suffer
      <4>2. QED BY <4>1 DEF Lines!Next
    <3>8. QED BY <3>6, <3>7
  <2>3. CASE ScanEOL
    <3>1. CASE aChar
      <4>1. res \o line \in Seq(Char) /\ res \o line # <<>>
        BY <3>1, ConcatEqualIffEmpty, ConcatProperties
      <4>2. Held' = <<>>
        BY <2>3, <3>1, ConcatEmptySeq DEF ScanEOL
      <4>3. delivered' = Append(delivered, Held) /\ intact' = TRUE
        BY <2>3, <3>1 DEF ScanEOL
      <4>4. CASE intact
        <5>1. Lines!Terminate
          BY <4>1, <4>2, <4>3, <4>4 DEF Lines!Terminate
        <5>2. QED BY <5>1 DEF Lines!Next
      <4>5. CASE ~intact
        <5> DEFINE last == Len(delivered) + 1
        <5>1. last \in DOMAIN delivered' /\ delivered'[last] = Held
          BY <4>1, <4>3
        <5>2. delivered'[last] # <<>>
              /\ delivered' = Append(delivered, delivered'[last])
          BY <4>1, <4>3, <5>1
        <5>3. Lines!Recover
          BY <4>2, <4>3, <4>5, <5>1, <5>2 DEF Lines!Recover
        <5>4. QED BY <5>3 DEF Lines!Next
      <4>6. QED BY <4>4, <4>5
    <3>2. CASE ~aChar
      <4>1. /\ line = <<>> /\ line' = <<>> /\ res' = res
            /\ delivered' = delivered /\ intact' = intact
        BY <2>3, <3>2 DEF ScanEOL
      <4>2. QED BY <4>1
    <3>3. QED BY <3>1, <3>2
  <2>4. CASE KeepTail
    <3>1. UNCHANGED <<delivered, intact>>
      BY <2>4 DEF KeepTail
    <3>2. CASE intact
      <4>1. res = <<>>
        BY <2>4, <3>2 DEF KeepTail
      <4>2. Held = line /\ Held' = line
        BY <2>4, <4>1, ConcatEmptySeq DEF KeepTail
      <4>3. QED BY <3>1, <4>2
    <3>3. CASE ~intact
      <4>1. Lines!Suffer
        BY <3>1, <3>3 DEF Lines!Suffer
      <4>2. QED BY <4>1 DEF Lines!Next
    <3>4. QED BY <3>2, <3>3
  <2>5. QED BY <2>0, <2>1, <2>2, <2>3, <2>4 DEF Next, vars
<1>3. QED BY <1>1, <1>2, LoopInvariant, PTL DEF Spec, LineStreamSpec, Lines!Spec

-----------------------------------------------------------------------------
(* A piece of the bytes received.                                          *)
InReceived(piece) == 1 <= piece[1] /\ piece[2] <= Len(received)

(* What the receiver holds is the piece kept and the bytes since           *)
(* nextstart, and kept is in its place: after every line handed over and   *)
(* before nextstart.                                                       *)
HeldInv ==
  /\ InReceived(kept)
  /\ kept[1] <= kept[2] + 1
  /\ Before(kept, Line)
  /\ res = Text(kept)
  /\ line = Text(Line)

(* The i-th line handed over is the two pieces it is made of.              *)
MadeOf(i) ==
  /\ InReceived(origin[i][1]) /\ InReceived(origin[i][2])
  /\ delivered[i] = Text(origin[i][1]) \o Text(origin[i][2])
  /\ Text(origin[i][2]) # <<>>
  /\ Before(origin[i][1], origin[i][2])
  /\ Before(origin[i][2], kept)
  /\ \A j \in 1 .. (i - 1) : Before(origin[j][2], origin[i][1])

OriginInv ==
  /\ HeldInv
  /\ Len(origin) = Len(delivered)
  /\ \A i \in 1 .. Len(delivered) : MadeOf(i)

(* A piece of a sequence is the same piece of the sequence made longer.    *)
LEMMA PieceOfLonger ==
  ASSUME NEW S, NEW s \in Seq(S), NEW e \in S,
         NEW a \in Nat, NEW b \in Nat, 1 <= a, b <= Len(s)
  PROVE  SubSeq(Append(s, e), a, b) = SubSeq(s, a, b)
<1>1. CASE b < a
  BY <1>1, SubSeqEmpty
<1>2. CASE a <= b
  <2>1. a \in 1 .. Len(s) /\ b \in 1 .. Len(s)
    BY <1>2
  <2>2. Append(s, e) = s \o <<e>> /\ <<e>> \in Seq(S)
    BY AppendIsConcat
  <2>3. QED BY <2>1, <2>2, SubSeqOfConcat1
<1>3. QED BY <1>1, <1>2

(* The last piece of a sequence grows with it.                             *)
LEMMA LastPieceGrows ==
  ASSUME NEW S, NEW s \in Seq(S), NEW e \in S, NEW a \in 1 .. (Len(s) + 1)
  PROVE  SubSeq(Append(s, e), a, Len(s) + 1) = Append(SubSeq(s, a, Len(s)), e)
<1> DEFINE t == Append(s, e)
<1>1. t \in Seq(S) /\ Len(t) = Len(s) + 1 /\ t[Len(s) + 1] = e
  BY AppendProperties
<1>2. a \in 1 .. Len(t) /\ Len(t) \in a .. Len(t)
  BY <1>1
<1>3. SubSeq(t, a, Len(t)) = SubSeq(t, a, Len(t) - 1) \o <<t[Len(t)]>>
  BY <1>1, <1>2, SubSeqRecursiveSecond
<1>4. SubSeq(t, a, Len(s)) = SubSeq(s, a, Len(s))
  BY PieceOfLonger
<1>5. SubSeq(s, a, Len(s)) \in Seq(S)
  <2>1. \A i \in a .. Len(s) : s[i] \in S
    OBVIOUS
  <2>2. QED BY <2>1, SubSeqProperties
<1>6. Append(SubSeq(s, a, Len(s)), e) = SubSeq(s, a, Len(s)) \o <<e>>
  BY <1>5, AppendIsConcat
<1>7. QED BY <1>1, <1>3, <1>4, <1>6

(* A byte more leaves every piece of what was received as it was.          *)
LEMMA PiecesStay ==
  ASSUME TypeOK, NEW b \in Byte, received' = Append(received, b),
         NEW piece \in Piece, InReceived(piece)
  PROVE  /\ Text(piece)' = SubSeq(received, piece[1], piece[2])
         /\ InReceived(piece)'
<1>1. received \in Seq(Byte) /\ piece[1] \in Nat /\ piece[2] \in Nat
  BY DEF TypeOK, Piece
<1>2. SubSeq(Append(received, b), piece[1], piece[2])
        = SubSeq(received, piece[1], piece[2])
  BY <1>1, PieceOfLonger DEF InReceived
<1>3. Len(received') = Len(received) + 1
  BY <1>1, AppendProperties
<1>4. QED BY <1>1, <1>2, <1>3 DEF Text, InReceived

(* A line handed over stays made of its two pieces.                        *)
LEMMA MadeOfStays ==
  ASSUME TypeOK, Len(origin) = Len(delivered),
         received' = received \/ \E b \in Byte : received' = Append(received, b),
         NEW i \in 1 .. Len(delivered), MadeOf(i),
         \A j \in 1 .. i : origin'[j] = origin[j],
         delivered'[i] = delivered[i],
         origin[i][2][2] < kept'[1]
  PROVE  MadeOf(i)'
<1> DEFINE p == origin[i][1]
           q == origin[i][2]
<1>1. p \in Piece /\ q \in Piece
  BY DEF TypeOK
<1>2. /\ SubSeq(received', p[1], p[2]) = Text(p)
      /\ SubSeq(received', q[1], q[2]) = Text(q)
      /\ 1 <= p[1] /\ p[2] <= Len(received')
      /\ 1 <= q[1] /\ q[2] <= Len(received')
  <2>1. CASE received' = received
    BY <2>1 DEF MadeOf, InReceived, Text
  <2>2. ASSUME NEW b \in Byte, received' = Append(received, b)
        PROVE  /\ SubSeq(received', p[1], p[2]) = Text(p)
               /\ SubSeq(received', q[1], q[2]) = Text(q)
               /\ 1 <= p[1] /\ p[2] <= Len(received')
               /\ 1 <= q[1] /\ q[2] <= Len(received')
    <3>1. \A piece \in {p, q} : /\ SubSeq(received', piece[1], piece[2]) = Text(piece)
                                /\ 1 <= piece[1] /\ piece[2] <= Len(received')
      BY <1>1, <2>2, PiecesStay DEF MadeOf, InReceived, Text
    <3>2. QED BY <3>1
  <2>3. QED BY <2>1, <2>2
<1>3. origin'[i] = origin[i]
  OBVIOUS
<1>4. /\ InReceived(origin[i][1])' /\ InReceived(origin[i][2])'
      /\ (delivered[i] = Text(origin[i][1]) \o Text(origin[i][2]))'
      /\ (Text(origin[i][2]) # <<>>)'
  BY <1>2, <1>3 DEF MadeOf, InReceived, Text
<1>5. Before(origin[i][1], origin[i][2])' /\ Before(origin[i][2], kept)'
  BY <1>3 DEF MadeOf, Before
<1>6. (\A j \in 1 .. (i - 1) : Before(origin[j][2], origin[i][1]))'
  BY <1>3 DEF MadeOf, Before
<1>7. QED BY <1>4, <1>5, <1>6 DEF MadeOf

(* A line handed over ends before the text not yet handed over begins.     *)
LEMMA MadeOfBeforeLine ==
  ASSUME TypeOK, LineReceived, OriginInv, NEW i \in 1 .. Len(delivered)
  PROVE  origin[i][2][2] < Line[1] /\ origin[i][2][2] <= Len(received)
<1>1. origin[i] \in Piece \X Piece /\ kept \in Piece /\ Line \in Piece
  BY PieceAtTheEnd DEF OriginInv, TypeOK
<1>2. origin[i][2][2] < kept[1] /\ kept[1] <= kept[2] + 1 /\ kept[2] < Line[1]
      /\ origin[i][2][2] <= Len(received)
  BY DEF OriginInv, HeldInv, MadeOf, Before, InReceived
<1>3. origin[i][2][2] \in Nat /\ kept[1] \in Nat /\ kept[2] \in Nat /\ Line[1] \in Nat
  BY <1>1 DEF Piece
<1>4. QED BY <1>2, <1>3

(* The invariant holds throughout.                                         *)
LEMMA OriginInvariant == Spec => []OriginInv
<1>1. Init => OriginInv
  <2> SUFFICES ASSUME Init PROVE OriginInv
    OBVIOUS
  <2>1. kept = <<1, 0>> /\ Line = <<1, 0>> /\ Len(received) = 0
    BY DEF Init, Nothing, Line
  <2>2. SubSeq(received, 1, 0) = <<>>
    BY SubSeqEmpty
  <2>3. HeldInv
    BY <2>1, <2>2 DEF Init, HeldInv, InReceived, Before, Text
  <2>4. QED BY <2>3 DEF Init, OriginInv
<1>2. TypeOK /\ LineReceived /\ LoopInv /\ OriginInv /\ TypeOK' /\ [Next]_vars
        => OriginInv'
  <2> SUFFICES ASSUME TypeOK, LineReceived, LoopInv, OriginInv, TypeOK', [Next]_vars
               PROVE  OriginInv'
    OBVIOUS
  <2>a. Len(received) \in Nat /\ Len(line) \in Nat /\ Len(line) <= Len(received)
        /\ kept \in Piece /\ Line \in Piece /\ received \in Seq(Byte)
        /\ Len(origin) = Len(delivered)
    BY PieceAtTheEnd DEF TypeOK, LineReceived, OriginInv
  <2>b. HeldInv
    BY DEF OriginInv
  <2>0. CASE UNCHANGED vars
    BY <2>0 DEF vars, pieces, OriginInv, HeldInv, MadeOf, InReceived, Before, Text, Line
  <2>1. ASSUME NEW chunk \in Chunks, Read(chunk) PROVE OriginInv'
    <3>1. UNCHANGED <<res, delivered, received, origin, kept>> /\ line' = <<>>
          /\ line = <<>>
      BY <2>1, Zenon DEF Read, pieces, LoopInv
    <3>2. Line' = Line
      BY <3>1 DEF Line
    <3>3. HeldInv'
      BY <2>b, <3>1, <3>2 DEF HeldInv, InReceived, Before, Text
    <3>4. ASSUME NEW i \in 1 .. Len(delivered) PROVE MadeOf(i)'
      BY <3>1 DEF OriginInv, MadeOf, InReceived, Before, Text
    <3>5. QED BY <3>1, <3>3, <3>4 DEF OriginInv
  <2>2. CASE ScanChar
    <3> DEFINE c == Head(buffer)
    <3>1. /\ UNCHANGED <<res, delivered, origin, kept>> /\ c \in Byte /\ c \in Char
          /\ line' = Append(line, c) /\ received' = Append(received, c)
      BY <2>2, Zenon DEF ScanChar, pieces
    <3>2. Len(received') = Len(received) + 1 /\ Len(line') = Len(line) + 1
      BY <3>1 DEF TypeOK
    <3>3. Line' = <<Line[1], Len(received) + 1>> /\ Line[1] \in 1 .. (Len(received) + 1)
          /\ Line[2] = Len(received)
      BY <2>a, <3>2 DEF Line
    <3>4. line' = Text(Line)'
      <4>1. SubSeq(Append(received, c), Line[1], Len(received) + 1)
              = Append(SubSeq(received, Line[1], Len(received)), c)
        BY <2>a, <3>1, <3>3, LastPieceGrows
      <4>2. line = SubSeq(received, Line[1], Len(received))
        BY <2>b, <3>3 DEF HeldInv, Text
      <4>3. QED BY <3>1, <3>3, <4>1, <4>2 DEF Text
    <3>5. res' = Text(kept)' /\ InReceived(kept)'
      BY <2>a, <2>b, <3>1, PiecesStay DEF HeldInv, Text, InReceived
    <3>6. HeldInv'
      BY <2>b, <3>1, <3>3, <3>4, <3>5 DEF HeldInv, Before
    <3>7. ASSUME NEW i \in 1 .. Len(delivered) PROVE MadeOf(i)'
      <4>1. MadeOf(i) /\ origin[i][2][2] < kept'[1]
        BY <3>1 DEF OriginInv, MadeOf, Before
      <4>2. QED BY <2>a, <3>1, <4>1, MadeOfStays
    <3>8. QED BY <2>a, <3>1, <3>6, <3>7 DEF OriginInv
  <2>3. CASE ScanEOL
    <3> DEFINE c == Head(buffer)
    <3>1. c \in Byte /\ received' = Append(received, c) /\ line' = <<>>
      BY <2>3, Zenon DEF ScanEOL
    <3>2. Len(received') = Len(received) + 1
      BY <3>1 DEF TypeOK
    <3>3. Line' = <<Len(received) + 2, Len(received) + 1>>
      BY <2>a, <3>1, <3>2 DEF Line
    <3>4. line' = Text(Line)'
      BY <2>a, <3>1, <3>3, SubSeqEmpty DEF Text
    <3>5. CASE aChar
      <4>1. /\ delivered' = Append(delivered, res \o line) /\ res' = <<>>
            /\ origin' = Append(origin, <<kept, Line>>) /\ kept' = Nothing'
        BY <2>3, <3>5, Zenon DEF ScanEOL
      <4>2. kept' = <<Len(received) + 2, Len(received) + 1>>
        BY <2>a, <3>2, <4>1 DEF Nothing
      <4>3. HeldInv'
        <5>1. res' = Text(kept)'
          BY <2>a, <4>1, <4>2, SubSeqEmpty DEF Text
        <5>2. QED BY <2>a, <3>2, <3>3, <3>4, <4>2, <5>1
              DEF HeldInv, InReceived, Before
      <4>n. PICK n \in Nat : n = Len(delivered) + 1
        BY DEF TypeOK
      <4>4. Len(delivered') = n /\ Len(origin') = n /\ n \in Nat
            /\ origin'[n] = <<kept, Line>> /\ delivered'[n] = res \o line
            /\ \A i \in 1 .. Len(delivered) :
                 origin'[i] = origin[i] /\ delivered'[i] = delivered[i]
        <5>1. /\ delivered \in Seq(Seq(Char)) /\ res \o line \in Seq(Char)
              /\ origin \in Seq(Piece \X Piece) /\ <<kept, Line>> \in Piece \X Piece
          BY <2>a, ConcatProperties DEF TypeOK
        <5>2. /\ Len(delivered') = n /\ delivered'[n] = res \o line
              /\ \A i \in 1 .. Len(delivered) : delivered'[i] = delivered[i]
          BY <4>1, <4>n, <5>1, AppendProperties
        <5>3. /\ Len(origin') = n /\ origin'[n] = <<kept, Line>>
              /\ \A i \in 1 .. Len(delivered) : origin'[i] = origin[i]
          <6> DEFINE e == <<kept, Line>>
          <6> HIDE DEF e
          <6>1. e \in Piece \X Piece /\ origin' = Append(origin, e)
            BY <4>1, <5>1 DEF e
          <6>2. Len(origin) = Len(delivered) /\ Len(origin) \in Nat
            BY <2>a, <5>1
          <6>3. /\ Len(origin') = n /\ origin'[n] = e
                /\ \A i \in 1 .. Len(delivered) : origin'[i] = origin[i]
            BY <4>n, <5>1, <6>1, <6>2, AppendProperties
          <6>4. QED BY <6>3 DEF e
        <5>4. QED BY <5>2, <5>3
      <4>5. ASSUME NEW i \in 1 .. Len(delivered) PROVE MadeOf(i)'
        <5>1. MadeOf(i) /\ \A j \in 1 .. i : origin'[j] = origin[j]
          BY <4>4 DEF OriginInv
        <5>2. origin[i][2][2] <= Len(received)
          BY MadeOfBeforeLine
        <5>3. origin[i][2][2] \in Nat
          <6>1. origin[i] \in Piece \X Piece
            BY <2>a DEF TypeOK
          <6>2. QED BY <6>1 DEF Piece
        <5>4. origin[i][2][2] < kept'[1]
          BY <2>a, <4>2, <5>2, <5>3
        <5>5. QED BY <2>a, <3>1, <4>4, <5>1, <5>4, MadeOfStays
      <4>6. MadeOf(n)'
        <5>1. InReceived(kept) /\ InReceived(Line)
          BY <2>a, <2>b DEF HeldInv, InReceived, Line
        <5>2. /\ Text(kept)' = SubSeq(received', kept'[1], kept'[2])
              /\ SubSeq(received', kept[1], kept[2]) = Text(kept)
              /\ SubSeq(received', Line[1], Line[2]) = Text(Line)
              /\ kept[2] <= Len(received') /\ Line[2] <= Len(received')
          <6>1. \A piece \in {kept, Line} :
                  /\ SubSeq(received', piece[1], piece[2]) = Text(piece)
                  /\ piece[2] <= Len(received')
            BY <2>a, <3>1, <5>1, PiecesStay DEF Text, InReceived
          <6>2. QED BY <6>1 DEF Text
        <5>3. line # <<>>
          BY <3>5 DEF LoopInv
        <5>4. Before(kept, Line) /\ Line[2] < kept'[1]
          BY <2>a, <2>b, <4>2 DEF HeldInv, Line
        <5>5. ASSUME NEW j \in 1 .. (n - 1) PROVE origin'[j][2][2] < kept[1]
          BY <4>4, <4>n DEF OriginInv, MadeOf, Before
        <5>6. origin'[n][1] = kept /\ origin'[n][2] = Line
          BY <4>4
        <5>7. InReceived(origin[n][1])' /\ InReceived(origin[n][2])'
          BY <5>1, <5>2, <5>6 DEF InReceived
        <5>8. Text(origin[n][1])' = res /\ Text(origin[n][2])' = line
          BY <2>b, <5>2, <5>6 DEF HeldInv, Text
        <5>9. Before(origin[n][1], origin[n][2])' /\ Before(origin[n][2], kept)'
          BY <5>4, <5>6 DEF Before
        <5>10. (\A j \in 1 .. (n - 1) : Before(origin[j][2], origin[n][1]))'
          BY <5>5, <5>6 DEF Before
        <5>11. QED
          BY <4>4, <5>3, <5>7, <5>8, <5>9, <5>10, Zenon DEF MadeOf
      <4>7. \A i \in 1 .. Len(delivered') : i = n \/ i \in 1 .. Len(delivered)
        BY <4>4, <4>n
      <4>8. QED BY <4>3, <4>4, <4>5, <4>6, <4>7 DEF OriginInv
    <3>6. CASE ~aChar
      <4>1. UNCHANGED <<delivered, res, origin, kept>> /\ line = <<>>
        BY <2>3, <3>6, Zenon DEF ScanEOL, pieces, LoopInv
      <4>2. res' = Text(kept)' /\ InReceived(kept)'
        BY <2>a, <2>b, <3>1, <4>1, PiecesStay DEF HeldInv, Text, InReceived
      <4>3. kept[2] < Len(received) + 2
        <5>1. kept[2] \in Nat /\ kept[2] <= Len(received)
          BY <2>a, <2>b DEF HeldInv, InReceived, Piece
        <5>2. QED BY <2>a, <5>1
      <4>4. HeldInv'
        BY <2>b, <3>3, <3>4, <4>1, <4>2, <4>3 DEF HeldInv, Before
      <4>5. ASSUME NEW i \in 1 .. Len(delivered) PROVE MadeOf(i)'
        <5>1. MadeOf(i) /\ origin[i][2][2] < kept'[1]
          BY <4>1 DEF OriginInv, MadeOf, Before
        <5>2. QED BY <2>a, <3>1, <4>1, <5>1, MadeOfStays
      <4>6. QED BY <2>a, <4>1, <4>4, <4>5 DEF OriginInv
    <3>7. QED BY <3>5, <3>6
  <2>4. CASE KeepTail
    <3>1. res' = line /\ line' = <<>> /\ kept' = Line
          /\ UNCHANGED <<delivered, received, origin>>
      BY <2>4, Zenon DEF KeepTail
    <3>2. Line' = <<Len(received) + 1, Len(received)>>
      BY <2>a, <3>1 DEF Line
    <3>3. line' = Text(Line)'
      BY <2>a, <3>1, <3>2, SubSeqEmpty DEF Text
    <3>4. InReceived(Line) /\ Line[1] <= Line[2] + 1 /\ Line[2] < Line'[1]
      BY <2>a, <3>2 DEF InReceived, Line
    <3>5. HeldInv'
      BY <2>b, <3>1, <3>3, <3>4 DEF HeldInv, InReceived, Before, Text
    <3>6. ASSUME NEW i \in 1 .. Len(delivered) PROVE MadeOf(i)'
      <4>1. MadeOf(i) /\ origin[i][2][2] < kept'[1]
        BY <3>1, MadeOfBeforeLine DEF OriginInv
      <4>2. QED BY <2>a, <3>1, <4>1, MadeOfStays
    <3>7. QED BY <2>a, <3>1, <3>5, <3>6 DEF OriginInv
  <2>5. QED BY <2>0, <2>1, <2>2, <2>3, <2>4 DEF Next
<1>3. QED BY <1>1, <1>2, ReceiverTypes, LoopInvariant, PTL DEF Spec, IInv

(* However the reads cut the text, every line handed over is two pieces of *)
(* what was received, in order, and no byte is handed over twice           *)
(* (MPSshShell.m:80-111).                                                  *)
THEOREM NothingIsInvented == Spec => []NothingInvented
<1>1. OriginInv => NothingInvented
  <2> SUFFICES ASSUME OriginInv PROVE NothingInvented
    OBVIOUS
  <2>1. Held = Text(kept) \o Text(Line) /\ Before(kept, Line)
    BY DEF OriginInv, HeldInv, Held
  <2>2. QED BY <2>1, Zenon DEF OriginInv, MadeOf, NothingInvented
<1>2. QED BY <1>1, OriginInvariant, PTL
=============================================================================
