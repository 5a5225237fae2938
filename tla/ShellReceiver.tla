--------------------------- MODULE ShellReceiver ---------------------------
(***************************************************************************)
(* How the receiver thread of MPSshShell cuts what it reads into lines     *)
(* (MPSshShell.m, receiver).  A read fills buffer with 1..MaxRead bytes;   *)
(* the for loop looks at one byte per step.  The loop keeps three things:  *)
(*   nextstart  modelled by `line', the bytes from nextstart up to the     *)
(*              current one;                                               *)
(*   aChar      an ordinary byte was seen since the last end of line OF    *)
(*              THIS BUFFER (it is a local of the read, reset every time); *)
(*   res        the tail of the previous buffer, nil and @"" both being    *)
(*              the empty sequence (line 96 treats them alike).            *)
(* '\n' and '\r' are both ends of line.  Bytes that are not text (NUL, a   *)
(* broken UTF-8 sequence) are left out.  What a read that returns no data  *)
(* does is in ShellLifecycle; what dataReceived: does with a line is in    *)
(* ShellCommands.                                                          *)
(***************************************************************************)
EXTENDS Naturals, Sequences, SequencesExt

CONSTANTS
  Char,          \* ordinary bytes
  EOL,           \* end-of-line bytes: '\n' and '\r'
  MaxRead,       \* most bytes one read returns (1023 in MPLSChannel.m:36)
  MaxBytes       \* bound: bytes received in a behaviour

ASSUME ReceiverAssumption ==
  /\ Char \cap EOL = {}
  /\ MaxRead \in Nat \ {0}
  /\ MaxBytes \in Nat

Byte == Char \cup EOL

VARIABLES
  pc,          \* "read": about to call read:, "scan": inside the for loop
  buffer,      \* the bytes of the current read not yet looked at
  line,        \* the bytes from nextstart up to here
  aChar,       \* the local of the same name
  res,         \* the local of the same name
  delivered,   \* history: the arguments of dataReceived:, in order
  received,    \* history: every byte looked at, in order
  origin,      \* history: the pieces of received each line delivered is made
               \* of, that of res and that of line
  kept,        \* history: the piece of received that res is
  intact       \* history: every read since the last line handed over has
               \* suited the loop, see SuitsTheLoop

pieces == <<origin, kept>>
vars == <<pc, buffer, line, aChar, res, delivered, received, pieces, intact>>

(* A piece of received, from its first to its last byte; one that ends     *)
(* before it begins is empty.                                              *)
Nothing == <<Len(received) + 1, Len(received)>>
Line == <<Len(received) - Len(line) + 1, Len(received)>>

Init ==
  /\ pc = "read"
  /\ buffer = <<>>
  /\ line = <<>>
  /\ aChar = FALSE
  /\ res = <<>>
  /\ delivered = <<>>
  /\ received = <<>>
  /\ origin = <<>>
  /\ kept = Nothing
  /\ intact = TRUE

(* The reads under which the loop keeps lines whole: one that starts in    *)
(* the middle of a line brings at least one more byte of that line, and    *)
(* brings its end.  The code does nothing to obtain such reads.            *)
SuitsTheLoop(chunk) ==
  res # <<>> => /\ Head(chunk) \in Char
                /\ \E i \in 1 .. Len(chunk) : chunk[i] \in EOL

(* [self.channel read:buffer] returned Len(chunk) > 0 bytes.               *)
Read(chunk) ==
  /\ pc = "read"
  /\ Len(received) + Len(chunk) <= MaxBytes
  /\ intact' = (intact /\ SuitsTheLoop(chunk))
  /\ pc' = "scan"
  /\ buffer' = chunk
  /\ line' = <<>>
  /\ aChar' = FALSE
  /\ UNCHANGED <<res, delivered, received, pieces>>

(* One iteration that meets an ordinary byte.                              *)
ScanChar ==
  /\ pc = "scan"
  /\ buffer # <<>>
  /\ Head(buffer) \in Char
  /\ line' = Append(line, Head(buffer))
  /\ aChar' = TRUE
  /\ buffer' = Tail(buffer)
  /\ received' = Append(received, Head(buffer))
  /\ UNCHANGED <<pc, res, delivered, pieces, intact>>

(* Mutant of ScanEOL: nextstart is left on the end of line.                *)
ScanEOLOffByOne ==
  /\ pc = "scan" /\ buffer # <<>> /\ Head(buffer) \in EOL
  /\ IF aChar THEN delivered' = Append(delivered, res \o line) /\ res' = <<>>
              ELSE UNCHANGED <<delivered, res>>
  /\ aChar' = FALSE
  /\ line' = <<Head(buffer)>>
  /\ intact' = (intact \/ aChar)
  /\ buffer' = Tail(buffer)
  /\ received' = Append(received, Head(buffer))
  /\ UNCHANGED <<pc, pieces>>

(* Mutant of ScanEOL: res = nil is forgotten.                              *)
ScanEOLKeepsRes ==
  /\ pc = "scan" /\ buffer # <<>> /\ Head(buffer) \in EOL
  /\ delivered' = IF aChar THEN Append(delivered, res \o line) ELSE delivered
  /\ origin' = IF aChar THEN Append(origin, <<kept, Line>>) ELSE origin
  /\ aChar' = FALSE
  /\ line' = <<>>
  /\ intact' = (intact \/ aChar)
  /\ buffer' = Tail(buffer)
  /\ received' = Append(received, Head(buffer))
  /\ UNCHANGED <<pc, res, kept>>

(* One iteration that meets an end of line: with aChar the held text and   *)
(* the text since nextstart are handed over and res is cleared; without    *)
(* it nothing is handed over and res stays.  nextstart moves either way.   *)
ScanEOL ==
  /\ pc = "scan"
  /\ buffer # <<>>
  /\ Head(buffer) \in EOL
  /\ received' = Append(received, Head(buffer))
  /\ IF aChar
     THEN /\ delivered' = Append(delivered, res \o line)
          /\ res' = <<>>
          /\ origin' = Append(origin, <<kept, Line>>)
          /\ kept' = Nothing'
     ELSE UNCHANGED <<delivered, res, pieces>>
  /\ intact' = (intact \/ aChar)
  /\ aChar' = FALSE
  /\ line' = <<>>
  /\ buffer' = Tail(buffer)
  /\ UNCHANGED pc

(* Mutant of KeepTail: the tail is kept only if nothing was held.          *)
KeepTailOnce ==
  /\ pc = "scan" /\ buffer = <<>>
  /\ res' = IF delivered = <<>> THEN line ELSE <<>>
  /\ line' = <<>>
  /\ aChar' = FALSE
  /\ pc' = "read"
  /\ kept' = IF delivered = <<>> THEN Line ELSE Nothing
  /\ UNCHANGED <<buffer, delivered, received, origin, intact>>

(* After the for loop: res = @(nextstart).                                 *)
KeepTail ==
  /\ pc = "scan"
  /\ buffer = <<>>
  /\ res' = line
  /\ line' = <<>>
  /\ aChar' = FALSE
  /\ pc' = "read"
  /\ kept' = Line
  /\ UNCHANGED <<buffer, delivered, received, origin, intact>>

Chunks == UNION {[1 .. n -> Byte] : n \in 1 .. MaxRead}

Next ==
  \/ \E chunk \in Chunks : Read(chunk)
  \/ ScanChar
  \/ ScanEOL
  \/ KeepTail

(* The thread goes on with a buffer it has; nothing makes the peer send.   *)
Spec == Init /\ [][Next]_vars /\ WF_vars(ScanChar \/ ScanEOL \/ KeepTail)

-----------------------------------------------------------------------------
Piece == Nat \X Nat

(* The type invariant of the loop's locals and of the two histories.       *)
TypeOK ==
  /\ pc \in {"read", "scan"}
  /\ buffer \in Seq(Byte)
  /\ line \in Seq(Char)
  /\ aChar \in BOOLEAN
  /\ res \in Seq(Char)
  /\ delivered \in Seq(Seq(Char))
  /\ received \in Seq(Byte)
  /\ origin \in Seq(Piece \X Piece) /\ kept \in Piece
  /\ intact \in BOOLEAN

(* The text the receiver holds: what a complete line would start with.     *)
Held == res \o line

Lines == INSTANCE LineStream
           WITH partial <- Held, lines <- delivered, whole <- intact

(* The receiver is a LineStream: while the reads suit the loop every line  *)
(* is handed to dataReceived: whole, once and in order, wherever the reads *)
(* cut the text, and a read that does not suit it spoils no more than the  *)
(* next line handed over (MPSshShell.m:80-111).                            *)
LineStreamSpec == Lines!Spec

(* The bytes of a piece; and that one piece ends before another begins.    *)
Text(piece) == SubSeq(received, piece[1], piece[2])
Before(p, q) == p[2] < q[1]

(* However the reads cut the text, the receiver never repeats, reorders or *)
(* makes up a byte: a line handed over is a piece of the text held from an *)
(* earlier read and a later, non-empty piece, byte for byte as received;   *)
(* it begins after the end of the one before, and what is held begins      *)
(* after the end of the last (MPSshShell.m:80-111).                        *)
NothingInvented ==
  /\ Len(origin) = Len(delivered)
  /\ \A i \in 1 .. Len(delivered) :
       /\ delivered[i] = Text(origin[i][1]) \o Text(origin[i][2])
       /\ Text(origin[i][2]) # <<>>
       /\ Before(origin[i][1], origin[i][2])
       /\ Before(origin[i][2], kept)
       /\ \A j \in 1 .. (i - 1) : Before(origin[j][2], origin[i][1])
  /\ Held = Text(kept) \o Text(Line)
  /\ Before(kept, Line)

(* The lines of s by definition: its maximal non-empty runs of ordinary    *)
(* bytes that an end of line closes.                                       *)
LinesOf(s) ==
  LET scan == FoldLeft(
        LAMBDA acc, b :
          IF b \in Char THEN [acc EXCEPT !.run = Append(@, b)]
          ELSE [run |-> <<>>,
                out |-> IF acc.run = <<>> THEN acc.out
                        ELSE Append(acc.out, acc.run)],
        [run |-> <<>>, out |-> <<>>], s)
  IN scan.out

(* "TODO : Gestire il caso di una riga piu' lunga del buffer" (to do:      *)
(* handle a line longer than the buffer, MPSshShell.m:62) leaves that one  *)
(* case open: when every line fits the buffer, the lines handed over are   *)
(* the lines of the text.                                                  *)
FittingLinesDelivered ==
  (\A i \in 1 .. Len(LinesOf(received)) : Len(LinesOf(received)[i]) <= MaxRead)
    => delivered = LinesOf(received)
=============================================================================
