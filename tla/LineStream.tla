----------------------------- MODULE LineStream -----------------------------
(***************************************************************************)
(* What the receiver thread of MPSshShell promises about text.  The bytes  *)
(* of the channel arrive in some order; every maximal non-empty run of     *)
(* ordinary bytes that an end-of-line byte closes is one line, and is      *)
(* handed to dataReceived: exactly once, whole and in order.  Blank lines  *)
(* are not handed over.  How the bytes were cut into reads plays no part,  *)
(* but for a read that cuts a line in a way the receiver has no provision  *)
(* for: it may spoil the next line handed over, and that one only.         *)
(***************************************************************************)
EXTENDS Sequences

CONSTANT Char      \* the ordinary bytes of the terminal's output

VARIABLES
  partial,   \* the ordinary bytes received since the last end of line
  lines,     \* the lines handed over so far
  whole      \* partial is all of the current line

vars == <<partial, lines, whole>>

Init == partial = <<>> /\ lines = <<>> /\ whole = TRUE

(* An ordinary byte arrives.                                               *)
Extend(c) == whole /\ partial' = Append(partial, c) /\ UNCHANGED <<lines, whole>>

(* An end of line arrives after some text: the line is complete.           *)
Terminate ==
  /\ whole
  /\ partial # <<>>
  /\ lines' = Append(lines, partial)
  /\ partial' = <<>>
  /\ UNCHANGED whole

(* A read cuts the line badly; until the next line is handed over nothing  *)
(* is said of the text held.                                               *)
Cut == whole /\ whole' = FALSE /\ UNCHANGED <<partial, lines>>

Suffer == ~whole /\ UNCHANGED <<lines, whole>>

(* Some text is handed over as a line, and all is well again.              *)
Recover ==
  /\ ~whole
  /\ \E i \in DOMAIN lines' : /\ lines'[i] # <<>>
                              /\ lines' = Append(lines, lines'[i])
  /\ partial' = <<>>
  /\ whole' = TRUE

Next == Terminate \/ (\E c \in Char : Extend(c)) \/ Cut \/ Suffer \/ Recover

Spec == Init /\ [][Next]_vars
=============================================================================
