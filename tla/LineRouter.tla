----------------------------- MODULE LineRouter -----------------------------
(***************************************************************************)
(* What MPSshShell promises about the lines of an open shell, whoever      *)
(* calls it and however late the lines are.  They are taken in the order   *)
(* they came, one at a time; the one in hand goes to at most one place:    *)
(* the end of a result, the delegate, or nowhere.  The prompt is never     *)
(* recorded; from a prompt until the next call says otherwise every line   *)
(* is dropped; and a result that was returned at a prompt is final.        *)
(***************************************************************************)
EXTENDS Naturals, Sequences

CONSTANTS
  Line,      \* what the far end may send
  Prompt,    \* the line that ends a command
  Result     \* the results there may be

VARIABLES
  queue,     \* lines that have not been looked at, oldest first
  hand,      \* the line being dealt with: a sequence of at most one
  results,   \* the lines of each result
  atPrompt,  \* a prompt was seen, and no call has been made since
  final      \* the results returned at a prompt

vars == <<queue, hand, results, atPrompt, final>>

Init ==
  /\ queue \in Seq(Line)
  /\ hand = <<>>
  /\ results = [r \in Result |-> <<>>]
  /\ atPrompt = FALSE
  /\ final = {}

(* The far end sends more.                                                 *)
Arrive ==
  /\ Len(queue') >= Len(queue)
  /\ SubSeq(queue', 1, Len(queue)) = queue
  /\ UNCHANGED <<hand, results, atPrompt, final>>

Take ==
  /\ ~atPrompt
  /\ hand = <<>>
  /\ queue # <<>>
  /\ hand' = <<Head(queue)>>
  /\ queue' = Tail(queue)
  /\ UNCHANGED <<results, atPrompt, final>>

Drop ==
  /\ hand = <<>>
  /\ queue # <<>>
  /\ queue' = Tail(queue)
  /\ UNCHANGED <<hand, results, atPrompt, final>>

Record(r) ==
  /\ ~atPrompt
  /\ r \notin final
  /\ hand # <<>>
  /\ Head(hand) # Prompt
  /\ results' = [results EXCEPT ![r] = Append(@, Head(hand))]
  /\ hand' = <<>>
  /\ UNCHANGED <<queue, atPrompt, final>>

(* To the delegate.                                                        *)
Deliver ==
  /\ hand # <<>>
  /\ hand' = <<>>
  /\ UNCHANGED <<queue, results, atPrompt, final>>

SeePrompt ==
  /\ hand = <<Prompt>>
  /\ hand' = <<>>
  /\ atPrompt' = TRUE
  /\ UNCHANGED <<queue, results, final>>

(* A call is made.                                                         *)
LeavePrompt == atPrompt' = FALSE /\ UNCHANGED <<queue, hand, results, final>>

Return(r) ==
  /\ atPrompt
  /\ final' = final \cup {r}
  /\ UNCHANGED <<queue, hand, results, atPrompt>>

Next ==
  \/ Arrive \/ Take \/ Drop \/ Deliver \/ SeePrompt \/ LeavePrompt
  \/ \E r \in Result : Record(r) \/ Return(r)

Spec == Init /\ [][Next]_vars
=============================================================================
