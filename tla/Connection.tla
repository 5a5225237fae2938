----------------------------- MODULE Connection -----------------------------
(***************************************************************************)
(* What connectUsingParams:error: promises about the stages of a           *)
(* connection, whatever the network, the server and the delegate do.  In   *)
(* each try the delegate accepts the server's key first; only then may the *)
(* server accept the user; and with both, of that try, connect returns     *)
(* YES.  A try whose user was accepted is never given up, and one that was *)
(* given up is never taken up again: the next has a key and a user to have *)
(* accepted anew.  The loop goes round only after the user was refused by  *)
(* a server whose key was accepted.                                        *)
(***************************************************************************)
EXTENDS Naturals

VARIABLES
  state,     \* "closed", "trying" or "up"
  try,       \* the number of the last try
  key,       \* the last try whose key the delegate accepted
  user,      \* the last try whose user the server accepted
  answer     \* what the last connect returned: "YES", "NO" or "none"

vars == <<state, try, key, user, answer>>

Init ==
  /\ state = "closed"
  /\ try = 0 /\ key = 0 /\ user = 0
  /\ answer = "none"

Begin ==
  /\ state = "closed"
  /\ state' = "trying"
  /\ try' = try + 1
  /\ answer' = "none"
  /\ UNCHANGED <<key, user>>

AcceptKey ==
  /\ state = "trying"
  /\ key < try
  /\ key' = try
  /\ UNCHANGED <<state, try, user, answer>>

AcceptUser ==
  /\ state = "trying"
  /\ key = try
  /\ user < try
  /\ user' = try
  /\ UNCHANGED <<state, try, key, answer>>

Succeed ==
  /\ state = "trying"
  /\ key = try /\ user = try
  /\ state' = "up"
  /\ answer' = "YES"
  /\ UNCHANGED <<try, key, user>>

(* connect returns NO, or an exception leaves it.                          *)
GiveUp ==
  /\ state = "trying"
  /\ user < try
  /\ state' = "closed"
  /\ answer' \in {"NO", "none"}
  /\ UNCHANGED <<try, key, user>>

(* The delegate gives another password.                                    *)
Retry ==
  /\ state = "trying"
  /\ key = try /\ user < try
  /\ try' = try + 1
  /\ UNCHANGED <<state, key, user, answer>>

Close ==
  /\ state = "up"
  /\ state' = "closed"
  /\ UNCHANGED <<try, key, user, answer>>

Next ==
  Begin \/ AcceptKey \/ AcceptUser \/ Succeed \/ GiveUp \/ Retry \/ Close

Spec == Init /\ [][Next]_vars
=============================================================================
