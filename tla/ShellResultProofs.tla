------------------------- MODULE ShellResultProofs -------------------------
(***************************************************************************)
(* The proof of ResultExact: an execCommand: made while nothing was under  *)
(* way, and that returned at the prompt, returned what its command printed *)
(* and nothing else, for any number of calls and lines.  The argument      *)
(* follows the lines of one call from the far end over the wire and the    *)
(* receiver into the array.                                                *)
(***************************************************************************)
EXTENDS ShellCommandsProofs

(* What has no number yet has left no trace.                               *)
FreshInv ==
  /\ \A t \in Thread : call[t] <= calls
  /\ target <= calls
  /\ running <= calls
  /\ \A i \in 1 .. Len(stdin) : stdin[i] <= calls
  /\ \A d \in Call : d > calls => arrays[d] = <<>> /\ printed[d] = 0

(* The i-th line that call c, alone on the channel, puts on the wire, if   *)
(* it prints n.                                                            *)
Expected(c, n, i) == IF i <= n + 1 THEN Out(c, i - 1) ELSE LOGSPROMPT

(* The command has been written, if the write did not fail.                *)
Written == pc["app"] \in {"execPoll", "execResult"}

Pending == IF rcvPc = "read" THEN 0 ELSE 1

Recorded(c) ==
  \A i \in 1 .. Len(arrays[c]) : arrays[c][i] = Out(c, i - 1)

(* Array, receiver and wire hold, in this order, what was put on it.       *)
InOrder(c) ==
  /\ Len(arrays[c]) <= printed[c] + 1
  /\ Recorded(c)
  /\ rcvPc # "read" => data = Expected(c, printed[c], Len(arrays[c]) + 1)
  /\ \A i \in 1 .. Len(wire) :
       wire[i] = Expected(c, printed[c], Len(arrays[c]) + Pending + i)
  /\ Len(arrays[c]) + Pending + Len(wire)
       = printed[c] + (IF running = c THEN 1 ELSE 2)

Whole(c) == Len(arrays[c]) = printed[c] + 1 /\ Recorded(c)

(* The stages of a call that found nothing under way.                      *)
NotRead(c) ==
  /\ rcvPc = "read" /\ wire = <<>> /\ running = Nil
  /\ arrays[c] = <<>> /\ printed[c] = 0
  /\ stdin = <<>> \/ (Written /\ stdin = <<c>>)
  /\ pc["app"] # "execStatus" => status = "Command"

Underway(c) ==
  /\ Written /\ status = "Command"
  /\ stdin = <<>> /\ running \in {c, Nil}
  /\ InOrder(c)

Answered(c) ==
  /\ Written /\ status = "CommandComplete"
  /\ stdin = <<>> /\ running = Nil /\ wire = <<>> /\ rcvPc = "read"
  /\ Whole(c)

QuietInv ==
  \A c \in quiet :
    /\ call["app"] = c /\ cmdResult = c /\ promptSet
    /\ InExec("app")
    /\ rcvPc \in {"read", "command", "append"}
    /\ rcvPc = "append" => target = c /\ data # LOGSPROMPT
    /\ NotRead(c) \/ Underway(c) \/ Answered(c)

(* What was exact stays so: the command is over and its array is frozen.   *)
ExactInv ==
  /\ \A t \in Thread : call[t] # Nil => exact[call[t]] = Nil
  /\ \A c \in Call : exact[c] # Nil =>
       /\ exact[c] = c /\ c \in completed
       /\ running # c /\ \A i \in 1 .. Len(stdin) : stdin[i] # c
       /\ Whole(c)

-----------------------------------------------------------------------------
(* The elements of a sequence with one more at its end, and of its tail.   *)
LEMMA AppendElements ==
  ASSUME NEW S, NEW s \in Seq(S), NEW x \in S
  PROVE  /\ Append(s, x) \in Seq(S)
         /\ Len(Append(s, x)) = Len(s) + 1
         /\ \A i \in 1 .. Len(s) + 1 :
              Append(s, x)[i] = IF i <= Len(s) THEN s[i] ELSE x
  OBVIOUS

LEMMA TailElements ==
  ASSUME NEW S, NEW s \in Seq(S), s # <<>>
  PROVE  /\ Tail(s) \in Seq(S)
         /\ Len(Tail(s)) = Len(s) - 1
         /\ Len(s) \in Nat \ {0}
         /\ Head(s) = s[1] /\ Head(s) \in S
         /\ \A i \in 1 .. Len(s) - 1 : Tail(s)[i] = s[i + 1]
  OBVIOUS

LEMMA AppendBounded ==
  ASSUME NEW s \in Seq(Nat), NEW n \in Nat, NEW x \in Nat, x <= n + 1,
         \A i \in 1 .. Len(s) : s[i] <= n
  PROVE  \A i \in 1 .. Len(Append(s, x)) : Append(s, x)[i] <= n + 1
<1> SUFFICES ASSUME NEW i \in 1 .. Len(s) + 1
             PROVE  Append(s, x)[i] <= n + 1
  BY AppendElements
<1>1. Append(s, x)[i] = IF i <= Len(s) THEN s[i] ELSE x
  BY AppendElements
<1>2. CASE i <= Len(s)
  <2>1. i \in 1 .. Len(s) /\ s[i] \in Nat
    BY <1>2
  <2>2. QED BY <1>1, <1>2, <2>1
<1>3. QED BY <1>1, <1>2

LEMMA AppendAvoids ==
  ASSUME NEW s \in Seq(Nat), NEW x \in Nat, NEW c, x # c,
         \A i \in 1 .. Len(s) : s[i] # c
  PROVE  \A i \in 1 .. Len(Append(s, x)) : Append(s, x)[i] # c
<1> SUFFICES ASSUME NEW i \in 1 .. Len(s) + 1 PROVE Append(s, x)[i] # c
  BY AppendElements
<1>1. Append(s, x)[i] = IF i <= Len(s) THEN s[i] ELSE x
  BY AppendElements
<1>2. i <= Len(s) => i \in 1 .. Len(s)
  OBVIOUS
<1>3. QED BY <1>1, <1>2

(* What the far end has not read is numbers.                               *)
LEMMA StdinTyped == TypeOK => stdin \in Seq(Nat)
<1> SUFFICES ASSUME TypeOK PROVE stdin \in Seq(Nat)
  OBVIOUS
<1>1. Call \cup {CtrlC} \subseteq Nat
  BY DEF Call, CtrlC
<1>2. stdin \in Seq(Call \cup {CtrlC})
  BY DEF TypeOK
<1>3. \A i \in 1 .. Len(stdin) : stdin[i] \in Nat
  <2> SUFFICES ASSUME NEW i \in 1 .. Len(stdin) PROVE stdin[i] \in Nat
    OBVIOUS
  <2>1. stdin[i] \in Call \cup {CtrlC}
    BY <1>2
  <2>2. QED BY <1>1, <2>1
<1>4. QED BY <1>2, <1>3

(* Calls not made yet have an empty array and have printed nothing.        *)
LEMMA FreshInvariant == Spec => []FreshInv
<1>1. Init => FreshInv
  BY DEF Init, FreshInv, Nil, Thread, Call
<1>2. TypeOK /\ FrozenInv /\ FreshInv /\ [Next]_vars => FreshInv'
  <2> SUFFICES ASSUME TypeOK, FrozenInv, FreshInv, [Next]_vars
               PROVE  FreshInv'
    OBVIOUS
  <2> /\ calls \in Nat /\ cmdResult <= calls
      /\ call \in [Thread -> Call \cup {Nil}]
      /\ target \in Call \cup {Nil} /\ running \in Call \cup {Nil}
      /\ stdin \in Seq(Call \cup {CtrlC})
      /\ arrays \in [Call -> Seq(Line)]
      /\ printed \in [Call -> 0 .. MaxOut]
    BY DEF TypeOK, FrozenInv
  <2> Call \subseteq Nat /\ Nil = 0 /\ CtrlC = 0 /\ Thread = {"app", "rcv"}
    BY DEF Call, Nil, CtrlC, Thread
  <2> \A u \in Thread : call[u] \in Nat /\ call[u] <= calls
    BY DEF FreshInv
  <2> target \in Nat /\ running \in Nat /\ \A d \in Call : d \in Nat
    OBVIOUS
  <2> stdin \in Seq(Nat)
    BY StdinTyped
  <2> USE DEF FreshInv, rcvVars, shellVars, callVars, remoteVars, history,
      longHist
  <2>1. ASSUME NEW t \in Thread, Caller(t) PROVE FreshInv'
    <3>1. CASE ExecNewResult(t)
      <4>1. /\ calls' = calls + 1 /\ call' = [call EXCEPT ![t] = calls + 1]
            /\ UNCHANGED <<target, running, stdin, arrays, printed>>
        BY <3>1 DEF ExecNewResult, Begin
      <4>2. \A u \in Thread : call'[u] <= calls'
        <5> HIDE DEF FreshInv
        <5> QED BY <4>1
      <4>3. QED BY <4>1, <4>2
    <3>2. CASE LongWrite(t) \/ StopSendCtrlC(t) \/ SendCtrlC(t)
      <4>1. /\ calls' = calls + 1
            /\ call' = call \/ call' = [call EXCEPT ![t] = calls + 1]
            /\ UNCHANGED <<target, running, arrays, printed>>
        BY <3>2 DEF LongWrite, StopSendCtrlC, SendCtrlC, Begin
      <4>2. PICK x \in {calls + 1, CtrlC} :
              stdin' = stdin \/ stdin' = Append(stdin, x)
        BY <3>2 DEF LongWrite, StopSendCtrlC, SendCtrlC, Writes
      <4>3. \A i \in 1 .. Len(stdin') : stdin'[i] <= calls'
        <5>1. \A i \in 1 .. Len(stdin) : stdin[i] <= calls
          OBVIOUS
        <5> HIDE DEF FreshInv
        <5>2. x \in Nat /\ x <= calls + 1
          OBVIOUS
        <5>3. CASE stdin' = stdin
          BY ONLY calls \in Nat, stdin \in Seq(Nat), <4>1, <5>1, <5>3
        <5>4. CASE stdin' = Append(stdin, x)
          BY ONLY calls \in Nat, stdin \in Seq(Nat), <4>1, <5>1, <5>2, <5>4,
             AppendBounded
        <5>5. QED BY <4>2, <5>3, <5>4
      <4>4. \A u \in Thread : call'[u] <= calls'
        <5> HIDE DEF FreshInv
        <5> QED BY <4>1
      <4>5. QED BY <4>1, <4>3, <4>4
    <3>3. CASE ExecWrite(t)
      <4>1. /\ UNCHANGED <<calls, call, target, running, arrays, printed>>
            /\ stdin' = stdin \/ stdin' = Append(stdin, call[t])
        BY <3>3 DEF ExecWrite, Writes, Go
      <4>2. CASE stdin' = stdin
        BY <4>1, <4>2
      <4>3. CASE stdin' = Append(stdin, call[t])
        BY <4>1, <4>3
      <4>4. QED BY <4>1, <4>2, <4>3
    <3>4. CASE ExecSetStatus(t) \/ LongSetStatus(t) \/ ExecPoll(t)
               \/ ExecLeave(t)
      BY <3>4 DEF ExecSetStatus, LongSetStatus, ExecPoll, ExecLeave, Go
    <3>5. CASE ExecReturn(t) \/ LongResetCounter(t) \/ StopSetStatus(t)
      <4>1. /\ call' = [call EXCEPT ![t] = Nil]
            /\ UNCHANGED <<calls, target, running, stdin, arrays, printed>>
        BY <3>5 DEF ExecReturn, LongResetCounter, StopSetStatus, Return
      <4>2. \A u \in Thread : call'[u] <= calls'
        <5> HIDE DEF FreshInv
        <5> QED BY <4>1
      <4>3. QED BY <4>1, <4>2
    <3>6. QED
      BY <2>1, <3>1, <3>2, <3>3, <3>4, <3>5 DEF Caller, Returns
  <2>2. CASE Receiver
    <3>1. CASE AddObject
      BY <3>1 DEF AddObject, Done
    <3>2. CASE ~AddObject
      BY <2>2, <3>2 DEF Receiver, Dispatch, SeePrompt, ReadResult,
         ReadCounter, SetCounter, Deliver, CallbackReturns, Done
    <3>3. QED BY <3>1, <3>2
  <2>3. CASE Remote
    <3>1. UNCHANGED <<shellVars, callVars, rcvVars>>
      BY <2>3, RemoteFrame
    <3>2. CASE RemoteStart
      BY <3>1, <3>2 DEF RemoteStart
    <3>3. CASE RemotePrint
      BY <3>1, <3>3 DEF RemotePrint
    <3>4. CASE RemoteFinish
      BY <3>1, <3>4 DEF RemoteFinish
    <3>5. CASE RemoteInterrupt
      BY <3>1, <3>5 DEF RemoteInterrupt
    <3>6. QED BY <2>3, <3>2, <3>3, <3>4, <3>5 DEF Remote
  <2>4. CASE UNCHANGED vars
    BY <2>4 DEF vars
  <2>5. QED BY <2>1, <2>2, <2>3, <2>4 DEF Next
<1>3. QED
  BY <1>1, <1>2, CommandsTypeCorrect, FrozenInvariant, PTL DEF Spec

-----------------------------------------------------------------------------
(* While a call that found nothing under way is inside execCommand: no     *)
(* other call is made.                                                     *)
LEMMA NoCallMeanwhile ==
  ASSUME TypeOK, NestedInv, QuietInv
  PROVE  /\ \A t \in Thread : MayCall(t) => quiet = {}
         /\ quiet # {} => pc["rcv"] = "idle" /\ call["rcv"] = Nil
<1>1. ASSUME NEW c \in quiet
      PROVE  /\ pc["app"] # "idle" /\ rcvPc # "callback"
             /\ pc["rcv"] = "idle" /\ call["rcv"] = Nil
  <2>1. pc["app"] # "idle" /\ rcvPc # "callback"
    BY DEF QuietInv, InExec
  <2>2. QED BY <2>1 DEF NestedInv
<1>2. QED BY <1>1 DEF MayCall, Thread

(* The calls keep it.                                                      *)
LEMMA QuietCaller ==
  ASSUME TypeOK, NestedInv, FreshInv, QuietInv, NEW t \in Thread, Caller(t)
  PROVE  QuietInv'
<1> /\ pc \in [Thread -> {"idle", "execStatus", "execWrite", "execPoll",
                          "execResult", "longStatus", "longCounter", "stopStatus"}]
    /\ call \in [Thread -> Call \cup {Nil}]
    /\ calls \in Nat /\ quiet \subseteq Call
  BY DEF TypeOK
<1> Thread = {"app", "rcv"}
  BY DEF Thread
<1>1. CASE LongWrite(t) \/ SendCtrlC(t) \/ StopSendCtrlC(t)
  <2>1. quiet = {}
    BY <1>1, NoCallMeanwhile DEF LongWrite, SendCtrlC, StopSendCtrlC
  <2>2. quiet' = quiet
    BY <1>1 DEF LongWrite, SendCtrlC, StopSendCtrlC, history
  <2>3. QED BY <2>1, <2>2 DEF QuietInv
<1>2. CASE ExecNewResult(t)
  <2>1. quiet = {} /\ MayCall(t)
    BY <1>2, NoCallMeanwhile DEF ExecNewResult
  <2>2. SUFFICES ASSUME NEW c \in quiet'
        PROVE  /\ call'["app"] = c /\ cmdResult' = c /\ promptSet'
               /\ pc'["app"] = "execStatus"
               /\ NotRead(c)'
    BY DEF QuietInv, InExec, NotRead
  <2>3. c = calls + 1 /\ NothingUnderWay
    BY <1>2, <2>1 DEF ExecNewResult, FindsQuiet
  <2>4. t = "app"
    BY <2>1, <2>3 DEF MayCall, NothingUnderWay
  <2>5. /\ calls' = calls + 1 /\ call' = [call EXCEPT ![t] = calls + 1]
        /\ pc' = [pc EXCEPT ![t] = "execStatus"] /\ cmdResult' = calls + 1
        /\ UNCHANGED <<arrays, rcvVars, remoteVars>>
    BY <1>2 DEF ExecNewResult, Begin
  <2>6. c \in Call /\ arrays[c] = <<>> /\ printed[c] = 0
    <3>1. c \in Call
      BY <2>1, <2>3, CommandsAssumption DEF MayCall, Call
    <3>2. c > calls
      BY <2>3
    <3>3. QED BY <3>1, <3>2 DEF FreshInv
  <2>7. pc'["app"] = "execStatus" /\ call'["app"] = c /\ cmdResult' = c
    BY <2>3, <2>4, <2>5
  <2>8. /\ rcvPc' = "read" /\ wire' = <<>> /\ stdin' = <<>> /\ running' = Nil
        /\ promptSet' /\ arrays' = arrays /\ printed' = printed
    BY <2>3, <2>5 DEF NothingUnderWay, rcvVars, remoteVars
  <2>9. QED BY <2>6, <2>7, <2>8 DEF NotRead
<1>3. CASE Returns(t)
  <2>1. quiet' \subseteq quiet
    BY <1>3 DEF Returns, ExecSetStatus, ExecWrite, ExecPoll, ExecLeave,
       ExecReturn, HandOver, LongSetStatus, LongResetCounter, StopSetStatus,
       history
  <2>2. SUFFICES ASSUME NEW c \in quiet, c \in quiet'
                 PROVE  /\ call'["app"] = c /\ cmdResult' = c /\ promptSet'
                        /\ InExec("app")'
                        /\ rcvPc' = rcvPc /\ target' = target /\ data' = data
                        /\ NotRead(c)' \/ Underway(c)' \/ Answered(c)'
    BY <2>1 DEF QuietInv
  <2>3. pc["rcv"] = "idle" /\ call["app"] = c /\ InExec("app")
    BY NoCallMeanwhile DEF QuietInv
  <2>4. t = "app"
    BY <1>3, <2>3 DEF Returns, ExecSetStatus, ExecWrite, ExecPoll, ExecLeave,
       ExecReturn, LongSetStatus, LongResetCounter, StopSetStatus, Go
  <2>5. CASE ExecSetStatus(t)
    <3>1. /\ pc["app"] = "execStatus" /\ pc'["app"] = "execWrite"
          /\ status' = "Command"
          /\ UNCHANGED <<call, cmdResult, arrays, rcvVars, remoteVars>>
      BY <2>4, <2>5 DEF ExecSetStatus, Go
    <3>2. NotRead(c) /\ ~Written
      BY <3>1 DEF QuietInv, Underway, Answered, Written
    <3>3. NotRead(c)'
      BY <3>1, <3>2 DEF NotRead, rcvVars, remoteVars
    <3>4. QED BY <2>3, <3>1, <3>3 DEF QuietInv, InExec, rcvVars, remoteVars
  <2>6. CASE ExecWrite(t)
    <3>1. /\ pc["app"] = "execWrite" /\ pc'["app"] = "execPoll"
          /\ stdin' \in {stdin, Append(stdin, c)}
          /\ UNCHANGED <<call, shellVars, rcvVars, running, printed,
                         promptSet, wire>>
      BY <2>3, <2>4, <2>6 DEF ExecWrite, Writes, Go
    <3>2. NotRead(c) /\ ~Written /\ Written'
      BY <3>1 DEF QuietInv, Underway, Answered, Written
    <3>3. stdin' = <<>> \/ stdin' = <<c>>
      <4>1. stdin = <<>>
        BY <3>2 DEF NotRead
      <4>2. Append(<<>>, c) = <<c>>
        OBVIOUS
      <4>3. QED BY <3>1, <4>1, <4>2
    <3>4. NotRead(c)'
      BY <3>1, <3>2, <3>3 DEF NotRead, rcvVars, shellVars
    <3>5. QED BY <2>3, <3>1, <3>4 DEF QuietInv, InExec, rcvVars, shellVars
  <2>7. CASE ExecPoll(t) \/ ExecLeave(t)
    <3>1. /\ Written /\ Written'
          /\ pc["app"] # "execStatus" /\ pc'["app"] # "execStatus"
          /\ InExec("app")' /\ call' = call
          /\ UNCHANGED <<shellVars, rcvVars, remoteVars>>
      BY <2>3, <2>4, <2>7 DEF ExecPoll, ExecLeave, Go, Written, InExec
    <3>2. QED
      BY <2>3, <3>1 DEF QuietInv, NotRead, Underway, Answered, InOrder,
         Recorded, Pending, Expected, Whole, shellVars, rcvVars, remoteVars
  <2>8. CASE ExecReturn(t)
    BY <2>2, <2>3, <2>4, <2>8 DEF ExecReturn, HandOver
  <2>9. CASE LongSetStatus(t) \/ LongResetCounter(t) \/ StopSetStatus(t)
    BY <2>3, <2>4, <2>9 DEF LongSetStatus, LongResetCounter, StopSetStatus,
       Go, InExec
  <2>10. QED BY <1>3, <2>5, <2>6, <2>7, <2>8, <2>9 DEF Returns
<1>4. QED BY <1>1, <1>2, <1>3 DEF Caller

(* The receiver keeps it: lines go from the wire to the array in order,    *)
(* and the prompt is the last of them.                                     *)
LEMMA QuietReceiver ==
  ASSUME TypeOK, QuietInv, Receiver PROVE QuietInv'
<1> SUFFICES ASSUME NEW c \in quiet
             PROVE  /\ call'["app"] = c /\ cmdResult' = c /\ promptSet'
                    /\ InExec("app")'
                    /\ rcvPc' \in {"read", "command", "append"}
                    /\ rcvPc' = "append" => target' = c /\ data' # LOGSPROMPT
                    /\ NotRead(c)' \/ Underway(c)' \/ Answered(c)'
  BY DEF QuietInv, Receiver, Dispatch, SeePrompt, ReadResult, AddObject,
     ReadCounter, SetCounter, Deliver, CallbackReturns, history
<1> /\ arrays[c] \in Seq(Line) /\ wire \in Seq(Line) /\ printed[c] \in Nat
    /\ data \in Line /\ c \in Call /\ arrays \in [Call -> Seq(Line)]
  BY CommandsAssumption DEF TypeOK
<1>1. /\ call["app"] = c /\ cmdResult = c /\ promptSet /\ InExec("app")
      /\ rcvPc \in {"read", "command", "append"}
      /\ rcvPc = "append" => target = c /\ data # LOGSPROMPT
  BY DEF QuietInv
<1>2. /\ call' = call /\ pc' = pc /\ cmdResult' = cmdResult
      /\ stdin' = stdin /\ running' = running /\ printed' = printed
      /\ promptSet' = promptSet
  BY DEF Receiver, Dispatch, SeePrompt, ReadResult, AddObject, ReadCounter,
     SetCounter, Deliver, CallbackReturns, shellVars, callVars, remoteVars
<1>3. Underway(c)
  <2>1. ~(rcvPc = "read" /\ wire = <<>>)
    BY <1>1 DEF Receiver, Dispatch, SeePrompt, ReadResult, AddObject,
       ReadCounter, SetCounter, Deliver, CallbackReturns
  <2>2. QED BY <2>1 DEF QuietInv, NotRead, Answered
<1>4. \A i \in Nat : Out(c, i) # LOGSPROMPT
  BY DEF Out, LOGSPROMPT, Call, Nil
<1>5. CASE Dispatch
  <2>1. /\ rcvPc = "read" /\ rcvPc' = "command" /\ data' = wire[1]
        /\ wire # <<>> /\ wire' = Tail(wire)
        /\ UNCHANGED <<status, arrays>>
    BY <1>3, <1>5, TailElements DEF Dispatch, Underway, shellVars
  <2>2. /\ Len(wire') = Len(wire) - 1 /\ Len(wire) \in Nat \ {0}
        /\ \A i \in 1 .. Len(wire) - 1 : wire'[i] = wire[i + 1]
    BY <2>1, TailElements
  <2>3. Pending = 0 /\ Pending' = 1
    BY <2>1 DEF Pending
  <2> DEFINE n == Len(arrays[c])
             k == Len(wire)
             p == printed[c]
  <2>4. /\ n \in Nat /\ k \in Nat \ {0} /\ n <= p + 1 /\ Recorded(c)
        /\ \A i \in 1 .. k : wire[i] = Expected(c, p, n + 0 + i)
        /\ n + 0 + k = p + (IF running = c THEN 1 ELSE 2)
    BY <1>3, <2>2, <2>3 DEF Underway, InOrder
  <2>5. /\ data' = Expected(c, p, n + 1)
        /\ \A i \in 1 .. k - 1 : wire'[i] = Expected(c, p, n + 1 + i)
        /\ n + 1 + (k - 1) = p + (IF running = c THEN 1 ELSE 2)
    <3>1. data' = Expected(c, p, n + 0 + 1)
      BY <2>1, <2>4
    <3>2. \A i \in 1 .. k - 1 : /\ wire'[i] = Expected(c, p, n + 0 + (i + 1))
                                /\ n + 0 + (i + 1) = n + 1 + i
      <4>1. SUFFICES ASSUME NEW i \in 1 .. k - 1
            PROVE  /\ wire[i + 1] = Expected(c, p, n + 0 + (i + 1))
                   /\ n + 0 + (i + 1) = n + 1 + i
        BY <2>2
      <4>2. i + 1 \in 1 .. k
        BY <2>4
      <4>3. QED BY <2>4, <4>2
    <3>3. n + 0 + 1 = n + 1 /\ n + 0 + k = n + 1 + (k - 1)
      BY <2>4
    <3>4. QED BY <2>4, <3>1, <3>2, <3>3
  <2>6. InOrder(c)'
    BY <1>2, <2>1, <2>2, <2>3, <2>4, <2>5 DEF InOrder, Recorded
  <2>7. QED BY <1>1, <1>2, <1>3, <2>1, <2>6 DEF Underway, Written, InExec
<1>6. CASE SeePrompt
  <2>1. /\ rcvPc = "command" /\ data = LOGSPROMPT /\ rcvPc' = "read"
        /\ status' = "CommandComplete" /\ arrays' = arrays /\ wire' = wire
    BY <1>6 DEF SeePrompt, Done, remoteVars
  <2>2. Len(arrays[c]) = printed[c] + 1 /\ Len(wire) = 0 /\ running = Nil
    BY <1>3, <1>4, <2>1 DEF Underway, InOrder, Pending, Expected
  <2>3. Answered(c)'
    BY <1>1, <1>2, <1>3, <2>1, <2>2
    DEF Underway, InOrder, Answered, Whole, Recorded, Written
  <2>4. QED BY <1>1, <1>2, <2>1, <2>3 DEF InExec
<1>7. CASE ReadResult
  <2>1. /\ rcvPc = "command" /\ data # LOGSPROMPT /\ rcvPc' = "append"
        /\ target' = c /\ UNCHANGED <<status, arrays, wire, data>>
    BY <1>1, <1>7 DEF ReadResult, shellVars, remoteVars
  <2>2. InOrder(c)'
    BY <1>2, <1>3, <2>1
    DEF Underway, InOrder, Recorded, Pending, Expected
  <2>3. QED BY <1>1, <1>2, <1>3, <2>1, <2>2 DEF Underway, Written, InExec
<1>8. CASE AddObject
  <2>1. /\ rcvPc = "append" /\ rcvPc' = "read" /\ UNCHANGED <<status, wire>>
        /\ arrays'[c] = Append(arrays[c], data)
    BY <1>1, <1>8 DEF AddObject, Done, remoteVars
  <2>2. /\ Len(arrays'[c]) = Len(arrays[c]) + 1
        /\ \A i \in 1 .. Len(arrays[c]) + 1 :
             arrays'[c][i] = IF i <= Len(arrays[c]) THEN arrays[c][i] ELSE data
    BY <2>1, AppendElements
  <2>3. data = Out(c, Len(arrays[c])) /\ Len(arrays[c]) + 1 <= printed[c] + 1
    BY <1>1, <1>3, <2>1 DEF Underway, InOrder, Expected
  <2>4. Recorded(c)'
    <3>1. \A i \in 1 .. Len(arrays[c]) : arrays[c][i] = Out(c, i - 1)
      BY <1>3 DEF Underway, InOrder, Recorded
    <3>2. SUFFICES ASSUME NEW i \in 1 .. Len(arrays[c]) + 1
                   PROVE  arrays'[c][i] = Out(c, i - 1)
      BY <2>2 DEF Recorded
    <3>3. CASE i <= Len(arrays[c])
      BY <2>2, <3>1, <3>3
    <3>4. CASE ~(i <= Len(arrays[c]))
      <4>1. i = Len(arrays[c]) + 1 /\ i - 1 = Len(arrays[c])
        BY <3>4
      <4>2. QED BY <2>2, <2>3, <3>4, <4>1
    <3>5. QED BY <3>3, <3>4
  <2>5. InOrder(c)'
    BY <1>2, <1>3, <2>1, <2>2, <2>3, <2>4
    DEF Underway, InOrder, Pending, Expected
  <2>6. QED BY <1>1, <1>2, <1>3, <2>1, <2>5 DEF Underway, Written, InExec
<1>9. QED
  BY <1>1, <1>5, <1>6, <1>7, <1>8 DEF Receiver, ReadCounter, SetCounter,
     Deliver, CallbackReturns

(* So does the far end.                                                    *)
LEMMA QuietRemote ==
  ASSUME TypeOK, QuietInv, Remote PROVE QuietInv'
<1>1. UNCHANGED <<shellVars, callVars, rcvVars, history>>
  BY RemoteFrame
<1> SUFFICES ASSUME NEW c \in quiet
             PROVE  promptSet' /\ (NotRead(c)' \/ Underway(c)' \/ Answered(c)')
  BY <1>1 DEF QuietInv, InExec, shellVars, callVars, rcvVars, history
<1> /\ arrays[c] \in Seq(Line) /\ wire \in Seq(Line) /\ printed[c] \in Nat
    /\ c \in Call /\ printed \in [Call -> 0 .. MaxOut]
  BY CommandsAssumption DEF TypeOK
<1>2. promptSet /\ c # Nil /\ c # CtrlC
  BY DEF QuietInv, Call, Nil, CtrlC
<1>3. /\ UNCHANGED <<arrays, status, pc, rcvPc, data>>
  BY <1>1 DEF shellVars, callVars, rcvVars
<1>4. LOGSPROMPT \in Line /\ Echo(c) \in Line
      /\ Echo(c) = Out(c, 0)
  BY LinesTyped DEF Echo, Out
<1>5. CASE NotRead(c)
  <2>1. Written /\ stdin = <<c>> /\ RemoteStart
    <3>1. stdin # <<>>
      BY <1>5 DEF NotRead, Remote, RemoteStart, RemotePrint, RemoteFinish,
         RemoteInterrupt
    <3>2. Written /\ stdin = <<c>>
      BY <1>5, <3>1 DEF NotRead
    <3>3. ~RemoteInterrupt
      <4>1. \A i \in 1 .. Len(stdin) : stdin[i] = c
        BY <3>2
      <4>2. QED BY <1>2, <4>1 DEF RemoteInterrupt
    <3>4. QED
      BY <1>5, <3>2, <3>3 DEF NotRead, Remote, RemotePrint, RemoteFinish
  <2>2. /\ running' = c /\ stdin' = <<>> /\ wire' = Append(wire, Echo(c))
        /\ printed' = printed /\ promptSet' = promptSet
    BY <2>1 DEF RemoteStart
  <2>3. Len(wire') = 1 /\ wire'[1] = Echo(c)
    BY <1>5, <2>2 DEF NotRead
  <2>4. InOrder(c)'
    BY <1>3, <1>4, <1>5, <2>2, <2>3
    DEF NotRead, InOrder, Recorded, Pending, Expected
  <2>5. Written /\ Written' /\ status = "Command"
    BY <1>3, <1>5, <2>1 DEF NotRead, Written
  <2>6. QED BY <1>2, <1>3, <2>2, <2>4, <2>5 DEF Underway
<1>6. CASE Underway(c)
  <2>1. running = c /\ (RemotePrint \/ RemoteFinish)
    BY <1>6 DEF Underway, Remote, RemoteStart, RemotePrint, RemoteFinish,
       RemoteInterrupt
  <2>2. stdin' = stdin
    BY <2>1 DEF RemotePrint, RemoteFinish
  <2> DEFINE n == Len(arrays[c]) + Pending
             k == Len(wire)
             p == printed[c]
  <2>3. n \in Nat /\ k \in Nat /\ p \in Nat /\ n + k = p + 1
    <3>1. n \in Nat /\ k \in Nat /\ p \in Nat
      <4>1. Pending \in {0, 1}
        BY DEF Pending
      <4>2. Len(arrays[c]) \in Nat /\ Len(wire) \in Nat
        OBVIOUS
      <4>3. QED BY <4>1, <4>2
    <3>2. n + k = p + 1
      BY <1>6, <2>1 DEF Underway, InOrder
    <3>3. QED BY <3>1, <3>2
  <2>4. \A i \in 1 .. k : wire[i] = Out(c, n + i - 1)
    <3>1. \A i \in 1 .. k : wire[i] = Expected(c, p, n + i)
      BY <1>6 DEF Underway, InOrder
    <3>2. \A i \in 1 .. k : n + i <= p + 1
      BY <2>3
    <3> HIDE DEF n, k, p
    <3>3. QED BY <2>3, <3>1, <3>2 DEF Expected
  <2>5. n' = n
    BY <1>3 DEF Pending
  <2>6. /\ Len(arrays[c]) <= p + 1 /\ Recorded(c)
        /\ rcvPc # "read" => data = Out(c, Len(arrays[c]))
    <3>1. /\ Len(arrays[c]) <= p + 1 /\ Recorded(c)
          /\ rcvPc # "read" => data = Expected(c, p, Len(arrays[c]) + 1)
      BY <1>6 DEF Underway, InOrder
    <3>2. rcvPc # "read" => Len(arrays[c]) + 1 <= p + 1
      BY <2>3 DEF Pending
    <3>3. QED BY <3>1, <3>2 DEF Expected
  <2>7. SUFFICES ASSUME NEW x \in Line, NEW q \in Nat, q >= p, printed'[c] = q,
                        wire' = Append(wire, x), x = Expected(c, q, p + 2),
                        n + k + 1 = q + (IF running' = c THEN 1 ELSE 2),
                        running' \in {c, Nil}, promptSet'
                 PROVE  Underway(c)'
    <3>1. CASE RemotePrint
      <4>1. /\ printed'[c] = p + 1 /\ running' = c
            /\ wire' = Append(wire, Out(c, p + 1)) /\ promptSet'
        BY <1>2, <2>1, <3>1 DEF RemotePrint
      <4>2. Out(c, p + 1) \in Line
        BY <2>1, <3>1, CommandsAssumption, LinesTyped DEF RemotePrint, TypeOK
      <4>3. Expected(c, printed'[c], p + 2) = Out(c, p + 1)
        BY <2>3, <4>1 DEF Expected
      <4>4. QED BY <2>3, <4>1, <4>2, <4>3
    <3>2. CASE RemoteFinish
      <4>1. printed' = printed /\ running' = Nil /\ promptSet'
        BY <1>2, <3>2 DEF RemoteFinish
      <4>2. wire' = wire \o <<LOGSPROMPT>>
        BY <3>2, <4>1 DEF RemoteFinish, PromptLines
      <4>3. wire' = Append(wire, LOGSPROMPT)
        BY <1>4, <4>2, AppendIsConcat
      <4>4. Expected(c, printed'[c], p + 2) = LOGSPROMPT
        BY <2>3, <4>1 DEF Expected
      <4>5. n + k + 1 = p + 2
        <5> HIDE DEF n, k, p
        <5> QED BY <2>3
      <4>6. QED BY <1>2, <1>4, <2>3, <4>1, <4>3, <4>4, <4>5
    <3>3. QED BY <2>1, <3>1, <3>2
  <2>8. /\ Len(wire') = k + 1
        /\ \A i \in 1 .. k + 1 : wire'[i] = IF i <= k THEN wire[i] ELSE x
    BY <2>7, AppendElements
  <2>9. \A i \in 1 .. Len(wire') : wire'[i] = Expected(c, q, n + i)
    <3>1. SUFFICES ASSUME NEW i \in 1 .. k + 1
                   PROVE  wire'[i] = Expected(c, q, n + i)
      BY <2>8
    <3>2. CASE i <= k
      <4>1. n + i <= q + 1 /\ i \in 1 .. k
        <5> HIDE DEF n, k, p
        <5> QED BY <2>3, <2>7, <3>1, <3>2
      <4>2. Expected(c, q, n + i) = Out(c, n + i - 1)
        <5> HIDE DEF n, k, p
        <5> QED BY <2>3, <2>7, <3>1, <4>1 DEF Expected
      <4>3. QED BY <2>4, <2>8, <3>2, <4>1, <4>2
    <3>3. CASE ~(i <= k)
      <4>1. n + i = p + 2
        BY <2>3, <3>3
      <4>2. QED BY <2>7, <2>8, <3>3, <4>1
    <3>4. QED BY <3>2, <3>3
  <2>10. /\ Len(arrays[c]) <= q + 1
         /\ rcvPc # "read" => data = Expected(c, q, Len(arrays[c]) + 1)
    <3>1. Len(arrays[c]) \in Nat /\ Len(arrays[c]) + 1 - 1 = Len(arrays[c])
      OBVIOUS
    <3>2. rcvPc # "read" => Len(arrays[c]) + 1 <= q + 1
      BY <2>3, <2>7 DEF Pending
    <3>3. Len(arrays[c]) <= q + 1
      BY <2>3, <2>6, <2>7, <3>1
    <3>4. QED BY <2>6, <2>7, <3>1, <3>2, <3>3 DEF Expected
  <2>11. InOrder(c)'
    <3>1. arrays' = arrays /\ rcvPc' = rcvPc /\ data' = data /\ Pending' = Pending
      BY <1>3 DEF Pending
    <3>2. Len(arrays[c]) + Pending + Len(wire')
            = q + (IF running' = c THEN 1 ELSE 2)
      <4>1. n + (k + 1) = n + k + 1
        <5> HIDE DEF n, k, p
        <5> QED BY <2>3
      <4>2. QED BY <2>7, <2>8, <4>1
    <3>3. QED
      BY <2>6, <2>7, <2>9, <2>10, <3>1, <3>2 DEF InOrder, Recorded
  <2>12. QED BY <1>3, <1>6, <2>2, <2>7, <2>11 DEF Underway, Written
<1>7. ~Answered(c)
  BY DEF Answered, Remote, RemoteStart, RemotePrint, RemoteFinish,
     RemoteInterrupt
<1>8. QED BY <1>5, <1>6, <1>7 DEF QuietInv

LEMMA QuietInvariant == Spec => []QuietInv
<1>1. Init => QuietInv
  BY DEF Init, QuietInv
<1>2. TypeOK /\ NestedInv /\ FreshInv /\ QuietInv /\ [Next]_vars => QuietInv'
  <2> SUFFICES ASSUME TypeOK, NestedInv, FreshInv, QuietInv, [Next]_vars
               PROVE  QuietInv'
    OBVIOUS
  <2>1. CASE \E t \in Thread : Caller(t)
    BY <2>1, QuietCaller
  <2>2. CASE Receiver
    BY <2>2, QuietReceiver
  <2>3. CASE Remote
    BY <2>3, QuietRemote
  <2>4. CASE UNCHANGED vars
    <3>1. UNCHANGED <<shellVars, callVars, rcvVars, remoteVars, quiet>>
      BY <2>4 DEF vars, history
    <3>2. ASSUME NEW c \in quiet
          PROVE  /\ NotRead(c)' = NotRead(c) /\ Underway(c)' = Underway(c)
                 /\ Answered(c)' = Answered(c)
      BY <3>1 DEF shellVars, callVars, rcvVars, remoteVars, NotRead, Underway,
         Answered, InOrder, Recorded, Pending, Whole, Written
    <3>3. QED
      BY <3>1, <3>2 DEF shellVars, callVars, rcvVars, remoteVars, QuietInv,
         InExec
  <2>5. QED BY <2>1, <2>2, <2>3, <2>4 DEF Next
<1>3. QED
  BY <1>1, <1>2, CommandsTypeCorrect, NestedInvariant, FreshInvariant, PTL
  DEF Spec

-----------------------------------------------------------------------------
(* A result that was exact stays so.                                       *)
LEMMA ExactCaller ==
  ASSUME TypeOK, NestedInv, FrozenInv, FreshInv, QuietInv, ExactInv,
         NEW t \in Thread, Caller(t)
  PROVE  ExactInv'
<1> /\ calls \in Nat /\ call \in [Thread -> Call \cup {Nil}]
    /\ quiet \subseteq Call /\ exact \in [Call -> Call \cup {Nil}]
    /\ stdin \in Seq(Nat) /\ Call \subseteq Nat /\ Nil = 0 /\ CtrlC = 0
    /\ Nil \notin Call
  BY StdinTyped DEF TypeOK, Call, Nil, CtrlC
<1>1. \A c \in Call : exact[c] # Nil => c <= calls
  BY DEF ExactInv, FrozenInv
<1>2. arrays' = arrays /\ printed' = printed /\ running' = running
  BY DEF Caller, Returns, ExecNewResult, ExecSetStatus, ExecWrite, ExecPoll,
     ExecLeave, ExecReturn, LongWrite, LongSetStatus, LongResetCounter,
     SendCtrlC, StopSendCtrlC, StopSetStatus, shellVars, remoteVars
<1>3. CASE ExecNewResult(t) \/ LongWrite(t) \/ SendCtrlC(t) \/ StopSendCtrlC(t)
  <2>1. /\ calls + 1 \in Call
        /\ call' = call \/ call' = [call EXCEPT ![t] = calls + 1]
        /\ exact' = exact /\ completed' = completed
    BY <1>3, CommandsAssumption
    DEF ExecNewResult, LongWrite, SendCtrlC, StopSendCtrlC, MayCall, Begin,
        Call, history
  <2>2. exact[calls + 1] = Nil
    BY <1>1, <2>1
  <2>3. \A u \in Thread : call'[u] # Nil => exact'[call'[u]] = Nil
    BY <2>1, <2>2 DEF ExactInv
  <2>4. stdin' = stdin \/ \E x \in {calls + 1, CtrlC} : stdin' = Append(stdin, x)
    BY <1>3 DEF ExecNewResult, LongWrite, SendCtrlC, StopSendCtrlC, Writes,
       remoteVars
  <2>5. ASSUME NEW c \in Call, exact[c] # Nil
        PROVE  \A i \in 1 .. Len(stdin') : stdin'[i] # c
    <3>1. CASE stdin' = stdin
      BY <2>5, <3>1 DEF ExactInv
    <3>2. ASSUME NEW x \in {calls + 1, CtrlC}, stdin' = Append(stdin, x)
          PROVE  \A i \in 1 .. Len(stdin') : stdin'[i] # c
      <4>1. x \in Nat /\ x # c
        BY <1>1, <2>5
      <4>2. \A i \in 1 .. Len(stdin) : stdin[i] # c
        BY <2>5 DEF ExactInv
      <4>3. QED BY ONLY stdin \in Seq(Nat), <3>2, <4>1, <4>2, AppendAvoids
    <3>3. QED BY <2>4, <3>1, <3>2
  <2>6. QED BY <1>2, <2>1, <2>3, <2>5 DEF ExactInv, Whole, Recorded
<1>4. CASE ExecWrite(t)
  <2>1. /\ UNCHANGED <<call, exact, completed>>
        /\ stdin' = stdin \/ stdin' = Append(stdin, call[t])
    BY <1>4 DEF ExecWrite, Writes, Go, history
  <2>2. ASSUME NEW c \in Call, exact[c] # Nil
        PROVE  \A i \in 1 .. Len(stdin') : stdin'[i] # c
    <3>1. call[t] \in Nat /\ call[t] # c
      BY <2>2 DEF ExactInv
    <3>2. \A i \in 1 .. Len(stdin) : stdin[i] # c
      BY <2>2 DEF ExactInv
    <3>3. CASE stdin' = stdin
      BY <3>2, <3>3
    <3>4. CASE stdin' = Append(stdin, call[t])
      BY ONLY stdin \in Seq(Nat), <3>1, <3>2, <3>4, AppendAvoids
    <3>5. QED BY <2>1, <3>3, <3>4
  <2>3. QED BY <1>2, <2>1, <2>2 DEF ExactInv, Whole, Recorded
<1>5. CASE ExecSetStatus(t) \/ ExecPoll(t) \/ ExecLeave(t) \/ LongSetStatus(t)
  <2>1. UNCHANGED <<call, exact, completed, stdin>>
    BY <1>5 DEF ExecSetStatus, ExecPoll, ExecLeave, LongSetStatus, Go, history,
       remoteVars
  <2>2. QED BY <1>2, <2>1 DEF ExactInv, Whole, Recorded
<1>6. CASE LongResetCounter(t) \/ StopSetStatus(t)
  <2>1. call' = [call EXCEPT ![t] = Nil] /\ UNCHANGED <<exact, completed, stdin>>
    BY <1>6 DEF LongResetCounter, StopSetStatus, Return, remoteVars
  <2>2. QED BY <1>2, <2>1 DEF ExactInv, Whole, Recorded
<1>7. CASE ExecReturn(t)
  <2>1. /\ call' = [call EXCEPT ![t] = Nil] /\ stdin' = stdin
        /\ completed \subseteq completed'
    BY <1>7 DEF ExecReturn, Return, HandOver, remoteVars
  <2>2. CASE exact' = exact
    BY <1>2, <2>1, <2>2 DEF ExactInv, Whole, Recorded
  <2>3. CASE exact' # exact
    <3>1. /\ status = "CommandComplete" /\ call[t] \in quiet
          /\ exact' = [exact EXCEPT ![call[t]] = cmdResult]
          /\ cmdResult \in completed'
      BY <1>7, <2>3 DEF ExecReturn, HandOver
    <3>2. t = "app" /\ call["rcv"] = Nil
      BY <3>1, NoCallMeanwhile DEF Thread
    <3>3. PICK c \in quiet : c = call[t]
      BY <3>1
    <3>4. cmdResult = c /\ Answered(c)
      BY <1>7, <3>1, <3>2, <3>3 DEF QuietInv, NotRead, Underway, ExecReturn
    <3>5. /\ exact' = [exact EXCEPT ![c] = c] /\ c \in completed' /\ c \in Call
          /\ running # c /\ Len(stdin) = 0 /\ Whole(c)
      BY <3>1, <3>3, <3>4 DEF Answered
    <3>6. \A u \in Thread : call'[u] = Nil
      BY <2>1, <3>2 DEF Thread
    <3>7. QED
      BY <1>2, <2>1, <3>5, <3>6 DEF ExactInv, Whole, Recorded
  <2>4. QED BY <2>2, <2>3
<1>8. QED
  BY <1>3, <1>4, <1>5, <1>6, <1>7 DEF Caller, Returns

LEMMA ExactInvariant == Spec => []ExactInv
<1>1. Init => ExactInv
  BY DEF Init, ExactInv, Nil
<1>2. TypeOK /\ NestedInv /\ FrozenInv /\ FreshInv /\ QuietInv /\ ExactInv
        /\ [Next]_vars => ExactInv'
  <2> SUFFICES ASSUME TypeOK, NestedInv, FrozenInv, FreshInv, QuietInv,
                      ExactInv, [Next]_vars
               PROVE  ExactInv'
    OBVIOUS
  <2>1. CASE \E t \in Thread : Caller(t)
    BY <2>1, ExactCaller
  <2>2. CASE Receiver
    <3>1. UNCHANGED <<call, exact, completed, running, stdin, printed>>
      BY <2>2 DEF Receiver, Dispatch, SeePrompt, ReadResult, AddObject,
         ReadCounter, SetCounter, Deliver, CallbackReturns, callVars,
         remoteVars, history
    <3>2. \A c \in completed : arrays'[c] = arrays[c]
      BY <2>2 DEF Receiver, Dispatch, SeePrompt, ReadResult, AddObject,
         ReadCounter, SetCounter, Deliver, CallbackReturns, shellVars,
         FrozenInv, TypeOK
    <3>3. QED BY <3>1, <3>2 DEF ExactInv, Whole, Recorded
  <2>3. CASE Remote
    <3>1. UNCHANGED <<call, exact, completed, arrays>>
      BY <2>3, RemoteFrame DEF shellVars, callVars, history
    <3>2. ASSUME NEW c \in Call, exact[c] # Nil
          PROVE  /\ running' # c /\ printed'[c] = printed[c]
                 /\ \A i \in 1 .. Len(stdin') : stdin'[i] # c
      <4>1. /\ stdin \in Seq(Nat) /\ c # Nil /\ running # c
            /\ printed \in [Call -> 0 .. MaxOut]
            /\ \A i \in 1 .. Len(stdin) : stdin[i] # c
        BY <3>2, StdinTyped DEF ExactInv, TypeOK, Call, Nil
      <4>2. CASE RemoteStart
        <5>1. stdin # <<>> /\ running' = Head(stdin) /\ stdin' = Tail(stdin)
              /\ printed' = printed
          BY <4>2 DEF RemoteStart
        <5>2. QED BY <4>1, <5>1, TailElements
      <4>3. CASE RemotePrint \/ RemoteFinish
        BY <4>1, <4>3 DEF RemotePrint, RemoteFinish
      <4>4. CASE RemoteInterrupt
        <5>1. /\ running' = Nil /\ printed' = printed
              /\ \E j \in 1 .. Len(stdin) :
                   stdin' = SubSeq(stdin, j + 1, Len(stdin))
          BY <4>4 DEF RemoteInterrupt
        <5>2. QED BY <4>1, <5>1
      <4>5. QED BY <2>3, <4>2, <4>3, <4>4 DEF Remote
    <3>3. QED BY <3>1, <3>2 DEF ExactInv, Whole, Recorded
  <2>4. CASE UNCHANGED vars
    BY <2>4 DEF vars, shellVars, callVars, rcvVars, remoteVars, history,
       ExactInv, Whole, Recorded
  <2>5. QED BY <2>1, <2>2, <2>3, <2>4 DEF Next
<1>3. QED
  BY <1>1, <1>2, CommandsTypeCorrect, NestedInvariant, FrozenInvariant,
     FreshInvariant, QuietInvariant, PTL DEF Spec

(* A whole array is the transcript.                                        *)
LEMMA WholeIsTranscript ==
  ASSUME TypeOK, NEW c \in Call, Whole(c) PROVE arrays[c] = Transcript(c)
<1>1. arrays[c] \in Seq(Line) /\ printed[c] \in Nat
  BY CommandsAssumption DEF TypeOK
<1> DEFINE p == printed[c]
           output == [n \in 1 .. p |-> Out(c, n)]
<1>2. /\ output \in Seq(Line) /\ Len(output) = p
      /\ \A i \in 1 .. p : output[i] = Out(c, i)
  <2>1. \A n \in 1 .. p : Out(c, n) \in Line
    BY <1>1, LinesTyped, CommandsAssumption DEF TypeOK
  <2>2. QED BY <1>1, <2>1
<1> DEFINE e == <<Echo(c)>>
           s == e \o output
<1>3. e \in Seq(Line) /\ Len(e) = 1 /\ e[1] = Out(c, 0)
  BY LinesTyped DEF Echo, Out
<1>4. /\ s \in Seq(Line) /\ Len(s) = p + 1
      /\ \A i \in 1 .. p + 1 : s[i] = Out(c, i - 1)
  <2>1. /\ s \in Seq(Line) /\ Len(s) = 1 + p
        /\ \A i \in 1 .. 1 + p : s[i] = IF i <= 1 THEN e[i]
                                        ELSE output[i - 1]
    <3> HIDE DEF e, output
    <3>1. /\ s \in Seq(Line) /\ Len(s) = Len(e) + Len(output)
          /\ \A i \in 1 .. Len(e) + Len(output) :
               s[i] = IF i <= Len(e) THEN e[i] ELSE output[i - Len(e)]
      BY <1>2, <1>3, ConcatProperties
    <3>2. QED BY <1>2, <1>3, <3>1
  <2>2. SUFFICES ASSUME NEW i \in 1 .. p + 1 PROVE s[i] = Out(c, i - 1)
    BY <1>1, <2>1
  <2>3. CASE i = 1
    BY <1>1, <1>3, <2>1, <2>3
  <2>4. CASE i # 1
    BY <1>1, <1>2, <2>1, <2>4
  <2>5. QED BY <2>3, <2>4
<1>5. /\ Len(arrays[c]) = p + 1
      /\ \A i \in 1 .. p + 1 : arrays[c][i] = Out(c, i - 1)
  BY DEF Whole, Recorded
<1>6. arrays[c] = s
  BY <1>1, <1>4, <1>5, SeqEqual
<1>7. QED BY <1>6 DEF Transcript

(* What a quiet execCommand: returned at the prompt is all its command     *)
(* printed, in order, and nothing else (MPSshShell.m:141-149 and 189-203). *)
THEOREM ResultsExact == Spec => []ResultExact
<1>1. TypeOK /\ ExactInv => ResultExact
  BY WholeIsTranscript DEF ExactInv, ResultExact
<1>2. QED BY <1>1, CommandsTypeCorrect, ExactInvariant, PTL
=============================================================================
