------------------------ MODULE ShellCommandsProofs ------------------------
(***************************************************************************)
(* Proofs about ShellCommands, for any number of calls, of lines, of polls *)
(* and of lines under way, for either kind of far end and with or without  *)
(* calls from the delegate: its type invariant, that a result returned at  *)
(* the prompt is frozen, that a stopped command delivers at most one more  *)
(* line, that a long command stays current, that its counters follow one   *)
(* another, and that a call from the delegate never sees a prompt.  What a *)
(* result holds is in ShellResultProofs, the way of the lines in           *)
(* ShellOrderProofs.                                                       *)
(***************************************************************************)
EXTENDS ShellCommands, SequenceTheorems, TLAPS

InExec(t) ==
  pc[t] \in {"execStatus", "execWrite", "execPoll", "execResult"}

(* What the threads owe each other about the current array: one that is    *)
(* inside execCommand: is in a numbered call and has stored an array, and  *)
(* no receiver branch that adds to an array is entered without one.        *)
ResultInv ==
  /\ \A t \in Thread : InExec(t) => cmdResult # Nil /\ call[t] # Nil
  /\ status = "Command" \/ rcvPc = "command" => cmdResult # Nil

(* Where the receiver is: past the switch of dataReceived: status cannot   *)
(* be CommandComplete, which the receiver alone sets, and the delegate     *)
(* makes its calls in the callback.                                        *)
NestedInv ==
  /\ rcvPc # "read" => status # "CommandComplete"
  /\ pc["rcv"] # "idle" => rcvPc = "callback"
  /\ call["rcv"] # Nil => pc["rcv"] # "idle"

(* The strengthening for CompletedFrozen: an array that is frozen is not   *)
(* the one the receiver is at, nor one it can get at before another call   *)
(* has stored a new one.                                                   *)
FrozenInv ==
  /\ cmdResult <= calls /\ \A a \in completed : a <= calls
  /\ \A t \in Thread : pc[t] = "execStatus" => cmdResult \notin completed
  /\ status = "Command" \/ rcvPc = "command" => cmdResult \notin completed
  /\ rcvPc = "append" => target \notin completed

(* The strengthening for AtMostOneLate: once stopped, only the line the    *)
(* receiver was at can still be delivered, and it was at none if it is the *)
(* delegate that stopped.                                                  *)
LateInv ==
  /\ late <= 1
  /\ stopped # "no" => status # "OnlineCommand"
  /\ stopped # "no" /\ late = 1
       => rcvPc \notin {"online", "increment", "deliver"}
  /\ stopped = "rcv"
       => late = 0 /\ rcvPc \notin {"online", "increment", "deliver"}
  /\ stopped = "no" => late = 0

(* The strengthening for LongStaysOnline: the receiver has no prompt in    *)
(* the branch that would set CommandComplete for it.                       *)
LongInv ==
  longClean => /\ status = "OnlineCommand"
               /\ ~(rcvPc = "command" /\ data = LOGSPROMPT)

(* The strengthening for OneBreakInNumbering: after the break, cmdCounter  *)
(* is the counter last delivered, or one more while a line is on its way.  *)
NumberInv ==
  /\ breaks <= 1
  /\ breaks = 1 /\ rcvPc = "increment" => count = lastCount
  /\ breaks = 1 => cmdCounter = IF rcvPc = "deliver" THEN lastCount + 1
                               ELSE lastCount

-----------------------------------------------------------------------------
(* The lines the far end sends are lines.                                  *)
LEMMA LinesTyped ==
  /\ LOGSPROMPT \in Line /\ Welcome \in Line /\ InterruptEcho \in Line
  /\ \A c \in Call : Echo(c) \in Line
  /\ \A c \in Call : \A n \in 0 .. MaxOut : Out(c, n) \in Line
<1>1. MaxOut \in Nat
  BY CommandsAssumption
<1>2. QED
  BY <1>1 DEF LOGSPROMPT, Welcome, InterruptEcho, Echo, Out, Line, Nil, Call

(* What a prompt adds to the wire keeps it a sequence of lines.            *)
LEMMA WireTyped ==
  ASSUME NEW w \in Seq(Line), NEW b
  PROVE  /\ w \o PromptLines(b) \in Seq(Line)
         /\ (w \o <<InterruptEcho>>) \o PromptLines(b) \in Seq(Line)
<1>1. PromptLines(b) \in Seq(Line) /\ <<InterruptEcho>> \in Seq(Line)
  BY LinesTyped DEF PromptLines
<1>2. QED
  BY <1>1, ConcatProperties

(* A write that fails or not leaves the far end numbers of calls and ^C.   *)
LEMMA WritesTyped ==
  ASSUME stdin \in Seq(Call \cup {CtrlC}), NEW x \in Call \cup {CtrlC},
         Writes(x)
  PROVE  stdin' \in Seq(Call \cup {CtrlC})
<1>1. Append(stdin, x) \in Seq(Call \cup {CtrlC})
  OBVIOUS
<1>2. stdin' = stdin \/ stdin' = Append(stdin, x)
  BY DEF Writes
<1>3. QED BY <1>1, <1>2

(* The steps of a call, on either thread, keep the types.                  *)
LEMMA CallerTyped ==
  ASSUME TypeOK, ResultInv, NEW t \in Thread, Caller(t) PROVE TypeOK'
<1> USE DEF TypeOK, ResultInv, InExec, remoteVars, rcvVars, shellVars,
        callVars, history, longHist
<1>1. ASSUME NEW label \in {"execStatus", "longStatus", "stopStatus"},
             MayCall(t), Begin(t, label)
      PROVE  /\ calls' \in 0 .. MaxCalls /\ calls + 1 \in Call
             /\ call' \in [Thread -> Call \cup {Nil}]
             /\ pc' \in [Thread -> {"idle", "execStatus", "execWrite",
                        "execPoll", "execResult", "longStatus",
                        "longCounter", "stopStatus"}]
             /\ polls' \in [Thread -> 0 .. MaxPolls]
  <2>1. calls' \in 0 .. MaxCalls /\ calls + 1 \in Call
    BY <1>1, CommandsAssumption DEF MayCall, Begin, Call
  <2>2. call' \in [Thread -> Call \cup {Nil}]
    BY <1>1, <2>1 DEF Begin
  <2>3. QED BY <1>1, <2>1, <2>2 DEF Begin
<1>2. ASSUME Return(t)
      PROVE  /\ calls' \in 0 .. MaxCalls
             /\ call' \in [Thread -> Call \cup {Nil}]
             /\ pc' \in [Thread -> {"idle", "execStatus", "execWrite",
                        "execPoll", "execResult", "longStatus",
                        "longCounter", "stopStatus"}]
             /\ polls' \in [Thread -> 0 .. MaxPolls]
  BY <1>2, CommandsAssumption DEF Return
<1>3. CASE ExecNewResult(t)
  <2>1. quiet' \subseteq Call
    BY <1>1, <1>3 DEF ExecNewResult, FindsQuiet
  <2>2. QED BY <1>1, <1>3, <2>1 DEF ExecNewResult
<1>4. CASE ExecSetStatus(t) \/ ExecLeave(t)
  BY <1>4 DEF ExecSetStatus, ExecLeave, Go, Status
<1>5. CASE ExecWrite(t)
  <2>1. call[t] \in Call
    BY <1>5 DEF ExecWrite, Go, Nil
  <2>2. stdin' \in Seq(Call \cup {CtrlC})
    BY <1>5, <2>1, WritesTyped DEF ExecWrite
  <2>3. QED BY <1>5, <2>2 DEF ExecWrite, Go
<1>6. CASE ExecPoll(t)
  <2>1. polls' \in [Thread -> 0 .. MaxPolls]
    BY <1>6, CommandsAssumption DEF ExecPoll
  <2>2. QED BY <1>6, <2>1 DEF ExecPoll
<1>7. CASE ExecReturn(t)
  <2>1. cmdResult \in Call /\ call[t] \in Call
    BY <1>7 DEF ExecReturn, Nil
  <2>2. completed' \subseteq Call /\ exact' \in [Call -> Call \cup {Nil}]
        /\ quiet' \subseteq Call
    BY <1>7, <2>1 DEF ExecReturn, HandOver
  <2>3. QED BY <1>2, <1>7, <2>2 DEF ExecReturn
<1>8. CASE LongWrite(t)
  <2>1. stdin' \in Seq(Call \cup {CtrlC})
    BY <1>1, <1>8, WritesTyped DEF LongWrite
  <2>2. QED BY <1>1, <1>8, <2>1 DEF LongWrite
<1>9. CASE LongSetStatus(t)
  <2>1. longClean' \in BOOLEAN
    BY <1>9, Zenon DEF LongSetStatus
  <2>2. QED BY <1>9, <2>1 DEF LongSetStatus, Go, Status
<1>10. CASE LongResetCounter(t)
  BY <1>2, <1>10 DEF LongResetCounter
<1>11. CASE StopSendCtrlC(t)
  <2>1. stdin' \in Seq(Call \cup {CtrlC})
    BY <1>11, WritesTyped DEF StopSendCtrlC
  <2>2. QED BY <1>1, <1>11, <2>1 DEF StopSendCtrlC
<1>12. CASE StopSetStatus(t)
  BY <1>2, <1>12 DEF StopSetStatus, Status
<1>13. CASE SendCtrlC(t)
  <2>1. stdin' \in Seq(Call \cup {CtrlC})
    BY <1>13, WritesTyped DEF SendCtrlC
  <2>2. calls' \in 0 .. MaxCalls
    BY <1>13, CommandsAssumption DEF SendCtrlC, MayCall
  <2>3. QED BY <1>13, <2>1, <2>2 DEF SendCtrlC
<1>14. QED
  BY <1>3, <1>4, <1>5, <1>6, <1>7, <1>8, <1>9, <1>10, <1>11, <1>12, <1>13
  DEF Caller, Returns

(* So do those of the receiver thread.                                     *)
LEMMA ReceiverTyped ==
  ASSUME TypeOK, ResultInv, Receiver PROVE TypeOK'
<1> USE DEF TypeOK, ResultInv, Nil, remoteVars, rcvVars, shellVars, callVars,
        history, longHist
<1>1. CASE Dispatch
  <2>1. Head(wire) \in Line /\ wire' \in Seq(Line)
    BY <1>1, HeadTailProperties DEF Dispatch
  <2>2. /\ data' \in Line
        /\ rcvPc' \in {"read", "command", "online"}
    BY <1>1, <2>1 DEF Dispatch
  <2>3. UNCHANGED <<shellVars, callVars, target, count, stdin, running, printed,
                    promptSet, history>>
    BY <1>1 DEF Dispatch
  <2>4. QED BY <2>1, <2>2, <2>3
<1>2. CASE SeePrompt
  BY <1>2, LinesTyped DEF SeePrompt, Done, Status
<1>3. CASE ReadResult
  BY <1>3 DEF ReadResult
<1>4. CASE AddObject
  <2>1. arrays' \in [Call -> Seq(Line)]
    BY <1>4 DEF AddObject
  <2>2. QED BY <1>4, <2>1, LinesTyped DEF AddObject, Done
<1>5. CASE ReadCounter
  BY <1>5 DEF ReadCounter
<1>6. CASE SetCounter
  BY <1>6 DEF SetCounter
<1>7. CASE Deliver
  BY <1>7 DEF Deliver
<1>8. CASE CallbackReturns
  BY <1>8, LinesTyped DEF CallbackReturns, Done
<1>9. QED
  BY <1>1, <1>2, <1>3, <1>4, <1>5, <1>6, <1>7, <1>8 DEF Receiver

(* And those of the far end.                                               *)
LEMMA RemoteTyped ==
  ASSUME TypeOK, Remote PROVE TypeOK'
<1> USE CommandsAssumption DEF TypeOK, Nil, CtrlC,
        rcvVars, shellVars, callVars, history, longHist
<1>1. CASE RemoteStart
  <2>1. Head(stdin) \in Call /\ stdin' \in Seq(Call \cup {CtrlC})
    BY <1>1, HeadTailProperties DEF RemoteStart
  <2>2. wire' \in Seq(Line)
    BY <1>1, <2>1, LinesTyped, AppendProperties DEF RemoteStart
  <2>3. running' \in Call
    BY <1>1, <2>1 DEF RemoteStart
  <2>4. UNCHANGED <<shellVars, callVars, rcvVars, printed, promptSet, history>>
    BY <1>1 DEF RemoteStart
  <2>5. QED BY <2>1, <2>2, <2>3, <2>4
<1>2. CASE RemotePrint
  <2>1. printed[running] + 1 \in 0 .. MaxOut
    BY <1>2 DEF RemotePrint, Call
  <2>2. wire' \in Seq(Line)
    BY <1>2, <2>1, LinesTyped DEF RemotePrint
  <2>3. printed' \in [Call -> 0 .. MaxOut]
    BY <1>2, <2>1 DEF RemotePrint
  <2>4. QED BY <1>2, <2>2, <2>3 DEF RemotePrint
<1>3. CASE RemoteFinish
  <2>1. wire' \in Seq(Line)
    BY <1>3, WireTyped DEF RemoteFinish
  <2>2. promptSet' \in BOOLEAN /\ running' \in Call \cup {Nil}
    BY <1>3 DEF RemoteFinish
  <2>3. QED BY <1>3, <2>1, <2>2 DEF RemoteFinish
<1>4. CASE RemoteInterrupt
  <2>1. wire' \in Seq(Line)
    BY <1>4, WireTyped DEF RemoteInterrupt
  <2>2. stdin' \in Seq(Call \cup {CtrlC})
    BY <1>4 DEF RemoteInterrupt
  <2>3. running' = Nil
    BY <1>4 DEF RemoteInterrupt
  <2>4. UNCHANGED <<shellVars, callVars, rcvVars, printed, promptSet, history>>
    BY <1>4 DEF RemoteInterrupt
  <2>5. QED BY <2>1, <2>2, <2>3, <2>4
<1>5. QED
  BY <1>1, <1>2, <1>3, <1>4 DEF Remote

(* The far end touches nothing of the shell.                               *)
LEMMA RemoteFrame ==
  Remote => UNCHANGED <<shellVars, callVars, rcvVars, history>>
  BY DEF Remote, RemoteStart, RemotePrint, RemoteFinish, RemoteInterrupt

(* Every step keeps the array the threads share in order.                  *)
LEMMA ResultInvKept ==
  ASSUME TypeOK, ResultInv, [Next]_vars PROVE ResultInv'
<1> calls \in Nat /\ call \in [Thread -> Call \cup {Nil}]
    /\ DOMAIN pc = Thread
  BY CommandsAssumption DEF TypeOK
<1> USE DEF ResultInv, InExec, Nil, rcvVars, shellVars, callVars
<1>1. ASSUME NEW t \in Thread, Caller(t) PROVE ResultInv'
  BY <1>1 DEF Caller, Returns, ExecNewResult, ExecSetStatus, ExecWrite,
     ExecPoll, ExecLeave, ExecReturn, LongWrite, LongSetStatus,
     LongResetCounter, SendCtrlC, StopSendCtrlC, StopSetStatus, Begin, Go,
     Return
<1>2. CASE Receiver
  BY <1>2 DEF Receiver, Dispatch, SeePrompt, ReadResult, AddObject,
     ReadCounter, SetCounter, Deliver, CallbackReturns, Done
<1>3. CASE Remote
  BY <1>3, RemoteFrame
<1>4. CASE UNCHANGED vars
  BY <1>4 DEF vars
<1>5. QED
  BY <1>1, <1>2, <1>3, <1>4 DEF Next

LEMMA BaseInvariant == Spec => [](TypeOK /\ ResultInv)
<1>1. Init => TypeOK /\ ResultInv
  <2> SUFFICES ASSUME Init PROVE TypeOK /\ ResultInv
    OBVIOUS
  <2> USE DEF Init
  <2>1. /\ wire \in Seq(Line) /\ stdin \in Seq(Call \cup {CtrlC})
        /\ arrays \in [Call -> Seq(Line)]
    <3>1. Welcome \in Line
      BY LinesTyped
    <3>2. <<>> \in Seq(Line) /\ <<Welcome>> \in Seq(Line)
          /\ <<>> \in Seq(Call \cup {CtrlC})
      BY <3>1
    <3>3. QED BY <3>2
  <2>2. /\ calls \in 0 .. MaxCalls /\ polls \in [Thread -> 0 .. MaxPolls]
        /\ printed \in [Call -> 0 .. MaxOut]
        /\ call \in [Thread -> Call \cup {Nil}]
        /\ exact \in [Call -> Call \cup {Nil}]
    BY CommandsAssumption
  <2>3. cmdCounter \in Nat /\ count \in Nat /\ lastCount \in Nat
        /\ late \in Nat /\ breaks \in Nat
    OBVIOUS
  <2>4. TypeOK
    BY <2>1, <2>2, <2>3, LinesTyped, Zenon DEF TypeOK, Nil, Status
  <2>5. ResultInv
    BY DEF ResultInv, InExec
  <2>6. QED BY <2>4, <2>5
<1>2. TypeOK /\ ResultInv /\ [Next]_vars => (TypeOK /\ ResultInv)'
  <2>1. TypeOK /\ UNCHANGED vars => TypeOK'
    BY DEF TypeOK, vars, remoteVars, rcvVars, shellVars, callVars, history,
       longHist
  <2>2. QED
    BY <2>1, CallerTyped, ReceiverTyped, RemoteTyped, ResultInvKept DEF Next
<1>3. QED BY <1>1, <1>2, PTL DEF Spec

(* Both threads keep to the types of what they share; in particular        *)
(* addObject: is always sent to an array (MPSshShell.m:138-203).           *)
THEOREM CommandsTypeCorrect == Spec => []TypeOK
  BY BaseInvariant, PTL

-----------------------------------------------------------------------------
LEMMA NestedInvariant == Spec => []NestedInv
<1>1. Init => NestedInv
  BY DEF Init, NestedInv, Thread
<1>2. TypeOK /\ NestedInv /\ [Next]_vars => NestedInv'
  <2> SUFFICES ASSUME TypeOK, NestedInv, [Next]_vars PROVE NestedInv'
    OBVIOUS
  <2> DOMAIN pc = Thread /\ DOMAIN call = Thread /\ "rcv" \in Thread
    BY DEF TypeOK, Thread
  <2> USE DEF NestedInv, rcvVars, shellVars, callVars
  <2>1. ASSUME NEW t \in Thread, Caller(t) PROVE NestedInv'
    BY <2>1 DEF Caller, Returns, ExecNewResult, ExecSetStatus, ExecWrite,
       ExecPoll, ExecLeave, ExecReturn, LongWrite, LongSetStatus,
       LongResetCounter, SendCtrlC, StopSendCtrlC, StopSetStatus, MayCall,
       Begin, Go, Return
  <2>2. CASE Receiver
    <3>1. CASE CallbackReturns
      BY <3>1 DEF CallbackReturns, Done
    <3>2. QED
      BY <2>2, <3>1 DEF Receiver, Dispatch, SeePrompt, ReadResult, AddObject,
         ReadCounter, SetCounter, Deliver, Done
  <2>3. CASE Remote
    BY <2>3, RemoteFrame
  <2>4. CASE UNCHANGED vars
    BY <2>4 DEF vars
  <2>5. QED BY <2>1, <2>2, <2>3, <2>4 DEF Next
<1>3. QED BY <1>1, <1>2, CommandsTypeCorrect, PTL DEF Spec

(* While the delegate is inside a call no step shows it a prompt: the      *)
(* receiver, which alone sets CommandComplete, is the thread it calls on   *)
(* (MPSshShell.m:138-163, 189-203).                                        *)
THEOREM NestedCallsSeeNoPrompt == Spec => []NestedSeesNoPrompt
<1>1. NestedInv => NestedSeesNoPrompt
  BY DEF NestedInv, NestedSeesNoPrompt
<1>2. QED BY <1>1, NestedInvariant, PTL

LEMMA FrozenInvariant == Spec => []FrozenInv
<1>1. Init => FrozenInv
  BY DEF Init, FrozenInv, Nil
<1>2. TypeOK /\ ResultInv /\ NestedInv /\ FrozenInv /\ [Next]_vars
        => FrozenInv'
  <2> SUFFICES ASSUME TypeOK, ResultInv, NestedInv, FrozenInv, [Next]_vars
               PROVE  FrozenInv'
    OBVIOUS
  <2> /\ calls \in Nat /\ \A c \in completed : c \in Nat
      /\ cmdResult \in Nat /\ DOMAIN pc = Thread /\ Thread = {"app", "rcv"}
    BY CommandsAssumption DEF TypeOK, Call, Nil, Thread
  <2> USE DEF FrozenInv, rcvVars, shellVars, callVars, history
  <2>1. ASSUME NEW t \in Thread, ExecNewResult(t) PROVE FrozenInv'
    BY <2>1 DEF ExecNewResult, MayCall, Begin
  <2>2. ASSUME NEW t \in Thread, ExecSetStatus(t) PROVE FrozenInv'
    BY <2>2 DEF ExecSetStatus, Go
  <2>3. ASSUME NEW t \in Thread, ExecReturn(t) PROVE FrozenInv'
    <3>1. CASE status = "CommandComplete"
      <4>1. completed' = completed \cup {cmdResult} /\ rcvPc = "read"
            /\ pc["rcv"] = "idle" /\ t = "app"
        BY <2>3, <3>1 DEF ExecReturn, HandOver, NestedInv
      <4>2. QED BY <2>3, <3>1, <4>1 DEF ExecReturn, Return
    <3>2. CASE status # "CommandComplete"
      BY <2>3, <3>2 DEF ExecReturn, HandOver, Return
    <3>3. QED BY <3>1, <3>2
  <2>4. ASSUME NEW t \in Thread, ExecWrite(t) \/ ExecPoll(t) \/ ExecLeave(t)
        PROVE  FrozenInv'
    BY <2>4 DEF ExecWrite, ExecPoll, ExecLeave, Go
  <2>5. ASSUME NEW t \in Thread,
               LongWrite(t) \/ LongSetStatus(t) \/ LongResetCounter(t)
        PROVE  FrozenInv'
    BY <2>5 DEF LongWrite, LongSetStatus, LongResetCounter, Begin, Go, Return
  <2>6. ASSUME NEW t \in Thread,
               SendCtrlC(t) \/ StopSendCtrlC(t) \/ StopSetStatus(t)
        PROVE  FrozenInv'
    BY <2>6 DEF SendCtrlC, StopSendCtrlC, StopSetStatus, Begin, Return
  <2>7. CASE Dispatch
    BY <2>7 DEF Dispatch
  <2>8. CASE SeePrompt \/ ReadResult \/ AddObject
    BY <2>8 DEF SeePrompt, ReadResult, AddObject, Done
  <2>9. CASE ReadCounter \/ SetCounter \/ Deliver \/ CallbackReturns
    BY <2>9 DEF ReadCounter, SetCounter, Deliver, CallbackReturns, Done
  <2>10. CASE Remote
    BY <2>10, RemoteFrame
  <2>11. CASE UNCHANGED vars
    BY <2>11 DEF vars
  <2>12. QED
    BY <2>1, <2>2, <2>3, <2>4, <2>5, <2>6, <2>7, <2>8, <2>9, <2>10, <2>11
    DEF Next, Caller, Returns, Receiver
<1>3. QED BY <1>1, <1>2, BaseInvariant, NestedInvariant, PTL DEF Spec

(* Once execCommand: has returned at the prompt, nothing that happens      *)
(* later, calls that time out included, touches the array it returned      *)
(* (MPSshShell.m:141-149 and 184-203).                                     *)
THEOREM ResultsFrozen == Spec => CompletedFrozen
<1> DEFINE A == \A a \in completed : arrays'[a] = arrays[a]
<1>1. TypeOK /\ FrozenInv /\ [Next]_vars => [A]_vars
  <2> SUFFICES ASSUME TypeOK, FrozenInv, Next PROVE A
    OBVIOUS
  <2> USE DEF TypeOK, FrozenInv
  <2>1. CASE AddObject
    BY <2>1 DEF AddObject
  <2>2. CASE ~AddObject
    <3>1. arrays' = arrays
      BY <2>2 DEF Next, Caller, Returns, ExecNewResult, ExecSetStatus,
         ExecWrite, ExecPoll, ExecLeave, ExecReturn, LongWrite, LongSetStatus,
         LongResetCounter, SendCtrlC, StopSendCtrlC, StopSetStatus, Receiver,
         Dispatch, SeePrompt, ReadResult, ReadCounter, SetCounter, Deliver,
         CallbackReturns, Remote, RemoteStart, RemotePrint, RemoteFinish,
         RemoteInterrupt, shellVars
    <3>2. QED BY <3>1
  <2>3. QED BY <2>1, <2>2
<1>2. QED
  BY <1>1, CommandsTypeCorrect, FrozenInvariant, PTL DEF Spec, CompletedFrozen

-----------------------------------------------------------------------------
(* After stopLongCommand the delegate hears of at most one more line, and  *)
(* of none if it called stopLongCommand itself                             *)
(* (MPSshShell.m:152-159 and 178-182).                                     *)
THEOREM StoppedIsQuiet == Spec => []AtMostOneLate
<1>1. Init => LateInv
  BY DEF Init, LateInv
<1>2. TypeOK /\ NestedInv /\ LateInv /\ [Next]_vars => LateInv'
  <2> SUFFICES ASSUME TypeOK, NestedInv, LateInv, [Next]_vars
               PROVE  LateInv'
    OBVIOUS
  <2> late \in Nat /\ (pc["rcv"] # "idle" => rcvPc = "callback")
    BY DEF TypeOK, NestedInv
  <2> USE DEF LateInv, rcvVars, shellVars, callVars, history, longHist
  <2>1. ASSUME NEW t \in Thread, Caller(t) PROVE LateInv'
    BY <2>1 DEF Caller, Returns, ExecNewResult, ExecSetStatus, ExecWrite,
       ExecPoll, ExecLeave, ExecReturn, LongWrite, LongSetStatus,
       LongResetCounter, SendCtrlC, StopSendCtrlC, StopSetStatus, Return,
       Thread
  <2>2. CASE Receiver
    BY <2>2 DEF Receiver, Dispatch, SeePrompt, ReadResult, AddObject,
       ReadCounter, SetCounter, Deliver, CallbackReturns, Done
  <2>3. CASE Remote
    BY <2>3, RemoteFrame
  <2>4. CASE UNCHANGED vars
    BY <2>4 DEF vars
  <2>5. QED BY <2>1, <2>2, <2>3, <2>4 DEF Next
<1>3. LateInv => AtMostOneLate
  BY DEF LateInv, AtMostOneLate
<1>4. QED
  BY <1>1, <1>2, <1>3, CommandsTypeCorrect, NestedInvariant, PTL DEF Spec

(* A long command stays current until the next call, unless the receiver   *)
(* had a prompt in hand when it was made (MPSshShell.m:138-182).           *)
THEOREM LongCommandStaysCurrent == Spec => []LongStaysOnline
<1>1. Init => LongInv
  BY DEF Init, LongInv
<1>2. LongInv /\ [Next]_vars => LongInv'
  <2> SUFFICES ASSUME LongInv, [Next]_vars PROVE LongInv'
    OBVIOUS
  <2> USE DEF LongInv, rcvVars, shellVars, callVars, history, longHist
  <2>1. ASSUME NEW t \in Thread, Caller(t) PROVE LongInv'
    BY <2>1 DEF Caller, Returns, ExecNewResult, ExecSetStatus, ExecWrite,
       ExecPoll, ExecLeave, ExecReturn, LongWrite, LongSetStatus,
       LongResetCounter, SendCtrlC, StopSendCtrlC, StopSetStatus
  <2>2. CASE Receiver
    BY <2>2 DEF Receiver, Dispatch, SeePrompt, ReadResult, AddObject,
       ReadCounter, SetCounter, Deliver, CallbackReturns, Done
  <2>3. CASE Remote
    BY <2>3, RemoteFrame
  <2>4. CASE UNCHANGED vars
    BY <2>4 DEF vars
  <2>5. QED BY <2>1, <2>2, <2>3, <2>4 DEF Next
<1>3. LongInv => LongStaysOnline
  BY DEF LongInv, LongStaysOnline
<1>4. QED BY <1>1, <1>2, <1>3, PTL DEF Spec

(* The delegate's counters break at most once for each execLongCommand:,   *)
(* although its reset races with cmdCounter++ (MPSshShell.m:153-159 and    *)
(* 174-175).                                                               *)
THEOREM CountersFollow == Spec => []OneBreakInNumbering
<1>1. Init => NumberInv
  BY DEF Init, NumberInv
<1>2. TypeOK /\ NumberInv /\ [Next]_vars => NumberInv'
  <2> SUFFICES ASSUME TypeOK, NumberInv, [Next]_vars PROVE NumberInv'
    OBVIOUS
  <2> /\ cmdCounter \in Nat /\ count \in Nat /\ lastCount \in Nat
      /\ breaks \in Nat
    BY DEF TypeOK
  <2> USE DEF NumberInv, rcvVars, shellVars, callVars, history, longHist
  <2>1. ASSUME NEW t \in Thread, Caller(t) PROVE NumberInv'
    BY <2>1 DEF Caller, Returns, ExecNewResult, ExecSetStatus, ExecWrite,
       ExecPoll, ExecLeave, ExecReturn, LongWrite, LongSetStatus,
       LongResetCounter, SendCtrlC, StopSendCtrlC, StopSetStatus
  <2>2. CASE Receiver
    BY <2>2 DEF Receiver, Dispatch, SeePrompt, ReadResult, AddObject,
       ReadCounter, SetCounter, Deliver, CallbackReturns, Done
  <2>3. CASE Remote
    BY <2>3, RemoteFrame
  <2>4. CASE UNCHANGED vars
    BY <2>4 DEF vars
  <2>5. QED BY <2>1, <2>2, <2>3, <2>4 DEF Next
<1>3. NumberInv => OneBreakInNumbering
  BY DEF NumberInv, OneBreakInNumbering
<1>4. QED BY <1>1, <1>2, <1>3, CommandsTypeCorrect, PTL DEF Spec
=============================================================================
