-------------------------- MODULE ShellOrderProofs --------------------------
(***************************************************************************)
(* Proofs about the way of the lines in ShellCommands, for any number of   *)
(* calls, lines, polls and lines under way: that a call made by the        *)
(* delegate returns an empty array, that the shell implements LineRouter,  *)
(* and that no line is recorded twice or out of order.                     *)
(***************************************************************************)
EXTENDS ShellResultProofs

(* The strengthening for NestedReturnsNothing is the property itself: the  *)
(* receiver is in the callback (NestedInv), and a new array is empty       *)
(* (FreshInv).                                                             *)

(* A line that is about to be added is not the prompt.                     *)
HandInv == rcvPc = "append" => data # LOGSPROMPT

(* Arrays are filled in the order of their calls: none later than the one  *)
(* that is current, or that the receiver is at, has a line.                *)
FillInv ==
  /\ \A a \in Call : arrays[a] # <<>> => a <= cmdResult
  /\ rcvPc = "append" =>
       /\ target <= cmdResult
       /\ \A a \in Call : arrays[a] # <<>> => a <= target

(* Thread t is in a call that has not written its command.                 *)
Unwritten(t) == pc[t] \in {"execStatus", "execWrite"}

(* Command c has not reached the shell of the far end.                     *)
Waiting(c) ==
  \/ c > calls
  \/ \E t \in Thread : call[t] = c /\ Unwritten(t)
  \/ \E i \in 1 .. Len(stdin) : stdin[i] = c

(* A command reaches it at most once, ...                                  *)
OnceInv ==
  /\ running # Nil => ~Waiting(running)
  /\ \A i, j \in 1 .. Len(stdin) :
       i < j /\ stdin[i] = stdin[j] => stdin[i] = CtrlC
  /\ \A t \in Thread : Unwritten(t) =>
       \A i \in 1 .. Len(stdin) : stdin[i] # call[t]
  /\ call["app"] = call["rcv"] => call["app"] = Nil

(* ... and what it has printed is numbered as it was printed.              *)
Sent(l) == l.cmd # Nil => l.no <= printed[l.cmd] /\ ~Waiting(l.cmd)

Follows(l, m) == l.cmd = m.cmd /\ l.cmd # Nil => l.no < m.no

InHand == rcvPc \in {"command", "append"}

SentInv ==
  /\ \A a \in Call : \A i \in 1 .. Len(arrays[a]) : Sent(arrays[a][i])
  /\ InHand => Sent(data)
  /\ \A k \in 1 .. Len(wire) : Sent(wire[k])

(* The arrays, the line in hand and the wire, in this order, are in order. *)
OrderInv ==
  /\ RecordedInOrder
  /\ \A a \in Call : \A i \in 1 .. Len(arrays[a]) :
       /\ InHand => Follows(arrays[a][i], data)
       /\ \A k \in 1 .. Len(wire) : Follows(arrays[a][i], wire[k])
  /\ InHand => \A k \in 1 .. Len(wire) : Follows(data, wire[k])
  /\ \A j, k \in 1 .. Len(wire) : j < k => Follows(wire[j], wire[k])

-----------------------------------------------------------------------------
(* The receiver reads cmdResult only for a line that is not the prompt.    *)
LEMMA HandInvariant == Spec => []HandInv
<1>1. Init => HandInv
  BY DEF Init, HandInv
<1>2. HandInv /\ [Next]_vars => HandInv'
  <2> SUFFICES ASSUME HandInv, [Next]_vars PROVE HandInv'
    OBVIOUS
  <2> USE DEF HandInv, rcvVars
  <2>1. ASSUME NEW t \in Thread, Caller(t) PROVE HandInv'
    BY <2>1 DEF Caller, Returns, ExecNewResult, ExecSetStatus, ExecWrite,
       ExecPoll, ExecLeave, ExecReturn, LongWrite, LongSetStatus,
       LongResetCounter, SendCtrlC, StopSendCtrlC, StopSetStatus
  <2>2. CASE Receiver
    BY <2>2 DEF Receiver, Dispatch, SeePrompt, ReadResult, AddObject,
       ReadCounter, SetCounter, Deliver, CallbackReturns, Done
  <2>3. CASE Remote
    BY <2>3, RemoteFrame
  <2>4. CASE UNCHANGED vars
    BY <2>4 DEF vars
  <2>5. QED BY <2>1, <2>2, <2>3, <2>4 DEF Next
<1>3. QED BY <1>1, <1>2, PTL DEF Spec

(* While the delegate is inside execCommand: the current array, which it   *)
(* or the application has just made, stays empty, for the thread that      *)
(* fills it is the delegate's (MPSshShell.m:148-159 and 189-203).          *)
THEOREM NestedCallsReturnNothing == Spec => []NestedReturnsNothing
<1> DEFINE Inside == call["rcv"] # Nil
                     /\ pc["rcv"] \in {"execStatus", "execWrite", "execPoll",
                                       "execResult"}
<1>1. Init => NestedReturnsNothing
  BY DEF Init, NestedReturnsNothing, Thread
<1>2. TypeOK /\ NestedInv /\ FreshInv /\ FrozenInv /\ NestedReturnsNothing
        /\ [Next]_vars => NestedReturnsNothing'
  <2> SUFFICES ASSUME TypeOK, NestedInv, FreshInv, NestedReturnsNothing,
                      [Next]_vars, Inside',
                      NEW c \in Call, cmdResult' = c
               PROVE  arrays'[c] = <<>>
    BY DEF NestedReturnsNothing
  <2> /\ DOMAIN pc = Thread /\ DOMAIN call = Thread /\ "rcv" \in Thread
      /\ calls \in Nat
    BY DEF TypeOK, Thread
  <2> USE DEF shellVars, callVars
  <2>0. CASE UNCHANGED vars
    BY <2>0 DEF vars, NestedReturnsNothing
  <2>1. ASSUME NEW t \in Thread, ExecNewResult(t) PROVE arrays'[c] = <<>>
    <3>1. c = calls + 1 /\ arrays' = arrays
      BY <2>1 DEF ExecNewResult
    <3>2. c > calls
      BY <3>1
    <3>3. QED BY <3>1, <3>2 DEF FreshInv
  <2>2. ASSUME NEW t \in Thread, Caller(t), ~ExecNewResult(t)
        PROVE  arrays'[c] = <<>>
    <3>1. Inside /\ UNCHANGED <<cmdResult, arrays>>
      BY <2>2 DEF Caller, Returns, ExecSetStatus, ExecWrite, ExecPoll,
         ExecLeave, ExecReturn, LongWrite, LongSetStatus, LongResetCounter,
         SendCtrlC, StopSendCtrlC, StopSetStatus, Begin, Go, Return
    <3>2. QED BY <3>1 DEF NestedReturnsNothing
  <2>3. CASE Receiver
    <3>1. Inside /\ UNCHANGED cmdResult
      BY <2>3 DEF Receiver, Dispatch, SeePrompt, ReadResult, AddObject,
         ReadCounter, SetCounter, Deliver, CallbackReturns
    <3>2. rcvPc = "callback"
      BY <3>1 DEF NestedInv
    <3>3. arrays' = arrays
      BY <2>3, <3>2 DEF Receiver, Dispatch, SeePrompt, ReadResult, AddObject,
         ReadCounter, SetCounter, Deliver, CallbackReturns
    <3>4. QED BY <3>1, <3>3 DEF NestedReturnsNothing
  <2>4. CASE Remote
    BY <2>4, RemoteFrame DEF NestedReturnsNothing
  <2>5. QED BY <2>0, <2>1, <2>2, <2>3, <2>4 DEF Next
<1>3. QED
  BY <1>1, <1>2, CommandsTypeCorrect, NestedInvariant, FreshInvariant,
     FrozenInvariant, PTL DEF Spec

-----------------------------------------------------------------------------
(* What is put at the end of a sequence leaves its beginning as it was.    *)
LEMMA BeginningStays ==
  ASSUME NEW S, NEW s \in Seq(S), NEW w \in Seq(S)
  PROVE  /\ s \o w \in Seq(S)
         /\ Len(s \o w) >= Len(s)
         /\ SubSeq(s \o w, 1, Len(s)) = s
<1>1. s \o w \in Seq(S) /\ Len(s \o w) = Len(s) + Len(w)
      /\ \A i \in 1 .. Len(s) : (s \o w)[i] = s[i]
  BY ConcatProperties
<1>2. /\ SubSeq(s \o w, 1, Len(s)) \in Seq(S)
      /\ Len(SubSeq(s \o w, 1, Len(s))) = Len(s)
      /\ \A i \in 1 .. Len(s) : SubSeq(s \o w, 1, Len(s))[i] = (s \o w)[i]
  BY <1>1
<1>3. SubSeq(s \o w, 1, Len(s)) = s
  BY <1>1, <1>2
<1>4. QED BY <1>1, <1>3

(* The far end adds lines to the wire.                                     *)
LEMMA RemoteSends ==
  ASSUME TypeOK, Remote PROVE \E w \in Seq(Line) : wire' = wire \o w
<1> wire \in Seq(Line) /\ CommandsAssumption
  BY CommandsAssumption DEF TypeOK
<1>1. CASE RemoteStart
  <2>1. Head(stdin) \in Call
    BY <1>1, HeadTailProperties DEF RemoteStart, TypeOK, CtrlC, Nil
  <2>2. Echo(Head(stdin)) \in Line
    BY <2>1, LinesTyped
  <2>3. wire' = wire \o <<Echo(Head(stdin))>> /\ <<Echo(Head(stdin))>> \in Seq(Line)
    BY <1>1, <2>2, AppendIsConcat DEF RemoteStart
  <2>4. QED BY <2>3
<1>2. CASE RemotePrint
  <2> DEFINE e == Out(running, printed[running] + 1)
  <2>1. running \in Call /\ printed[running] + 1 \in 0 .. MaxOut
    BY <1>2 DEF RemotePrint, TypeOK, Nil, CommandsAssumption
  <2>2. e \in Line
    BY <2>1, LinesTyped
  <2> HIDE DEF e
  <2>3. wire' = wire \o <<e>> /\ <<e>> \in Seq(Line)
    BY <1>2, <2>2, AppendIsConcat DEF RemotePrint, e
  <2>4. QED BY <2>3
<1>3. CASE RemoteFinish
  <2>1. PromptLines(promptSet') \in Seq(Line)
    BY LinesTyped DEF PromptLines
  <2>2. QED BY <1>3, <2>1 DEF RemoteFinish
<1>4. CASE RemoteInterrupt
  <2>1. PromptLines(promptSet) \in Seq(Line) /\ <<InterruptEcho>> \in Seq(Line)
    BY LinesTyped DEF PromptLines
  <2>2. wire' = wire \o <<InterruptEcho>> \o PromptLines(promptSet)
    BY <1>4 DEF RemoteInterrupt
  <2>3. wire' = wire \o (<<InterruptEcho>> \o PromptLines(promptSet))
    BY <2>1, <2>2, ConcatAssociative
  <2>4. QED BY <2>1, <2>3, ConcatProperties
<1>5. QED BY <1>1, <1>2, <1>3, <1>4 DEF Remote

(* The shell implements LineRouter: calls leave the lines alone but for    *)
(* ending a prompt and returning a result at one, the receiver takes them  *)
(* from the wire to their one place (MPSshShell.m:138-163 and 189-203).    *)
THEOREM ShellImplementsLineRouter == Spec => LineRouterSpec
<1>1. TypeOK /\ Init => Router!Init
  BY DEF Init, TypeOK, Router!Init, Hand
<1>2. TypeOK /\ ResultInv /\ NestedInv /\ FrozenInv /\ HandInv /\ [Next]_vars
        => [Router!Next]_(Router!vars)
  <2> DEFINE Same == UNCHANGED <<wire, Hand, arrays, status, completed>>
  <2> SUFFICES ASSUME TypeOK, ResultInv, NestedInv, FrozenInv, HandInv,
                      [Next]_vars
               PROVE  Router!Next \/ Same
    BY DEF Router!vars
  <2> USE DEF rcvVars, remoteVars, history
  <2>1. ASSUME NEW t \in Thread, Caller(t) PROVE Router!Next \/ Same
    <3>1. UNCHANGED <<wire, rcvPc, data, arrays>>
      BY <2>1 DEF Caller, Returns, ExecNewResult, ExecSetStatus, ExecWrite,
         ExecPoll, ExecLeave, ExecReturn, LongWrite, LongSetStatus,
         LongResetCounter, SendCtrlC, StopSendCtrlC, StopSetStatus, shellVars
    <3>2. Hand' = Hand
      BY <3>1 DEF Hand
    <3>3. CASE ExecReturn(t)
      <4>1. cmdResult \in Call /\ status' = status
        BY <3>3 DEF ExecReturn, ResultInv, InExec, TypeOK, shellVars
      <4>2. CASE status = "CommandComplete"
        <5>1. completed' = completed \cup {cmdResult}
          BY <3>3, <4>2 DEF ExecReturn, HandOver
        <5>2. Router!Return(cmdResult)
          BY <3>1, <3>2, <4>1, <4>2, <5>1 DEF Router!Return
        <5>3. QED BY <4>1, <5>2 DEF Router!Next
      <4>3. CASE status # "CommandComplete"
        <5>1. completed' = completed
          BY <3>3, <4>3 DEF ExecReturn, HandOver
        <5>2. QED BY <3>1, <3>2, <4>1, <5>1
      <4>4. QED BY <4>2, <4>3
    <3>4. CASE ExecSetStatus(t) \/ LongSetStatus(t) \/ StopSetStatus(t)
      <4>1. status' # "CommandComplete" /\ completed' = completed
        BY <3>4 DEF ExecSetStatus, LongSetStatus, StopSetStatus
      <4>2. Router!LeavePrompt
        BY <3>1, <3>2, <4>1 DEF Router!LeavePrompt
      <4>3. QED BY <4>2 DEF Router!Next
    <3>5. CASE ~ExecReturn(t) /\ ~ExecSetStatus(t) /\ ~LongSetStatus(t)
               /\ ~StopSetStatus(t)
      <4>1. UNCHANGED <<status, completed>>
        BY <2>1, <3>5 DEF Caller, Returns, ExecNewResult, ExecWrite, ExecPoll,
           ExecLeave, LongWrite, LongResetCounter, SendCtrlC, StopSendCtrlC,
           shellVars
      <4>2. QED BY <3>1, <3>2, <4>1
    <3>6. QED BY <3>3, <3>4, <3>5
  <2>2. CASE Dispatch
    <3>1. rcvPc = "read" /\ wire # <<>> /\ wire' = Tail(wire) /\ Hand = <<>>
          /\ UNCHANGED <<arrays, status, completed>>
      BY <2>2 DEF Dispatch, shellVars, Hand
    <3>2. CASE status \in {"Command", "OnlineCommand"}
      <4>1. rcvPc' \in {"command", "online"} /\ data' = Head(wire)
        BY <2>2, <3>2 DEF Dispatch
      <4>2. Hand' = <<Head(wire)>>
        BY <4>1 DEF Hand
      <4>3. Router!Take
        BY <3>1, <3>2, <4>2 DEF Router!Take
      <4>4. QED BY <4>3 DEF Router!Next
    <3>3. CASE status \notin {"Command", "OnlineCommand"}
      <4>1. rcvPc' = "read"
        BY <2>2, <3>1, <3>3 DEF Dispatch
      <4>2. Hand' = <<>>
        BY <4>1 DEF Hand
      <4>3. Router!Drop
        BY <3>1, <4>2 DEF Router!Drop
      <4>4. QED BY <4>3 DEF Router!Next
    <3>4. QED BY <3>2, <3>3
  <2>3. CASE SeePrompt
    <3>1. /\ Hand = <<LOGSPROMPT>> /\ Hand' = <<>>
          /\ status' = "CommandComplete" /\ UNCHANGED <<wire, arrays, completed>>
      BY <2>3 DEF SeePrompt, Done, Hand
    <3>2. Router!SeePrompt
      BY <3>1 DEF Router!SeePrompt
    <3>3. QED BY <3>2 DEF Router!Next
  <2>4. CASE AddObject
    <3>1. /\ Hand = <<data>> /\ Hand' = <<>> /\ data # LOGSPROMPT
          /\ arrays' = [arrays EXCEPT ![target] = Append(@, data)]
          /\ UNCHANGED <<wire, status, completed>>
      BY <2>4 DEF AddObject, Done, Hand, HandInv
    <3>2. target \in Call /\ target \notin completed
          /\ status # "CommandComplete"
      BY <2>4 DEF AddObject, TypeOK, FrozenInv, NestedInv
    <3>3. Router!Record(target)
      BY <3>1, <3>2 DEF Router!Record
    <3>4. QED BY <3>2, <3>3 DEF Router!Next
  <2>5. CASE Deliver
    <3>1. Hand = <<data>> /\ Hand' = <<>>
          /\ UNCHANGED <<wire, arrays, status, completed>>
      BY <2>5 DEF Deliver, Hand, shellVars
    <3>2. Router!Deliver
      BY <3>1 DEF Router!Deliver
    <3>3. QED BY <3>2 DEF Router!Next
  <2>6. CASE ReadResult \/ ReadCounter \/ SetCounter \/ CallbackReturns
    BY <2>6 DEF ReadResult, ReadCounter, SetCounter, CallbackReturns, Done,
       Hand, shellVars
  <2>7. CASE Remote
    <3>1. UNCHANGED <<Hand, arrays, status, completed>>
      BY <2>7, RemoteFrame DEF Hand, shellVars
    <3>2. Len(wire') >= Len(wire) /\ SubSeq(wire', 1, Len(wire)) = wire
      BY <2>7, RemoteSends, BeginningStays DEF TypeOK
    <3>3. Router!Arrive
      BY <3>1, <3>2 DEF Router!Arrive
    <3>4. QED BY <3>3 DEF Router!Next
  <2>8. CASE UNCHANGED vars
    BY <2>8 DEF vars, shellVars, Hand
  <2>9. QED
    BY <2>1, <2>2, <2>3, <2>4, <2>5, <2>6, <2>7, <2>8 DEF Next, Receiver
<1>3. QED
  BY <1>1, <1>2, BaseInvariant, NestedInvariant, FrozenInvariant, HandInvariant,
     PTL DEF Spec, LineRouterSpec, Router!Spec

-----------------------------------------------------------------------------
(* The arrays are filled one after the other: cmdResult only ever becomes  *)
(* a later one (MPSshShell.m:148 and 191).                                 *)
LEMMA FillInvariant == Spec => []FillInv
<1>1. Init => FillInv
  BY DEF Init, FillInv
<1>2. TypeOK /\ ResultInv /\ FrozenInv /\ FillInv /\ [Next]_vars => FillInv'
  <2> SUFFICES ASSUME TypeOK, ResultInv, FrozenInv, FillInv, [Next]_vars
               PROVE  FillInv'
    OBVIOUS
  <2> /\ calls \in Nat /\ cmdResult \in Nat /\ cmdResult <= calls
      /\ target \in Nat /\ \A a \in Call : a \in Nat
    BY DEF TypeOK, FrozenInv, Call, Nil
  <2> USE DEF FillInv, rcvVars, shellVars
  <2>1. ASSUME NEW t \in Thread, ExecNewResult(t) PROVE FillInv'
    BY <2>1 DEF ExecNewResult
  <2>2. ASSUME NEW t \in Thread, Caller(t), ~ExecNewResult(t) PROVE FillInv'
    BY <2>2 DEF Caller, Returns, ExecSetStatus, ExecWrite, ExecPoll,
       ExecLeave, ExecReturn, LongWrite, LongSetStatus, LongResetCounter,
       SendCtrlC, StopSendCtrlC, StopSetStatus
  <2>3. CASE AddObject
    <3>1. /\ rcvPc = "append" /\ rcvPc' = "read" /\ cmdResult' = cmdResult
          /\ \A a \in Call : a # target => arrays'[a] = arrays[a]
      BY <2>3 DEF AddObject, Done, TypeOK
    <3>2. QED BY <3>1
  <2>4. CASE Receiver /\ ~AddObject
    BY <2>4 DEF Receiver, Dispatch, SeePrompt, ReadResult,
       ReadCounter, SetCounter, Deliver, CallbackReturns, Done
  <2>5. CASE Remote
    BY <2>5, RemoteFrame
  <2>6. CASE UNCHANGED vars
    BY <2>6 DEF vars
  <2>7. QED BY <2>1, <2>2, <2>3, <2>4, <2>5, <2>6 DEF Next
<1>3. QED
  BY <1>1, <1>2, BaseInvariant, FrozenInvariant, PTL DEF Spec

(* What a step does to what the far end has not read: nothing, or one more *)
(* at the end, or some less at the beginning.                              *)
LEMMA StdinSteps ==
  ASSUME TypeOK, [Next]_vars
  PROVE  \/ stdin' = stdin
         \/ \E t \in Thread :
              /\ LongWrite(t) /\ stdin' = Append(stdin, calls + 1)
         \/ \E t \in Thread : ExecWrite(t) /\ stdin' = Append(stdin, call[t])
         \/ \E t \in Thread :
              /\ SendCtrlC(t) \/ StopSendCtrlC(t)
              /\ stdin' = Append(stdin, CtrlC)
         \/ /\ Remote
            /\ \E n \in 1 .. Len(stdin) :
                 stdin' = SubSeq(stdin, n + 1, Len(stdin))
<1>1. CASE Remote
  <2>1. CASE RemoteStart
    <3>1. Tail(stdin) = SubSeq(stdin, 2, Len(stdin)) /\ 1 \in 1 .. Len(stdin)
      BY <2>1, TailIsSubSeq DEF RemoteStart, TypeOK
    <3>2. QED BY <1>1, <2>1, <3>1 DEF RemoteStart
  <2>2. CASE RemotePrint \/ RemoteFinish
    BY <2>2 DEF RemotePrint, RemoteFinish
  <2>3. CASE RemoteInterrupt
    BY <1>1, <2>3 DEF RemoteInterrupt
  <2>4. QED BY <1>1, <2>1, <2>2, <2>3 DEF Remote
<1>2. CASE Receiver
  BY <1>2 DEF Receiver, Dispatch, SeePrompt, ReadResult, AddObject,
     ReadCounter, SetCounter, Deliver, CallbackReturns, remoteVars
<1>3. ASSUME NEW t \in Thread, Caller(t)
      PROVE  \/ stdin' = stdin
             \/ LongWrite(t) /\ stdin' = Append(stdin, calls + 1)
             \/ ExecWrite(t) /\ stdin' = Append(stdin, call[t])
             \/ /\ SendCtrlC(t) \/ StopSendCtrlC(t)
                /\ stdin' = Append(stdin, CtrlC)
  BY <1>3 DEF Caller, Returns, ExecNewResult, ExecSetStatus, ExecWrite,
     ExecPoll, ExecLeave, ExecReturn, LongWrite, LongSetStatus,
     LongResetCounter, SendCtrlC, StopSendCtrlC, StopSetStatus, Writes,
     remoteVars
<1>4. CASE UNCHANGED vars
  BY <1>4 DEF vars, remoteVars
<1>5. QED BY <1>1, <1>2, <1>3, <1>4 DEF Next

(* What a step does to the calls that have not written their command: it   *)
(* makes one with a number not used before, or lets one go on.             *)
LEMMA UnwrittenSteps ==
  ASSUME TypeOK, [Next]_vars, NEW t \in Thread, Unwritten(t)'
  PROVE  /\ \/ Unwritten(t) /\ call'[t] = call[t] /\ ~ExecWrite(t)
            \/ call'[t] = calls + 1 /\ stdin' = stdin
         /\ calls' >= calls
<1> DOMAIN pc = Thread /\ DOMAIN call = Thread /\ calls \in Nat
  BY DEF TypeOK
<1> USE DEF Unwritten, callVars, remoteVars
<1>1. ASSUME NEW u \in Thread, Caller(u)
      PROVE  /\ \/ Unwritten(t) /\ call'[t] = call[t] /\ ~ExecWrite(t)
                \/ call'[t] = calls + 1 /\ stdin' = stdin
             /\ calls' >= calls
  BY <1>1 DEF Caller, Returns, ExecNewResult, ExecSetStatus, ExecWrite,
     ExecPoll, ExecLeave, ExecReturn, LongWrite, LongSetStatus,
     LongResetCounter, SendCtrlC, StopSendCtrlC, StopSetStatus, Begin, Go,
     Return
<1>2. CASE Receiver
  BY <1>2 DEF Receiver, Dispatch, SeePrompt, ReadResult, AddObject,
     ReadCounter, SetCounter, Deliver, CallbackReturns, ExecWrite, Go
<1>3. CASE Remote
  BY <1>3, RemoteFrame DEF ExecWrite, Go
<1>4. CASE UNCHANGED vars
  BY <1>4 DEF vars, ExecWrite, Go
<1>5. QED BY <1>1, <1>2, <1>3, <1>4 DEF Next

(* A command that has reached the shell of the far end has done so for     *)
(* good.                                                                   *)
LEMMA WaitingShrinks ==
  ASSUME TypeOK, [Next]_vars, NEW c \in Call, Waiting(c)'
  PROVE  Waiting(c)
<1> /\ calls \in Nat /\ c \in Nat \ {0} /\ stdin \in Seq(Call \cup {CtrlC})
    /\ call \in [Thread -> Call \cup {Nil}]
  BY DEF TypeOK, Call
<1>0. calls' >= calls \/ \A t \in Thread : ~Unwritten(t)'
  BY UnwrittenSteps
<1>1. CASE c > calls'
  <2>1. calls' = calls \/ calls' = calls + 1
    BY RemoteFrame DEF Next, Caller, Returns, ExecNewResult, ExecSetStatus,
       ExecWrite, ExecPoll, ExecLeave, ExecReturn, LongWrite, LongSetStatus,
       LongResetCounter, SendCtrlC, StopSendCtrlC, StopSetStatus, Begin, Go,
       Return, Receiver, Dispatch, SeePrompt, ReadResult, AddObject,
       ReadCounter, SetCounter, Deliver, CallbackReturns, callVars, vars
  <2>2. c > calls
    BY <1>1, <2>1
  <2>3. QED BY <2>2 DEF Waiting
<1>2. ASSUME NEW t \in Thread, call'[t] = c, Unwritten(t)' PROVE Waiting(c)
  <2>1. (Unwritten(t) /\ call[t] = c) \/ c = calls + 1
    BY <1>2, UnwrittenSteps
  <2>2. QED BY <2>1 DEF Waiting
<1>3. ASSUME NEW i \in 1 .. Len(stdin'), stdin'[i] = c PROVE Waiting(c)
  <2>1. CASE \E j \in 1 .. Len(stdin) : stdin[j] = c
    BY <2>1 DEF Waiting
  <2>2. CASE \A j \in 1 .. Len(stdin) : stdin[j] # c
    <3>1. ASSUME NEW x \in Nat, stdin' = Append(stdin, x) PROVE x = c
      <4>1. stdin \in Seq(Nat)
        BY StdinTyped
      <4>2. stdin'[i] = (IF i <= Len(stdin) THEN stdin[i] ELSE x)
            /\ (i <= Len(stdin) => i \in 1 .. Len(stdin))
        BY <1>3, <3>1, <4>1, AppendElements
      <4>3. QED BY <1>3, <2>2, <4>2
    <3>2. ASSUME NEW n \in 1 .. Len(stdin), stdin' = SubSeq(stdin, n + 1, Len(stdin))
          PROVE  FALSE
      <4>1. i + n \in 1 .. Len(stdin) /\ stdin'[i] = stdin[i + n]
        BY <1>3, <3>2
      <4>2. QED BY <1>3, <2>2, <4>1
    <3>3. stdin' # stdin
      BY <1>3, <2>2
    <3>4. calls + 1 \in Nat /\ CtrlC \in Nat /\ CtrlC # c
          /\ \A t \in Thread : call[t] \in Nat
      BY DEF CtrlC, Call, Nil
    <3>5. CASE \E t \in Thread : ExecWrite(t) /\ stdin' = Append(stdin, call[t])
      <4>1. PICK t \in Thread : ExecWrite(t) /\ stdin' = Append(stdin, call[t])
        BY <3>5
      <4>2. call[t] = c /\ Unwritten(t)
        BY <3>1, <3>4, <4>1 DEF ExecWrite, Go, Unwritten
      <4>3. QED BY <4>2 DEF Waiting
    <3>6. CASE stdin' = Append(stdin, calls + 1)
      <4>1. c > calls
        BY <3>1, <3>4, <3>6
      <4>2. QED BY <4>1 DEF Waiting
    <3>7. QED BY <3>1, <3>2, <3>3, <3>4, <3>5, <3>6, StdinSteps
  <2>3. QED BY <2>1, <2>2
<1>4. QED BY <1>1, <1>2, <1>3 DEF Waiting

(* What is left of a sequence when its first n elements are gone.          *)
LEMMA SuffixIndex ==
  ASSUME NEW S, NEW s \in Seq(S), NEW n \in 1 .. Len(s),
         NEW i \in 1 .. Len(SubSeq(s, n + 1, Len(s)))
  PROVE  i + n \in 1 .. Len(s) /\ SubSeq(s, n + 1, Len(s))[i] = s[i + n]
OBVIOUS

(* A sequence without repetition but for z stays so when x is put at its   *)
(* end, if x is z or is not in it.                                         *)
LEMMA AppendDistinct ==
  ASSUME NEW s \in Seq(Nat), NEW x \in Nat, NEW z,
         \A i, j \in 1 .. Len(s) : i < j /\ s[i] = s[j] => s[i] = z,
         x = z \/ \A i \in 1 .. Len(s) : s[i] # x
  PROVE  \A i, j \in 1 .. Len(Append(s, x)) :
           i < j /\ Append(s, x)[i] = Append(s, x)[j] => Append(s, x)[i] = z
<1> DEFINE u == Append(s, x)
<1> SUFFICES ASSUME NEW i \in 1 .. Len(s) + 1, NEW j \in 1 .. Len(s) + 1,
                    i < j, u[i] = u[j]
             PROVE  u[i] = z
  BY AppendElements
<1>0. Len(s) \in Nat
  OBVIOUS
<1>1. i \in 1 .. Len(s) /\ u[i] = s[i]
  BY AppendElements
<1>2. u[j] = IF j <= Len(s) THEN s[j] ELSE x
  BY AppendElements
<1> HIDE DEF u
<1>3. CASE j <= Len(s)
  <2>1. j \in 1 .. Len(s)
    BY <1>0, <1>3
  <2>2. s[i] = s[j]
    BY <1>1, <1>2, <1>3
  <2>3. QED BY <1>1, <2>1, <2>2
<1>4. CASE ~(j <= Len(s))
  <2>1. s[i] = x
    BY <1>1, <1>2, <1>4
  <2>2. QED BY <1>1, <2>1
<1>5. QED BY <1>3, <1>4

(* Every command is written once and run once.                             *)
LEMMA OnceInvariant == Spec => []OnceInv
<1>1. Init => OnceInv
  BY DEF Init, OnceInv, Unwritten, Thread
<1>2. TypeOK /\ ResultInv /\ FreshInv /\ OnceInv /\ [Next]_vars => OnceInv'
  <2> SUFFICES ASSUME TypeOK, ResultInv, FreshInv, OnceInv, [Next]_vars
               PROVE  OnceInv'
    OBVIOUS
  <2> /\ calls \in Nat /\ stdin \in Seq(Nat)
      /\ call \in [Thread -> Call \cup {Nil}] /\ Call \subseteq Nat /\ Nil = 0
      /\ CtrlC = 0 /\ 0 \notin Call
    BY StdinTyped DEF TypeOK, Call, Nil, CtrlC
  <2>1. \A i \in 1 .. Len(stdin) : stdin[i] <= calls /\ stdin[i] \in Nat
    BY DEF FreshInv
  <2>2. \A t \in Thread : call[t] <= calls /\ call[t] \in Nat
                          /\ (Unwritten(t) => call[t] # Nil)
    <3> SUFFICES ASSUME NEW t \in Thread
                 PROVE  /\ call[t] <= calls /\ call[t] \in Nat
                        /\ (Unwritten(t) => call[t] # Nil)
      OBVIOUS
    <3>1. call[t] <= calls /\ call[t] \in Nat
      <4>1. call[t] \in Nat
        BY SMT DEF TypeOK, Call, Nil
      <4>2. call[t] <= calls
        BY Zenon DEF FreshInv
      <4>3. QED BY <4>1, <4>2
    <3>2. Unwritten(t) => call[t] # Nil
      BY Zenon DEF ResultInv, InExec, Unwritten
    <3>3. QED BY <3>1, <3>2
  <2>3. call'["app"] = call'["rcv"] => call'["app"] = Nil
    <3>1. ASSUME NEW t \in Thread, Caller(t)
          PROVE  \/ call' = call \/ call' = [call EXCEPT ![t] = Nil]
                 \/ call' = [call EXCEPT ![t] = calls + 1]
      BY <3>1 DEF Caller, Returns, ExecNewResult, ExecSetStatus, ExecWrite,
         ExecPoll, ExecLeave, ExecReturn, LongWrite, LongSetStatus,
         LongResetCounter, SendCtrlC, StopSendCtrlC, StopSetStatus, Begin, Go,
         Return, callVars
    <3>2. CASE \E t \in Thread : Caller(t)
      <4>1. call["app"] = call["rcv"] => call["app"] = Nil
        BY DEF OnceInv
      <4>2. "app" \in Thread /\ "rcv" \in Thread /\ Thread = {"app", "rcv"}
        BY DEF Thread
      <4>3. call["app"] # calls + 1 /\ call["rcv"] # calls + 1 /\ calls + 1 # Nil
        BY <2>2, <4>2
      <4>4. QED BY <3>1, <3>2, <4>1, <4>2, <4>3
    <3>3. CASE ~\E t \in Thread : Caller(t)
      <4>1. call' = call
        BY <3>3, RemoteFrame DEF Next, Receiver, Dispatch, SeePrompt,
           ReadResult, AddObject, ReadCounter, SetCounter, Deliver,
           CallbackReturns, callVars, vars
      <4>2. QED BY <4>1 DEF OnceInv
    <3>4. QED BY <3>2, <3>3
  <2>4. ASSUME NEW i \in 1 .. Len(stdin'), NEW j \in 1 .. Len(stdin'),
               i < j, stdin'[i] = stdin'[j]
        PROVE  stdin'[i] = CtrlC
    <3>1. ASSUME NEW x \in Nat, stdin' = Append(stdin, x),
                 x = CtrlC \/ \A k \in 1 .. Len(stdin) : stdin[k] # x
          PROVE  stdin'[i] = CtrlC
      BY <2>4, <3>1, AppendDistinct DEF OnceInv
    <3>2. ASSUME NEW n \in 1 .. Len(stdin), stdin' = SubSeq(stdin, n + 1, Len(stdin))
          PROVE  stdin'[i] = CtrlC
      <4>1. /\ i + n \in 1 .. Len(stdin) /\ stdin'[i] = stdin[i + n]
            /\ j + n \in 1 .. Len(stdin) /\ stdin'[j] = stdin[j + n]
            /\ i + n < j + n
        <5>1. stdin \in Seq(Nat)
          BY DEF TypeOK
        <5>2. i + n \in 1 .. Len(stdin) /\ stdin'[i] = stdin[i + n]
          BY <3>2, <5>1, SuffixIndex
        <5>3. j + n \in 1 .. Len(stdin) /\ stdin'[j] = stdin[j + n]
          BY <3>2, <5>1, SuffixIndex
        <5>4. i + n < j + n
          BY <2>4
        <5>5. QED BY <5>2, <5>3, <5>4
      <4>2. QED BY <2>4, <4>1 DEF OnceInv
    <3>3. \A k \in 1 .. Len(stdin) : stdin[k] # calls + 1
      BY <2>1
    <3>4. \A t \in Thread : ExecWrite(t) =>
            \A k \in 1 .. Len(stdin) : stdin[k] # call[t]
      BY DEF ExecWrite, Go, OnceInv, Unwritten
    <3>5. CASE stdin' = stdin
      BY <2>4, <3>5 DEF OnceInv
    <3>6. CASE stdin' = Append(stdin, calls + 1)
      BY <3>1, <3>3, <3>6
    <3>7. CASE stdin' = Append(stdin, CtrlC)
      BY <3>1, <3>7
    <3>8. ASSUME NEW t \in Thread, ExecWrite(t), stdin' = Append(stdin, call[t])
          PROVE  stdin'[i] = CtrlC
      BY <2>2, <3>1, <3>4, <3>8
    <3>9. QED BY <3>2, <3>5, <3>6, <3>7, <3>8, StdinSteps
  <2>5. ASSUME NEW t \in Thread, Unwritten(t)', NEW i \in 1 .. Len(stdin')
        PROVE  stdin'[i] # call'[t]
    <3>1. CASE call'[t] = calls + 1 /\ stdin' = stdin
      BY <2>1, <3>1
    <3>2. CASE Unwritten(t) /\ call'[t] = call[t] /\ ~ExecWrite(t)
      <4>1. \A k \in 1 .. Len(stdin) : stdin[k] # call[t]
        BY <3>2 DEF OnceInv
      <4>2. ASSUME NEW x \in Nat, stdin' = Append(stdin, x), x # call[t]
            PROVE  stdin'[i] # call'[t]
        BY <2>5, <3>2, <4>1, <4>2, AppendAvoids
      <4>3. ASSUME NEW n \in 1 .. Len(stdin), stdin' = SubSeq(stdin, n + 1, Len(stdin))
            PROVE  stdin'[i] # call'[t]
        <5>1. i + n \in 1 .. Len(stdin) /\ stdin'[i] = stdin[i + n]
          BY <2>5, <4>3
        <5>2. QED BY <3>2, <4>1, <5>1
      <4>4. call[t] # calls + 1 /\ call[t] # CtrlC
        BY <2>2, <3>2
      <4>5. \A u \in Thread : u # t => call[u] # call[t]
        BY <2>2, <3>2 DEF OnceInv, Thread
      <4>6. QED BY <2>2, <3>2, <4>1, <4>2, <4>3, <4>4, <4>5, StdinSteps
    <3>3. QED BY <2>5, <3>1, <3>2, UnwrittenSteps
  <2>6. running' # Nil => ~Waiting(running)'
    <3>1. CASE RemoteStart
      <4> DEFINE c == Head(stdin)
      <4>1. /\ running' = c /\ c = stdin[1] /\ c # CtrlC /\ stdin # <<>>
            /\ stdin' = Tail(stdin)
        BY <3>1 DEF RemoteStart
      <4>2. 1 \in 1 .. Len(stdin) /\ c <= calls /\ calls' = calls
            /\ call' = call /\ pc' = pc
        BY <2>1, <3>1, <4>1 DEF RemoteStart, callVars
      <4>3. \A t \in Thread : Unwritten(t) => call[t] # c
        BY <4>1, <4>2 DEF OnceInv
      <4>4. \A i \in 1 .. Len(stdin') : stdin'[i] # c
        <5>1. SUFFICES ASSUME NEW i \in 1 .. Len(stdin') PROVE stdin'[i] # c
          OBVIOUS
        <5>2. i + 1 \in 1 .. Len(stdin) /\ stdin'[i] = stdin[i + 1] /\ 1 < i + 1
          BY <4>1
        <5>3. QED BY <4>1, <4>2, <5>2 DEF OnceInv
      <4>5. QED BY <2>1, <4>1, <4>2, <4>3, <4>4 DEF Waiting, Unwritten
    <3>2. CASE ~RemoteStart
      <4>1. running' \in {running, Nil}
        BY <3>2 DEF Next, Caller, Returns, ExecNewResult, ExecSetStatus,
           ExecWrite, ExecPoll, ExecLeave, ExecReturn, LongWrite,
           LongSetStatus, LongResetCounter, SendCtrlC, StopSendCtrlC,
           StopSetStatus, Receiver, Dispatch, SeePrompt, ReadResult,
           AddObject, ReadCounter, SetCounter, Deliver, CallbackReturns,
           Remote, RemotePrint, RemoteFinish, RemoteInterrupt, remoteVars,
           vars
      <4>2. ASSUME NEW c \in Call, running = c, running' = c, Waiting(c)'
            PROVE  FALSE
        <5>1. Waiting(c)
          BY <4>2, WaitingShrinks
        <5>2. c # Nil
          OBVIOUS
        <5>3. QED BY <4>2, <5>1, <5>2 DEF OnceInv
      <4>3. running \in Call \cup {Nil}
        BY DEF TypeOK
      <4>4. CASE running' = Nil
        BY <4>4
      <4>5. CASE running' = running /\ running \in Call
        <5>1. PICK c \in Call : running = c
          BY <4>5
        <5>2. Waiting(running)' = Waiting(c)'
          BY <4>5, <5>1 DEF Waiting
        <5>3. QED BY <4>2, <4>5, <5>1, <5>2
      <4>6. QED BY <4>1, <4>3, <4>4, <4>5
    <3>3. QED BY <3>1, <3>2
  <2>7. QED BY <2>3, <2>4, <2>5, <2>6 DEF OnceInv
<1>3. QED BY <1>1, <1>2, BaseInvariant, FreshInvariant, PTL DEF Spec

-----------------------------------------------------------------------------
(* What was sent stays sent.                                               *)
LEMMA SentStays ==
  ASSUME TypeOK, [Next]_vars, NEW l \in Line, Sent(l) PROVE Sent(l)'
<1>1. CASE l.cmd = Nil
  BY <1>1 DEF Sent
<1>2. CASE l.cmd # Nil
  <2> DEFINE c == l.cmd
  <2>1. c \in Call /\ l.no \in Nat
    BY <1>2, CommandsAssumption DEF Line
  <2>2. printed[c] \in Nat /\ printed'[c] \in Nat /\ printed[c] <= printed'[c]
    <3>1. printed[c] \in Nat
      BY <2>1, CommandsAssumption DEF TypeOK
    <3>2. CASE RemotePrint
      BY <2>1, <3>1, <3>2 DEF RemotePrint, TypeOK
    <3>3. CASE ~RemotePrint
      <4>1. printed' = printed
        BY <3>3 DEF Next, Caller, Returns, ExecNewResult, ExecSetStatus,
           ExecWrite, ExecPoll, ExecLeave, ExecReturn, LongWrite,
           LongSetStatus, LongResetCounter, SendCtrlC, StopSendCtrlC,
           StopSetStatus, Receiver, Dispatch, SeePrompt, ReadResult,
           AddObject, ReadCounter, SetCounter, Deliver, CallbackReturns,
           Remote, RemoteStart, RemoteFinish, RemoteInterrupt, remoteVars,
           vars
      <4>2. QED BY <3>1, <4>1
    <3>4. QED BY <3>2, <3>3
  <2>3. l.no <= printed[c] /\ ~Waiting(c)
    BY <1>2 DEF Sent
  <2>4. ~Waiting(c)'
    BY <2>1, <2>3, WaitingShrinks
  <2>5. l.no <= printed'[c]
    BY <2>1, <2>2, <2>3
  <2>6. QED BY <2>4, <2>5 DEF Sent
<1>3. QED BY <1>1, <1>2

(* What the far end sends is sent for the first time and follows all that  *)
(* was sent before.                                                        *)
LEMMA RemoteFollows ==
  ASSUME TypeOK, OnceInv, OnceInv', Remote
  PROVE  \E w \in Seq(Line) :
           /\ wire' = wire \o w
           /\ \A k \in 1 .. Len(w) : Sent(w[k])'
           /\ \A l \in Line : Sent(l) => \A k \in 1 .. Len(w) : Follows(l, w[k])
           /\ \A j, k \in 1 .. Len(w) : j < k => Follows(w[j], w[k])
<1> wire \in Seq(Line)
  BY DEF TypeOK
<1>1. ASSUME NEW e \in Line, wire' = Append(wire, e), Sent(e)',
             \A l \in Line : Sent(l) => Follows(l, e)
      PROVE  \E w \in Seq(Line) :
               /\ wire' = wire \o w
               /\ \A k \in 1 .. Len(w) : Sent(w[k])'
               /\ \A l \in Line : Sent(l) => \A k \in 1 .. Len(w) : Follows(l, w[k])
               /\ \A j, k \in 1 .. Len(w) : j < k => Follows(w[j], w[k])
  <2> DEFINE w == <<e>>
  <2>1. w \in Seq(Line) /\ wire' = wire \o w
    BY <1>1, AppendIsConcat
  <2>2. Len(w) = 1 /\ w[1] = e
    OBVIOUS
  <2> HIDE DEF w
  <2>3. \A k \in 1 .. Len(w) : k = 1
    BY <2>2
  <2>4. \A k \in 1 .. Len(w) : Sent(w[k])'
    BY <1>1, <2>2, <2>3
  <2>5. \A j, k \in 1 .. Len(w) : ~(j < k)
    BY <2>3
  <2>6. QED BY <1>1, <2>1, <2>2, <2>3, <2>4, <2>5
<1>2. ASSUME NEW w \in Seq(Line), wire' = wire \o w,
             \A k \in 1 .. Len(w) : w[k].cmd = Nil
      PROVE  /\ \A k \in 1 .. Len(w) : Sent(w[k])'
             /\ \A l \in Line : Sent(l) => \A k \in 1 .. Len(w) : Follows(l, w[k])
             /\ \A j, k \in 1 .. Len(w) : j < k => Follows(w[j], w[k])
  BY <1>2 DEF Sent, Follows
<1>3. CASE RemoteStart
  <2>1. PICK c \in Call : c = Head(stdin) /\ c # Nil /\ c = stdin[1]
                          /\ 1 \in 1 .. Len(stdin)
    BY <1>3, HeadTailProperties DEF RemoteStart, TypeOK, CtrlC, Nil, Call
  <2>2. Waiting(c)
    BY <2>1 DEF Waiting
  <2>3. wire' = Append(wire, Echo(c)) /\ running' = c
    BY <1>3, <2>1 DEF RemoteStart
  <2>4. Echo(c) \in Line /\ Echo(c).cmd = c /\ Echo(c).no = 0
    BY <2>1, LinesTyped DEF Echo
  <2>5. Sent(Echo(c))'
    <3>1. ~Waiting(c)'
      BY <2>1, <2>3 DEF OnceInv, Waiting
    <3>2. printed'[c] \in Nat
      BY <1>3, CommandsAssumption DEF RemoteStart, TypeOK
    <3>3. QED BY <2>4, <3>1, <3>2 DEF Sent
  <2>6. \A l \in Line : Sent(l) => Follows(l, Echo(c))
    BY <2>2, <2>4 DEF Sent, Follows
  <2>7. QED BY <1>1, <2>3, <2>4, <2>5, <2>6
<1>4. CASE RemotePrint
  <2>1. PICK c \in Call : c = running /\ c # Nil
    BY <1>4 DEF RemotePrint, TypeOK
  <2>2. PICK n \in 1 .. MaxOut : n = printed[c] + 1
    BY <1>4, <2>1, CommandsAssumption DEF RemotePrint, TypeOK
  <2> DEFINE e == Out(c, n)
  <2>3. /\ wire' = Append(wire, e) /\ running' = c
        /\ printed'[c] = n /\ printed[c] < n
    BY <1>4, <2>1, <2>2, CommandsAssumption DEF RemotePrint, TypeOK
  <2>4. e \in Line /\ e.cmd = c /\ e.no = n
    <3>1. n \in 0 .. MaxOut
      OBVIOUS
    <3>2. QED BY <3>1, LinesTyped DEF Out
  <2>5. Sent(e)'
    <3>1. ~Waiting(c)'
      BY <2>1, <2>3 DEF OnceInv, Waiting
    <3>2. QED BY <2>3, <2>4, <3>1 DEF Sent
  <2>6. \A l \in Line : Sent(l) => Follows(l, e)
    <3> SUFFICES ASSUME NEW l \in Line, Sent(l), l.cmd = c PROVE l.no < n
      BY <2>4 DEF Follows
    <3>1. l.no <= printed[c] /\ l.no \in Nat /\ printed[c] \in Nat
      BY <2>1, CommandsAssumption DEF Sent, Line, TypeOK
    <3>2. QED BY <2>2, <2>3, <3>1
  <2> HIDE DEF e
  <2>7. QED BY <1>1, <2>3, <2>4, <2>5, <2>6
<1>5. CASE RemoteFinish
  <2>0. PromptLines(promptSet') \in Seq(Line)
    BY LinesTyped DEF PromptLines
  <2>1. PICK w \in Seq(Line) : w = PromptLines(promptSet')
    BY <2>0
  <2>2. wire' = wire \o w
    BY <1>5, <2>1 DEF RemoteFinish
  <2>3. \A k \in 1 .. Len(w) : w[k].cmd = Nil
    BY <2>1 DEF PromptLines, LOGSPROMPT
  <2>4. QED BY <1>2, <2>2, <2>3
<1>6. CASE RemoteInterrupt
  <2>1. PromptLines(promptSet) \in Seq(Line) /\ <<InterruptEcho>> \in Seq(Line)
        /\ wire' = wire \o <<InterruptEcho>> \o PromptLines(promptSet)
    BY <1>6, LinesTyped DEF PromptLines, RemoteInterrupt
  <2>2. PICK w \in Seq(Line) : w = <<InterruptEcho>> \o PromptLines(promptSet)
    BY <2>1, ConcatProperties
  <2>3. wire' = wire \o w
    BY <2>1, <2>2, ConcatAssociative
  <2>4. \A k \in 1 .. Len(w) : w[k].cmd = Nil
    BY <2>2 DEF PromptLines, LOGSPROMPT, InterruptEcho
  <2>5. QED BY <1>2, <2>3, <2>4
<1>7. QED BY <1>3, <1>4, <1>5, <1>6 DEF Remote

(* The element k of s \o w is one of s or one of w.                        *)
LEMMA ConcatElements ==
  ASSUME NEW S, NEW s \in Seq(S), NEW w \in Seq(S), NEW k \in 1 .. Len(s \o w)
  PROVE  \/ k \in 1 .. Len(s) /\ (s \o w)[k] = s[k]
         \/ k > Len(s) /\ k - Len(s) \in 1 .. Len(w) /\ (s \o w)[k] = w[k - Len(s)]
<1>1. /\ Len(s) \in Nat /\ Len(w) \in Nat /\ Len(s \o w) = Len(s) + Len(w)
      /\ \A i \in 1 .. Len(s) + Len(w) :
           (s \o w)[i] = IF i <= Len(s) THEN s[i] ELSE w[i - Len(s)]
  BY ConcatProperties
<1>2. k \in 1 .. Len(s) + Len(w)
  BY <1>1
<1>3. CASE k <= Len(s)
  <2>1. k \in 1 .. Len(s)
    BY <1>1, <1>2, <1>3
  <2>2. QED BY <1>1, <1>2, <1>3, <2>1
<1>4. CASE ~(k <= Len(s))
  <2>1. k > Len(s) /\ k - Len(s) \in 1 .. Len(w)
    BY <1>1, <1>2, <1>4
  <2>2. QED BY <1>1, <1>2, <1>4, <2>1
<1>5. QED BY <1>3, <1>4

(* What a step does to the arrays, the line in hand and the wire.          *)
LEMMA LineSteps ==
  ASSUME TypeOK, HandInv, [Next]_vars
  PROVE  \/ UNCHANGED <<arrays, wire>> /\ (InHand' => InHand /\ data' = data)
         \/ Remote /\ UNCHANGED <<arrays, rcvPc, data>>
         \/ /\ rcvPc = "read" /\ wire # <<>> /\ wire' = Tail(wire)
            /\ arrays' = arrays /\ (InHand' => data' = Head(wire))
         \/ /\ AddObject /\ InHand /\ ~InHand' /\ wire' = wire
            /\ target \in Call
            /\ arrays' = [arrays EXCEPT ![target] = Append(@, data)]
<1> USE DEF InHand, rcvVars, shellVars, remoteVars
<1>1. ASSUME NEW t \in Thread, Caller(t)
      PROVE  UNCHANGED <<arrays, wire, rcvPc, data>>
  BY <1>1 DEF Caller, Returns, ExecNewResult, ExecSetStatus, ExecWrite,
     ExecPoll, ExecLeave, ExecReturn, LongWrite, LongSetStatus,
     LongResetCounter, SendCtrlC, StopSendCtrlC, StopSetStatus
<1>2. CASE Dispatch
  BY <1>2 DEF Dispatch
<1>3. CASE AddObject
  BY <1>3 DEF AddObject, Done, TypeOK
<1>4. CASE SeePrompt \/ ReadResult \/ ReadCounter \/ SetCounter \/ Deliver
           \/ CallbackReturns
  BY <1>4 DEF SeePrompt, ReadResult, ReadCounter, SetCounter, Deliver,
     CallbackReturns, Done
<1>5. CASE Remote
  BY <1>5, RemoteFrame
<1>6. CASE UNCHANGED vars
  BY <1>6 DEF vars
<1>7. QED BY <1>1, <1>2, <1>3, <1>4, <1>5, <1>6 DEF Next, Receiver

(* The lines of an array with one more at its end.                         *)
LEMMA AddedLines ==
  ASSUME TypeOK, target \in Call,
         arrays' = [arrays EXCEPT ![target] = Append(@, data)],
         NEW a \in Call, NEW i \in 1 .. Len(arrays'[a])
  PROVE  \/ i \in 1 .. Len(arrays[a]) /\ arrays'[a][i] = arrays[a][i]
         \/ a = target /\ i = Len(arrays[a]) + 1 /\ arrays'[a][i] = data
<1>1. arrays \in [Call -> Seq(Line)] /\ data \in Line /\ arrays[a] \in Seq(Line)
  BY DEF TypeOK
<1>2. CASE a # target
  BY <1>1, <1>2
<1>3. CASE a = target
  <2>1. arrays'[a] = Append(arrays[a], data)
    BY <1>1, <1>3
  <2>2. /\ Len(arrays[a]) \in Nat /\ i \in 1 .. Len(arrays[a]) + 1
        /\ arrays'[a][i] = IF i <= Len(arrays[a]) THEN arrays[a][i] ELSE data
    BY <1>1, <2>1, AppendElements
  <2>3. i \in 1 .. Len(arrays[a]) \/ i = Len(arrays[a]) + 1
    BY <2>2
  <2>4. QED BY <1>3, <2>2, <2>3
<1>4. QED BY <1>2, <1>3

LEMMA ElementTyped ==
  ASSUME NEW S, NEW s \in Seq(S), NEW i \in 1 .. Len(s) PROVE s[i] \in S
  OBVIOUS

(* Everything on the wire, in hand and recorded has been sent.             *)
LEMMA SentInvariant == Spec => []SentInv
<1>1. Init => SentInv
  BY DEF Init, SentInv, InHand, Sent, Welcome
<1>2. TypeOK /\ HandInv /\ TypeOK' /\ OnceInv /\ OnceInv' /\ SentInv
        /\ [Next]_vars => SentInv'
  <2> SUFFICES ASSUME TypeOK, TypeOK', HandInv, OnceInv, OnceInv', SentInv,
                      [Next]_vars
               PROVE  SentInv'
    OBVIOUS
  <2>0. /\ wire \in Seq(Line) /\ data \in Line
        /\ \A a \in Call : \A i \in 1 .. Len(arrays[a]) : arrays[a][i] \in Line
        /\ \A k \in 1 .. Len(wire) : wire[k] \in Line
    <3>1. /\ wire \in Seq(Line) /\ data \in Line
          /\ \A a \in Call : arrays[a] \in Seq(Line)
      BY DEF TypeOK
    <3>2. QED BY <3>1, ElementTyped
  <2>a. /\ \A a \in Call : \A i \in 1 .. Len(arrays[a]) :
             \A l \in Line : l = arrays[a][i] => Sent(l)'
        /\ InHand => \A l \in Line : l = data => Sent(l)'
        /\ \A k \in 1 .. Len(wire) : \A l \in Line : l = wire[k] => Sent(l)'
    BY <2>0, SentStays DEF SentInv
  <2>b. /\ \A a \in Call : \A i \in 1 .. Len(arrays'[a]) :
             \A l \in Line : l = arrays'[a][i] => Sent(l)'
        /\ InHand' => \A l \in Line : l = data' => Sent(l)'
        /\ \A k \in 1 .. Len(wire') : \A l \in Line : l = wire'[k] => Sent(l)'
    <3>1. CASE UNCHANGED <<arrays, wire>> /\ (InHand' => InHand /\ data' = data)
      BY <2>a, <3>1
    <3>2. CASE Remote /\ UNCHANGED <<arrays, rcvPc, data>>
      <4>1. PICK w \in Seq(Line) : wire' = wire \o w
                                   /\ \A k \in 1 .. Len(w) : Sent(w[k])'
        BY <3>2, RemoteFollows
      <4>2. ASSUME NEW k \in 1 .. Len(wire'), NEW l \in Line, l = wire'[k]
            PROVE  Sent(l)'
        <5>1. CASE k \in 1 .. Len(wire) /\ wire'[k] = wire[k]
          BY <2>a, <4>2, <5>1
        <5>2. CASE k - Len(wire) \in 1 .. Len(w) /\ wire'[k] = w[k - Len(wire)]
          <6>1. PICK j \in 1 .. Len(w) : l = w[j]
            BY <4>2, <5>2
          <6>2. QED BY <4>1, <6>1
        <5>3. QED BY <2>0, <4>1, <5>1, <5>2, ConcatElements
      <4>3. QED BY <2>a, <3>2, <4>2 DEF InHand
    <3>3. CASE /\ rcvPc = "read" /\ wire # <<>> /\ wire' = Tail(wire)
               /\ arrays' = arrays /\ (InHand' => data' = Head(wire))
      <4>1. /\ Head(wire) = wire[1] /\ 1 \in 1 .. Len(wire)
            /\ \A k \in 1 .. Len(wire') : k + 1 \in 1 .. Len(wire)
                                          /\ wire'[k] = wire[k + 1]
        BY <2>0, <3>3
      <4>2. QED BY <2>a, <3>3, <4>1
    <3>4. CASE /\ AddObject /\ InHand /\ ~InHand' /\ wire' = wire
               /\ target \in Call
               /\ arrays' = [arrays EXCEPT ![target] = Append(@, data)]
      BY <2>a, <3>4, AddedLines
    <3>5. QED BY <3>1, <3>2, <3>3, <3>4, LineSteps
  <2>c. (/\ data \in Line
         /\ \A a \in Call : \A i \in 1 .. Len(arrays[a]) : arrays[a][i] \in Line
         /\ \A k \in 1 .. Len(wire) : wire[k] \in Line)'
    <3>1. /\ wire' \in Seq(Line) /\ data' \in Line
          /\ \A a \in Call : arrays'[a] \in Seq(Line)
      BY DEF TypeOK
    <3>2. QED BY <3>1, ElementTyped
  <2>4. QED BY <2>b, <2>c DEF SentInv, Sent
<1>3. QED
  BY <1>1, <1>2, CommandsTypeCorrect, HandInvariant, OnceInvariant, PTL DEF Spec

(* The lines stay in order on their way from the wire to the arrays.       *)
LEMMA OrderInvariant == Spec => []OrderInv
<1>1. Init => OrderInv
  BY DEF Init, OrderInv, RecordedInOrder, InHand
<1>2. TypeOK /\ HandInv /\ FillInv /\ OnceInv /\ OnceInv' /\ SentInv /\ OrderInv
        /\ [Next]_vars => OrderInv'
  <2> SUFFICES ASSUME TypeOK, HandInv, FillInv, OnceInv, OnceInv', SentInv,
                      OrderInv, [Next]_vars
               PROVE  OrderInv'
    OBVIOUS
  <2>0. /\ wire \in Seq(Line) /\ data \in Line /\ Len(wire) \in Nat
        /\ \A a \in Call : arrays[a] \in Seq(Line)
    BY DEF TypeOK
  <2>a. /\ \A a \in Call : \A i \in 1 .. Len(arrays[a]) : arrays[a][i] \in Line
        /\ \A k \in 1 .. Len(wire) : wire[k] \in Line
    BY <2>0, ElementTyped
  <2>1. CASE UNCHANGED <<arrays, wire>> /\ (InHand' => InHand /\ data' = data)
    BY <2>1 DEF OrderInv, RecordedInOrder
  <2>2. CASE Remote /\ UNCHANGED <<arrays, rcvPc, data>>
    <3>1. PICK w \in Seq(Line) :
            /\ wire' = wire \o w
            /\ \A l \in Line : Sent(l) => \A k \in 1 .. Len(w) : Follows(l, w[k])
            /\ \A j, k \in 1 .. Len(w) : j < k => Follows(w[j], w[k])
      BY <2>2, RemoteFollows
    <3>2. ASSUME NEW k \in 1 .. Len(wire')
          PROVE  \/ k \in 1 .. Len(wire) /\ wire'[k] = wire[k]
                 \/ k > Len(wire) /\ \E n \in 1 .. Len(w) :
                      n = k - Len(wire) /\ wire'[k] = w[n]
      BY <2>0, <3>1, ConcatElements
    <3>3. InHand' = InHand
      BY <2>2 DEF InHand
    <3>4. RecordedInOrder'
      BY <2>2 DEF OrderInv, RecordedInOrder
    <3>5. ASSUME NEW l \in Line, Sent(l),
                 \A k \in 1 .. Len(wire) : Follows(l, wire[k])
          PROVE  \A k \in 1 .. Len(wire') : Follows(l, wire'[k])
      BY <3>1, <3>2, <3>5
    <3>6. ASSUME NEW a \in Call, NEW i \in 1 .. Len(arrays[a])
          PROVE  \A k \in 1 .. Len(wire') : Follows(arrays[a][i], wire'[k])
      <4>1. arrays[a][i] \in Line /\ Sent(arrays[a][i])
            /\ \A k \in 1 .. Len(wire) : Follows(arrays[a][i], wire[k])
        BY <2>a DEF SentInv, OrderInv
      <4>2. QED BY <3>5, <4>1
    <3>7. InHand => \A k \in 1 .. Len(wire') : Follows(data, wire'[k])
      <4>1. InHand => Sent(data) /\ \A k \in 1 .. Len(wire) : Follows(data, wire[k])
        BY DEF SentInv, OrderInv
      <4>2. QED BY <2>0, <3>5, <4>1
    <3>8. ASSUME NEW j \in 1 .. Len(wire'), NEW k \in 1 .. Len(wire'), j < k
          PROVE  Follows(wire'[j], wire'[k])
      <4>1. CASE j \in 1 .. Len(wire) /\ wire'[j] = wire[j]
        <5>1. CASE k \in 1 .. Len(wire) /\ wire'[k] = wire[k]
          BY <3>8, <4>1, <5>1 DEF OrderInv
        <5>2. ASSUME NEW n \in 1 .. Len(w), wire'[k] = w[n]
              PROVE  Follows(wire'[j], wire'[k])
          <6>1. wire[j] \in Line /\ Sent(wire[j])
            BY <2>a, <4>1 DEF SentInv
          <6>2. QED BY <3>1, <4>1, <5>2, <6>1
        <5>3. QED BY <3>2, <5>1, <5>2
      <4>2. ASSUME j > Len(wire), NEW m \in 1 .. Len(w), m = j - Len(wire),
                   wire'[j] = w[m]
            PROVE  Follows(wire'[j], wire'[k])
        <5>1. k \notin 1 .. Len(wire)
          BY <2>0, <3>8, <4>2
        <5>2. PICK n \in 1 .. Len(w) : n = k - Len(wire) /\ wire'[k] = w[n]
          BY <3>2, <5>1
        <5>3. m < n
          BY <2>0, <3>8, <4>2, <5>2
        <5>4. QED BY <3>1, <4>2, <5>2, <5>3
      <4>3. QED BY <3>2, <4>1, <4>2
    <3>9. \A a \in Call : \A i \in 1 .. Len(arrays[a]) :
            InHand => Follows(arrays[a][i], data)
      BY DEF OrderInv
    <3>10. QED
      BY <2>2, <3>3, <3>4, <3>6, <3>7, <3>8, <3>9 DEF OrderInv
  <2>3. CASE /\ rcvPc = "read" /\ wire # <<>> /\ wire' = Tail(wire)
             /\ arrays' = arrays /\ (InHand' => data' = Head(wire))
    <3>1. /\ Head(wire) = wire[1] /\ 1 \in 1 .. Len(wire)
          /\ \A k \in 1 .. Len(wire') : /\ k + 1 \in 1 .. Len(wire)
                                        /\ wire'[k] = wire[k + 1] /\ 1 < k + 1
      BY <2>0, <2>3
    <3>2. RecordedInOrder'
      BY <2>3 DEF OrderInv, RecordedInOrder
    <3>3. \A a \in Call : \A i \in 1 .. Len(arrays'[a]) :
            /\ InHand' => Follows(arrays'[a][i], data')
            /\ \A k \in 1 .. Len(wire') : Follows(arrays'[a][i], wire'[k])
      BY <2>3, <3>1 DEF OrderInv
    <3>4. InHand' => \A k \in 1 .. Len(wire') : Follows(data', wire'[k])
      BY <2>3, <3>1 DEF OrderInv
    <3>5. ASSUME NEW j \in 1 .. Len(wire'), NEW k \in 1 .. Len(wire'), j < k
          PROVE  Follows(wire'[j], wire'[k])
      <4>1. j + 1 < k + 1
        BY <2>0, <3>5
      <4>2. QED BY <3>1, <4>1 DEF OrderInv
    <3>6. QED BY <3>2, <3>3, <3>4, <3>5 DEF OrderInv
  <2>4. CASE /\ AddObject /\ InHand /\ ~InHand' /\ wire' = wire
             /\ target \in Call
             /\ arrays' = [arrays EXCEPT ![target] = Append(@, data)]
    <3>1. ASSUME NEW a \in Call, NEW i \in 1 .. Len(arrays'[a])
          PROVE  \/ i \in 1 .. Len(arrays[a]) /\ arrays'[a][i] = arrays[a][i]
                 \/ a = target /\ i = Len(arrays[a]) + 1 /\ arrays'[a][i] = data
      BY <2>4, AddedLines
    <3>2. rcvPc = "append" /\ \A a \in Call : arrays[a] # <<>> => a <= target
      BY <2>4 DEF AddObject, FillInv
    <3>3. ASSUME NEW a \in Call, NEW b \in Call, a <= b,
                 NEW i \in 1 .. Len(arrays'[a]), NEW j \in 1 .. Len(arrays'[b]),
                 a < b \/ i < j
          PROVE  Follows(arrays'[a][i], arrays'[b][j])
      <4>1. CASE i \in 1 .. Len(arrays[a]) /\ arrays'[a][i] = arrays[a][i]
        <5>1. CASE j \in 1 .. Len(arrays[b]) /\ arrays'[b][j] = arrays[b][j]
          BY <3>3, <4>1, <5>1 DEF OrderInv, RecordedInOrder, Follows
        <5>2. CASE arrays'[b][j] = data
          BY <2>4, <4>1, <5>2 DEF OrderInv
        <5>3. QED BY <3>1, <5>1, <5>2
      <4>2. CASE a = target /\ i = Len(arrays[a]) + 1
        <5>1. CASE b = a
          <6>1. Len(arrays[a]) \in Nat /\ i < j /\ j \in Nat
            BY <2>0, <3>3, <5>1 DEF Call
          <6>2. j <= Len(arrays[a]) + 1
            BY <3>1, <5>1, <6>1
          <6>3. QED BY <4>2, <6>1, <6>2
        <5>2. CASE b # a
          <6>1. a < b
            BY <3>3, <5>2 DEF Call
          <6>2. arrays[b] # <<>>
            <7>1. j \in 1 .. Len(arrays[b])
              BY <3>1, <4>2, <5>2
            <7>2. QED BY <7>1
          <6>3. QED BY <3>2, <4>2, <6>1, <6>2 DEF Call
        <5>3. QED BY <5>1, <5>2
      <4>3. QED BY <3>1, <4>1, <4>2
    <3>4. RecordedInOrder'
      BY <3>3 DEF RecordedInOrder, Follows
    <3>5. ASSUME NEW a \in Call, NEW i \in 1 .. Len(arrays'[a]),
                 NEW k \in 1 .. Len(wire')
          PROVE  Follows(arrays'[a][i], wire'[k])
      BY <2>4, <3>1 DEF OrderInv
    <3>6. QED BY <2>4, <3>4, <3>5 DEF OrderInv
  <2>5. QED BY <2>1, <2>2, <2>3, <2>4, LineSteps
<1>3. QED
  BY <1>1, <1>2, CommandsTypeCorrect, HandInvariant, FillInvariant,
     OnceInvariant, SentInvariant, PTL DEF Spec

(* No line of a command is recorded twice or before an earlier one, in one *)
(* result or over several: a line is taken from the channel once, and the  *)
(* array that is filled only ever gives way to a later call's              *)
(* (MPSshShell.m:141-149 and 191).                                         *)
THEOREM RecordedOnceInOrder == Spec => []RecordedInOrder
<1>1. OrderInv => RecordedInOrder
  BY DEF OrderInv
<1>2. QED BY <1>1, OrderInvariant, PTL
=============================================================================
