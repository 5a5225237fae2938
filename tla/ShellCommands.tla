--------------------------- MODULE ShellCommands ---------------------------
(***************************************************************************)
(* The two threads of one open MPSshShell that share status, cmdResult and *)
(* cmdCounter without a lock: the application's thread, inside             *)
(* execCommand:, execLongCommand:, stopLongCommand or sendCtrlC            *)
(* (MPSshShell.m), and the receiver thread, inside dataReceived: and, from *)
(* it, inside the delegate, which may call any of the four in its turn.  A *)
(* step is one access to what the threads share, in the order the code     *)
(* makes them.                                                             *)
(*                                                                         *)
(* The far end is external: a terminal with a shell that reads commands in *)
(* order, echoes each, prints its output, and, once initWithChannel's      *)
(* command has set PS1, the line LOGSPROMPT when it is done.  Only         *)
(* /bin/bash obeys that command.  ^C kills what runs and flushes what was  *)
(* typed before it.  Call number c writes command c and allocates array c; *)
(* lines arrive whole (see ShellReceiver).                                 *)
(***************************************************************************)
EXTENDS Naturals, Sequences

CONSTANTS
  MaxCalls,   \* bound: calls made, on either thread
  MaxOut,     \* bound: lines one command prints
  MaxWire,    \* bound: lines under way; the far end waits for room
  MaxPolls,   \* polls before execCommand: gives up (100 in MPSshShell.m:196)
  Bash,       \* is the far end's shell /bin/bash?
  Reentrant   \* does the delegate make calls from its callback?

ASSUME CommandsAssumption ==
  /\ MaxCalls \in Nat \ {0}
  /\ MaxOut \in Nat
  /\ MaxWire \in Nat \ {0}
  /\ MaxPolls \in Nat
  /\ Bash \in BOOLEAN
  /\ Reentrant \in BOOLEAN

Call == 1 .. MaxCalls
Nil == 0                       \* no call; cmdResult before the first call

(* Who makes calls: the application's thread; the delegate, called back on *)
(* the receiver thread.                                                    *)
Thread == {"app", "rcv"}

Status == {"Idle", "Command", "CommandComplete", "OnlineCommand"}

(* A line: of command cmd, the echo (no = 0) or the no-th line of output.  *)
(* Lines that belong to no command have cmd = Nil.                         *)
Echo(c) == [cmd |-> c, no |-> 0]
Out(c, n) == [cmd |-> c, no |-> n]
LOGSPROMPT == [cmd |-> Nil, no |-> 0]
Welcome == [cmd |-> Nil, no |-> 1]         \* message of the day
InterruptEcho == [cmd |-> Nil, no |-> 2]   \* "^C"
Line == [cmd : Call \cup {Nil}, no : 0 .. (MaxOut + 2)]

CtrlC == 0                                 \* in stdin, among commands

VARIABLES
  \* properties of MPSshShell, and the arrays execCommand: has allocated
  status, cmdResult, cmdCounter, arrays,
  \* the calls: of each thread,
  calls,      \* calls made so far, on both
  call,       \* number of the call it is in, or Nil
  pc,         \* where it is in that call
  polls,      \* counter of execCommand:
  \* the receiver thread
  rcvPc,      \* where it is in dataReceived:
  data,       \* its argument
  target,     \* the array addObject: is about to be sent to
  count,      \* cmdCounter as read by cmdCounter++
  \* the far end
  stdin,      \* what it has not read yet
  running,    \* the command it runs, or Nil
  printed,    \* lines of output of each command so far
  promptSet,  \* PS1 is LOGSPROMPT and a newline
  wire,       \* lines under way to the receiver
  \* history
  quiet,      \* calls that found nothing under way and have not returned
  completed,  \* arrays that execCommand: returned at the prompt
  exact,      \* of each call that was quiet and returned at the prompt,
              \* the array it returned; or Nil
  longClean,  \* execLongCommand: was the last to set status, and not while
              \* the receiver had a prompt in hand
  stopped,    \* the thread whose stopLongCommand has returned, no long
              \* command since; or "no"
  late,       \* deliveries to the delegate while stopped
  lastCount,  \* counter of the last delivery
  breaks      \* deliveries that did not follow the previous one in number,
              \* since execLongCommand: last reset the counter

shellVars  == <<status, cmdResult, cmdCounter, arrays>>
callVars   == <<calls, call, pc, polls>>
rcvVars    == <<rcvPc, data, target, count>>
remoteVars == <<stdin, running, printed, promptSet, wire>>
longHist   == <<longClean, stopped, late, lastCount, breaks>>
history    == <<quiet, completed, exact, longHist>>
vars == <<shellVars, callVars, rcvVars, remoteVars, history>>

Init ==
  /\ status = "Idle"
  /\ cmdResult = Nil
  /\ cmdCounter = 0
  /\ arrays = [c \in Call |-> <<>>]
  /\ calls = 0
  /\ call = [t \in Thread |-> Nil]
  /\ pc = [t \in Thread |-> "idle"]
  /\ polls = [t \in Thread |-> 0]
  /\ rcvPc = "read"
  /\ data = LOGSPROMPT
  /\ target = Nil
  /\ count = 0
  /\ stdin = <<>>
  /\ running = Nil
  /\ printed = [c \in Call |-> 0]
  /\ promptSet = FALSE
  /\ wire \in {<<>>, <<Welcome>>}
  /\ quiet = {}
  /\ completed = {}
  /\ exact = [c \in Call |-> Nil]
  /\ longClean = FALSE
  /\ stopped = "no"
  /\ late = 0
  /\ lastCount = 0
  /\ breaks = 0

-----------------------------------------------------------------------------
(* Calls.  The delegate is called back inside dataReceived: and returns    *)
(* before another line is read.                                            *)

MayCall(t) ==
  /\ pc[t] = "idle"
  /\ calls < MaxCalls
  /\ t = "rcv" => Reentrant /\ rcvPc = "callback"

Begin(t, label) ==
  /\ calls' = calls + 1
  /\ call' = [call EXCEPT ![t] = calls + 1]
  /\ pc' = [pc EXCEPT ![t] = label]
  /\ UNCHANGED polls

Go(t, from, to) ==
  /\ pc[t] = from
  /\ pc' = [pc EXCEPT ![t] = to]
  /\ UNCHANGED <<calls, call, polls>>

Return(t) ==
  /\ pc' = [pc EXCEPT ![t] = "idle"]
  /\ call' = [call EXCEPT ![t] = Nil]
  /\ polls' = [polls EXCEPT ![t] = 0]
  /\ UNCHANGED calls

(* Nobody looks at what libssh2_channel_write returns: x arrives or not.   *)
Writes(x) == stdin' \in {stdin, Append(stdin, x)}

-----------------------------------------------------------------------------
(* execCommand:                                                            *)

NothingUnderWay ==
  rcvPc = "read" /\ wire = <<>> /\ stdin = <<>> /\ running = Nil /\ promptSet

FindsQuiet ==
  quiet' = quiet \cup (IF NothingUnderWay THEN {calls + 1} ELSE {})

(* Mutant of ExecNewResult: no array is allocated.                         *)
ExecNoResult(t) ==
  /\ MayCall(t)
  /\ Begin(t, "execStatus")
  /\ FindsQuiet
  /\ UNCHANGED <<shellVars, rcvVars, remoteVars, completed, exact, longHist>>

(* Mutant of ExecNewResult: an array is allocated if there is none.        *)
ExecKeepsResult(t) ==
  /\ MayCall(t)
  /\ Begin(t, "execStatus")
  /\ cmdResult' = IF cmdResult = Nil THEN calls + 1 ELSE cmdResult
  /\ FindsQuiet
  /\ UNCHANGED <<status, cmdCounter, arrays, rcvVars, remoteVars, completed,
                 exact, longHist>>

(* Mutant of ExecNewResult: the array there is is emptied and used again.  *)
ExecReusesResult(t) ==
  /\ MayCall(t)
  /\ Begin(t, "execStatus")
  /\ cmdResult' = IF cmdResult = Nil THEN calls + 1 ELSE cmdResult
  /\ arrays' = [arrays EXCEPT ![cmdResult'] = <<>>]
  /\ FindsQuiet
  /\ UNCHANGED <<status, cmdCounter, rcvVars, remoteVars, completed, exact,
                 longHist>>

(* self.cmdResult = [NSMutableArray arrayWithCapacity:2]                   *)
ExecNewResult(t) ==
  /\ MayCall(t)
  /\ Begin(t, "execStatus")
  /\ cmdResult' = calls + 1
  /\ FindsQuiet
  /\ UNCHANGED <<status, cmdCounter, arrays, rcvVars, remoteVars, completed,
                 exact, longHist>>

ExecSetStatus(t) ==
  /\ Go(t, "execStatus", "execWrite")
  /\ status' = "Command"
  /\ longClean' = FALSE
  /\ UNCHANGED <<cmdResult, cmdCounter, arrays, rcvVars, remoteVars, quiet,
                 completed, exact, stopped, late, lastCount, breaks>>

ExecWrite(t) ==
  /\ Go(t, "execWrite", "execPoll")
  /\ Writes(call[t])
  /\ UNCHANGED <<shellVars, rcvVars, running, printed, promptSet, wire,
                 history>>

(* One round of the while loop: the status read, the sleep.                *)
ExecPoll(t) ==
  /\ pc[t] = "execPoll"
  /\ status = "Command"
  /\ polls[t] < MaxPolls
  /\ polls' = [polls EXCEPT ![t] = @ + 1]
  /\ UNCHANGED <<shellVars, calls, call, pc, rcvVars, remoteVars, history>>

(* Mutant of ExecLeave: counter<100 is not tested.                         *)
ExecLeaveAtPrompt(t) ==
  /\ Go(t, "execPoll", "execResult")
  /\ status # "Command"
  /\ UNCHANGED <<shellVars, rcvVars, remoteVars, history>>

(* The loop ends at the prompt, or gives up and leaves status as it is.    *)
ExecLeave(t) ==
  /\ Go(t, "execPoll", "execResult")
  /\ status # "Command" \/ polls[t] >= MaxPolls
  /\ UNCHANGED <<shellVars, rcvVars, remoteVars, history>>

(* return self.cmdResult: whatever array the property holds by then.       *)
HandOver(t) ==
  /\ IF status = "CommandComplete"
     THEN /\ completed' = completed \cup {cmdResult}
          /\ exact' = IF call[t] \in quiet
                      THEN [exact EXCEPT ![call[t]] = cmdResult] ELSE exact
     ELSE UNCHANGED <<completed, exact>>
  /\ quiet' = quiet \ {call[t]}

ExecReturn(t) ==
  /\ pc[t] = "execResult"
  /\ HandOver(t)
  /\ Return(t)
  /\ UNCHANGED <<shellVars, rcvVars, remoteVars, longHist>>

(* execLongCommand:, stopLongCommand and sendCtrlC.  The first call is     *)
(* always execCommand:, by initWithChannel.                                *)

LongWrite(t) ==
  /\ MayCall(t)
  /\ calls # 0
  /\ Begin(t, "longStatus")
  /\ Writes(calls + 1)
  /\ UNCHANGED <<shellVars, rcvVars, running, printed, promptSet, wire,
                 history>>

LongSetStatus(t) ==
  /\ Go(t, "longStatus", "longCounter")
  /\ status' = "OnlineCommand"
  /\ longClean' = ~(rcvPc = "command" /\ data = LOGSPROMPT)
  /\ stopped' = "no"
  /\ late' = 0
  /\ UNCHANGED <<cmdResult, cmdCounter, arrays, rcvVars, remoteVars, quiet,
                 completed, exact, lastCount, breaks>>

LongResetCounter(t) ==
  /\ pc[t] = "longCounter"
  /\ Return(t)
  /\ cmdCounter' = 0
  /\ breaks' = 0
  /\ UNCHANGED <<status, cmdResult, arrays, rcvVars, remoteVars, quiet,
                 completed, exact, longClean, stopped, late, lastCount>>

(* sendCtrlC, called on its own.                                           *)
SendCtrlC(t) ==
  /\ MayCall(t)
  /\ calls # 0
  /\ calls' = calls + 1
  /\ Writes(CtrlC)
  /\ UNCHANGED <<shellVars, call, pc, polls, rcvVars, running, printed,
                 promptSet, wire, history>>

StopSendCtrlC(t) ==
  /\ MayCall(t)
  /\ calls # 0
  /\ Begin(t, "stopStatus")
  /\ Writes(CtrlC)
  /\ UNCHANGED <<shellVars, rcvVars, running, printed, promptSet, wire,
                 history>>

(* Mutant of StopSetStatus: status is left to the next call.               *)
StopLeavesStatus(t) ==
  /\ pc[t] = "stopStatus"
  /\ Return(t)
  /\ longClean' = FALSE
  /\ stopped' = t
  /\ late' = 0
  /\ UNCHANGED <<shellVars, rcvVars, remoteVars, quiet, completed, exact,
                 lastCount, breaks>>

(* Mutant of StopSetStatus: the wrong one of the four values.              *)
StopCompletes(t) ==
  /\ pc[t] = "stopStatus"
  /\ Return(t)
  /\ status' = "CommandComplete"
  /\ longClean' = FALSE
  /\ stopped' = t
  /\ late' = 0
  /\ UNCHANGED <<cmdResult, cmdCounter, arrays, rcvVars, remoteVars, quiet,
                 completed, exact, lastCount, breaks>>

StopSetStatus(t) ==
  /\ pc[t] = "stopStatus"
  /\ Return(t)
  /\ status' = "Idle"
  /\ longClean' = FALSE
  /\ stopped' = t
  /\ late' = 0
  /\ UNCHANGED <<cmdResult, cmdCounter, arrays, rcvVars, remoteVars, quiet,
                 completed, exact, lastCount, breaks>>

-----------------------------------------------------------------------------
(* dataReceived: returns and its locals are gone.                          *)
Done ==
  rcvPc' = "read" /\ data' = LOGSPROMPT /\ target' = Nil /\ count' = 0

(* Mutant of Dispatch: the prompt is looked for before the switch.         *)
DispatchPromptFirst ==
  /\ rcvPc = "read" /\ wire # <<>>
  /\ wire' = Tail(wire)
  /\ data' = Head(wire)
  /\ rcvPc' = CASE status = "Command" \/ Head(wire) = LOGSPROMPT -> "command"
                [] status = "OnlineCommand" -> "online"
                [] OTHER -> "read"
  /\ UNCHANGED <<shellVars, callVars, target, count, stdin, running, printed,
                 promptSet, history>>

(* Mutant of Dispatch: CommandComplete falls through to Command.           *)
DispatchFallsThrough ==
  /\ rcvPc = "read" /\ wire # <<>>
  /\ wire' = Tail(wire)
  /\ CASE status \in {"Command", "CommandComplete"} ->
            rcvPc' = "command" /\ data' = Head(wire)
       [] status = "OnlineCommand" -> rcvPc' = "online" /\ data' = Head(wire)
       [] OTHER -> UNCHANGED <<rcvPc, data>>
  /\ UNCHANGED <<shellVars, callVars, target, count, stdin, running, printed,
                 promptSet, history>>

(* dataReceived: on the receiver thread.  Dispatch is the switch: the      *)
(* status read there decides the branch, whatever it becomes meanwhile.    *)
Dispatch ==
  /\ rcvPc = "read"
  /\ wire # <<>>
  /\ wire' = Tail(wire)
  /\ CASE status = "Command" -> rcvPc' = "command" /\ data' = Head(wire)
       [] status = "OnlineCommand" -> rcvPc' = "online" /\ data' = Head(wire)
       [] OTHER -> UNCHANGED <<rcvPc, data>>
  /\ UNCHANGED <<shellVars, callVars, target, count, stdin, running, printed,
                 promptSet, history>>

(* Mutant of SeePrompt: the prompt is recorded like any line.              *)
SeePromptRecords ==
  /\ rcvPc = "command" /\ data = LOGSPROMPT
  /\ status' = "CommandComplete"
  /\ arrays' = [arrays EXCEPT ![cmdResult] = Append(@, data)]
  /\ Done
  /\ UNCHANGED <<cmdResult, cmdCounter, callVars, remoteVars, history>>

SeePrompt ==
  /\ rcvPc = "command"
  /\ data = LOGSPROMPT
  /\ status' = "CommandComplete"
  /\ Done
  /\ UNCHANGED <<cmdResult, cmdCounter, arrays, callVars, remoteVars, history>>

(* [self.cmdResult addObject:data]: the property is read, then the array   *)
(* it held is changed.                                                     *)
ReadResult ==
  /\ rcvPc = "command"
  /\ data # LOGSPROMPT
  /\ target' = cmdResult
  /\ rcvPc' = "append"
  /\ UNCHANGED <<shellVars, callVars, data, count, remoteVars, history>>

(* Mutant of AddObject: insertObject:atIndex:0 for addObject:.             *)
AddObjectFirst ==
  /\ rcvPc = "append"
  /\ arrays' = [arrays EXCEPT ![target] = <<data>> \o @]
  /\ Done
  /\ UNCHANGED <<status, cmdResult, cmdCounter, callVars, remoteVars, history>>

AddObject ==
  /\ rcvPc = "append"
  /\ arrays' = [arrays EXCEPT ![target] = Append(@, data)]
  /\ Done
  /\ UNCHANGED <<status, cmdResult, cmdCounter, callVars, remoteVars, history>>

(* self.cmdCounter++ reads the property and then sets it.                  *)
ReadCounter ==
  /\ rcvPc = "online"
  /\ count' = cmdCounter
  /\ rcvPc' = "increment"
  /\ UNCHANGED <<shellVars, callVars, data, target, remoteVars, history>>

(* Mutant of SetCounter: the increment is lost.                            *)
SetCounterSame ==
  /\ rcvPc = "increment"
  /\ cmdCounter' = count
  /\ rcvPc' = "deliver"
  /\ UNCHANGED <<status, cmdResult, arrays, callVars, data, target, count,
                 remoteVars, history>>

SetCounter ==
  /\ rcvPc = "increment"
  /\ cmdCounter' = count + 1
  /\ rcvPc' = "deliver"
  /\ UNCHANGED <<status, cmdResult, arrays, callVars, data, target, count,
                 remoteVars, history>>

(* The delegate's message carries cmdCounter as it is read once more.      *)
Deliver ==
  /\ rcvPc = "deliver"
  /\ rcvPc' = "callback"
  /\ lastCount' = cmdCounter
  /\ breaks' = IF cmdCounter = lastCount + 1 THEN breaks ELSE breaks + 1
  /\ late' = IF stopped = "no" THEN late ELSE late + 1
  /\ UNCHANGED <<shellVars, callVars, data, target, count, remoteVars, quiet,
                 completed, exact, longClean, stopped>>

CallbackReturns ==
  /\ rcvPc = "callback"
  /\ pc["rcv"] = "idle"
  /\ Done
  /\ UNCHANGED <<shellVars, callVars, remoteVars, history>>

-----------------------------------------------------------------------------
(* The far end (external).                                                 *)

PromptLines(set) == IF set THEN <<LOGSPROMPT>> ELSE <<>>

RemoteStart ==
  /\ Len(wire) < MaxWire
  /\ running = Nil
  /\ stdin # <<>>
  /\ Head(stdin) # CtrlC
  /\ running' = Head(stdin)
  /\ stdin' = Tail(stdin)
  /\ wire' = Append(wire, Echo(Head(stdin)))
  /\ UNCHANGED <<shellVars, callVars, rcvVars, printed, promptSet, history>>

RemotePrint ==
  /\ Len(wire) < MaxWire
  /\ running # Nil
  /\ printed[running] < MaxOut
  /\ printed' = [printed EXCEPT ![running] = @ + 1]
  /\ wire' = Append(wire, Out(running, printed[running] + 1))
  /\ UNCHANGED <<shellVars, callVars, rcvVars, stdin, running, promptSet,
                 history>>

RemoteFinish ==
  /\ Len(wire) < MaxWire
  /\ running # Nil
  /\ running' = Nil
  /\ promptSet' = (promptSet \/ (Bash /\ running = 1))
  /\ wire' = wire \o PromptLines(promptSet')
  /\ UNCHANGED <<shellVars, callVars, rcvVars, stdin, printed, history>>

RemoteInterrupt ==
  \E i \in 1 .. Len(stdin) :
    /\ Len(wire) + 1 < MaxWire
    /\ stdin[i] = CtrlC
    /\ running' = Nil
    /\ stdin' = SubSeq(stdin, i + 1, Len(stdin))
    /\ wire' = wire \o <<InterruptEcho>> \o PromptLines(promptSet)
    /\ UNCHANGED <<shellVars, callVars, rcvVars, printed, promptSet, history>>

-----------------------------------------------------------------------------
(* The steps of a call thread t has begun.                                 *)
Returns(t) ==
  \/ ExecSetStatus(t) \/ ExecWrite(t)
  \/ ExecPoll(t) \/ ExecLeave(t) \/ ExecReturn(t)
  \/ LongSetStatus(t) \/ LongResetCounter(t)
  \/ StopSetStatus(t)

Caller(t) ==
  ExecNewResult(t) \/ LongWrite(t) \/ SendCtrlC(t) \/ StopSendCtrlC(t)
  \/ Returns(t)

Receiver ==
  \/ Dispatch \/ SeePrompt \/ ReadResult \/ AddObject
  \/ ReadCounter \/ SetCounter \/ Deliver \/ CallbackReturns

Remote == RemoteStart \/ RemotePrint \/ RemoteFinish \/ RemoteInterrupt

Next == (\E t \in Thread : Caller(t)) \/ Receiver \/ Remote

(* Only the threads' own steps inside a call are fair: the far end may say *)
(* nothing.  That a write is among them presumes that the blocking call of *)
(* libssh2 returns, with or without an error, as it does while there is    *)
(* room in the channel's window or once the connection is given up.        *)
Spec == Init /\ [][Next]_vars /\ \A t \in Thread : WF_vars(Returns(t))

-----------------------------------------------------------------------------
(* The type invariant; among it, that addObject: always has an array, and  *)
(* that the branch for long commands is never entered before the first.    *)
TypeOK ==
  /\ status \in Status
  /\ cmdResult \in Call \cup {Nil}
  /\ cmdCounter \in Nat /\ count \in Nat /\ lastCount \in Nat
  /\ arrays \in [Call -> Seq(Line)]
  /\ calls \in 0 .. MaxCalls
  /\ call \in [Thread -> Call \cup {Nil}]
  /\ pc \in [Thread -> {"idle", "execStatus", "execWrite", "execPoll",
                        "execResult", "longStatus", "longCounter",
                        "stopStatus"}]
  /\ polls \in [Thread -> 0 .. MaxPolls]
  /\ rcvPc \in {"read", "command", "append", "online", "increment", "deliver",
                "callback"}
  /\ data \in Line
  /\ target \in Call \cup {Nil}
  /\ rcvPc = "append" => target # Nil
  /\ stdin \in Seq(Call \cup {CtrlC})
  /\ running \in Call \cup {Nil}
  /\ printed \in [Call -> 0 .. MaxOut]
  /\ promptSet \in BOOLEAN
  /\ wire \in Seq(Line)
  /\ longClean \in BOOLEAN /\ stopped \in Thread \cup {"no"}
  /\ quiet \subseteq Call /\ completed \subseteq Call
  /\ exact \in [Call -> Call \cup {Nil}]
  /\ late \in Nat /\ breaks \in Nat

(* Everything command c has put on the terminal.                           *)
Transcript(c) == <<Echo(c)>> \o [n \in 1 .. printed[c] |-> Out(c, n)]

(* An execCommand: made while nothing was under way, and that returned at  *)
(* the prompt, returned all its command printed, in order, and nothing     *)
(* else.  It needs status set before the command is written, the new array *)
(* stored before status, the prompt taken after the output, and the        *)
(* property still the call's own array when it is returned                 *)
(* (MPSshShell.m:141-149 and 189-203).                                     *)
ResultExact ==
  \A c \in Call : exact[c] # Nil => arrays[exact[c]] = Transcript(c)

(* The array execCommand: returns is the one the receiver fills, not a     *)
(* copy.  Once one was returned at the prompt it never changes again,      *)
(* whatever calls follow and whatever lines are late.                      *)
CompletedFrozen == [][\A a \in completed : arrays'[a] = arrays[a]]_vars

(* No line of a command is recorded twice, in one result or in two, and    *)
(* its lines are recorded in the order it printed them, although a call    *)
(* may divide them between two results, by a time-out or by the delegate   *)
(* (MPSshShell.m:141-149 and 191).                                         *)
RecordedInOrder ==
  \A a, b \in Call : a <= b =>
    \A i \in 1 .. Len(arrays[a]), j \in 1 .. Len(arrays[b]) :
      LET l == arrays[a][i]
          m == arrays[b][j]
      IN  (a < b \/ i < j) /\ l.cmd = m.cmd /\ l.cmd # Nil => l.no < m.no

(* The shell is a LineRouter.                                              *)
Hand ==
  IF rcvPc \in {"command", "append", "online", "increment", "deliver"}
  THEN <<data>> ELSE <<>>

Router == INSTANCE LineRouter
            WITH queue <- wire, hand <- Hand, results <- arrays,
                 atPrompt <- (status = "CommandComplete"),
                 final <- completed, Prompt <- LOGSPROMPT, Result <- Call

(* Each line the far end sends is looked at once and in order and goes to  *)
(* one place, whichever thread changes status or cmdResult meanwhile; the  *)
(* prompt ends recording until a call is made, and what was returned at it *)
(* is never touched again (MPSshShell.m:138-163).                          *)
LineRouterSpec == Router!Spec

(* After stopLongCommand returns, the delegate hears of at most one more   *)
(* line, the one the receiver was at; of none if it was the delegate that  *)
(* called it, from its callback (MPSshShell.m:152-159 and 178-182).        *)
AtMostOneLate == late <= IF stopped = "rcv" THEN 0 ELSE 1

(* A long command stays the shell's current command until the next call,   *)
(* whatever prompts are late or among its lines, those of an execCommand:  *)
(* that gave up included.  The one exception is the prompt the receiver    *)
(* has in hand, past the switch, when execLongCommand: sets status: it     *)
(* takes the shell back to CommandComplete (MPSshShell.m:138-145 and 174). *)
LongStaysOnline == longClean => status = "OnlineCommand"

(* The counters the delegate gets follow one another but for one break for *)
(* each execLongCommand:, although the reset and cmdCounter++ race         *)
(* (MPSshShell.m:153-159 and 174-175).                                     *)
OneBreakInNumbering == breaks <= 1

(* execCommand: returns, prompt or no prompt, its loop gives up; even when *)
(* the delegate calls it from its callback, on the thread that alone could *)
(* read the prompt (MPSshShell.m:159 and 195-199).                         *)
ExecReturns == \A t \in Thread : pc[t] = "execStatus" ~> pc[t] = "idle"

(* While the delegate is inside execCommand:, the shell never looks as if  *)
(* a prompt had come, whatever the application's thread does: such a call  *)
(* is never taken for one that succeeded (MPSshShell.m:138-163, 189-203).  *)
NestedSeesNoPrompt == call["rcv"] # Nil => status # "CommandComplete"

(* A call of execCommand: the delegate makes from its callback returns an  *)
(* empty array: no line reaches it, nor the array of a call the            *)
(* application makes meanwhile (MPSshShell.m:148-159 and 189-203).         *)
NestedReturnsNothing ==
  (/\ call["rcv"] # Nil
   /\ pc["rcv"] \in {"execStatus", "execWrite", "execPoll", "execResult"})
    => \A c \in Call : cmdResult = c => arrays[c] = <<>>

(* "Test for command line echoed", says the comment on dataReceived:       *)
(* (MPSshShell.m:136): what execCommand: returned at the prompt would not  *)
(* have the command line's echo.                                           *)
EchoLeftOut ==
  \A a \in completed : \A i \in 1 .. Len(arrays[a]) : arrays[a][i] # Echo(a)
=============================================================================
