------------------------ MODULE ShellLifecycleProofs ------------------------
(***************************************************************************)
(* Proofs about ShellLifecycle for any set of shells: its type invariant,  *)
(* and, when shells follow one another so that the two file-level          *)
(* variables of MPLSChannel.m serve one shell at a time, that shutdown     *)
(* waits for the read it finds under way, that it frees its own closed     *)
(* channel, and that at most one read begins on the freed handle.          *)
(***************************************************************************)
EXTENDS ShellLifecycle, TLAPS

(* Between blocked = YES and the end of the read.                          *)
InRead(s) == rcvPc[s] \in {"call", "reading"}

ShutdownPc == {"close", "test", "free", "clear"}
BufferPc == {"buffer", "buffering"}

(* The application opens, reads or shuts down `self', the only shell that  *)
(* is not over; its receiver is detached last, and waits in the callback   *)
(* for a shutdown made there.                                              *)
TurnInv ==
  /\ \A s \in Shells : ~Over(s) => s = self
  /\ appPc = "idle" => by # "init"
  /\ appPc \in {"pty", "shell", "detach", "prompt"} => by = "init"
  /\ appPc \in BufferPc => by = "application"
  /\ by = "init" /\ appPc # "prompt" => rcvPc[self] = "none"
  /\ by = "callback" =>
       \/ appPc \in ShutdownPc /\ rcvPc[self] = "callback"
       \/ appPc = "idle" /\ ~mine[self]
          /\ rcvPc[self] \in {"callback", "fetch", "check", "quit"}
  /\ \A s \in Shells : handle[s] = "none" => rcvPc[s] = "none"

(* `channel' is the handle of the shell whose self.channel is set, and the *)
(* handle goes from open to closed to freed along with shutdown.           *)
HandleInv ==
  /\ appPc = "pty" => channel \in {self, NULL}
                      /\ (channel = self => handle[self] = "open")
  /\ \A s \in Shells : mine[s] /\ appPc \notin {"pty", "clear"} =>
       channel = s /\ handle[s] \in {"open", "closed"}
  /\ appPc = "clear" => channel = self
  /\ \A s \in Shells : rcvPc[s] \in {"block", "call"} => channel = s
  /\ appPc \in {"pty", "shell"} \cup ShutdownPc \cup BufferPc => mine[self]
  /\ appPc \in {"test", "free"} => handle[self] = "closed"
  /\ appPc \in {"detach", "prompt", "clear"} => handle[self] # "none"

(* blocked is YES during a read under which readBuffer has not cleared it, *)
(* and such reads among those shutdown found under way keep it waiting.    *)
BlockedInv ==
  /\ InRead(self) /\ self \notin unguarded => blocked
  /\ \A s \in unguarded : InRead(s)
  /\ \A s \in old : rcvPc[s] = "reading"
  /\ old \ unguarded # {} => appPc = "test"

(* A shell whose receiver had run when initWithChannel returned: once      *)
(* shutdown has begun stopCmd is set and stays set, so that the receiver,  *)
(* if it meets the freed handle, goes no further than that read.           *)
StrayInv ==
  /\ tardy \subseteq usable
  /\ appPc \in ShutdownPc /\ self \notin tardy => stopCmd[self]
  /\ appPc \in ShutdownPc /\ by # "init" => self \in usable
  /\ \A s \in usable : handle[s] # "none"
  /\ \A s \in usable \ tardy : rcvPc[s] # "start"
  /\ by = "init" => self \notin usable
  /\ \A s \in Shells \ tardy :
       /\ handle[s] = "freed" /\ rcvPc[s] \in {"block", "call"} => stopCmd[s]
       /\ strays[s] # 0 =>
            /\ strays[s] = 1 /\ stopCmd[s] /\ handle[s] = "freed"
            /\ rcvPc[s] \in {"reading", "unblock", "callback", "check", "quit"}
       /\ by = "callback" /\ self = s => strays[s] = 0

-----------------------------------------------------------------------------
(* The steps keep the types (MPLSChannel.m, MPSshShell.m:26-133, 228-234). *)
THEOREM LifecycleTypeCorrect == Spec => []TypeOK
<1> USE DEF TypeOK, Handles
<1>1. Init => TypeOK
  <2> SUFFICES ASSUME Init PROVE TypeOK
    OBVIOUS
  <2> USE DEF Init
  <2>1. /\ handle \in [Shells -> {"none", "open", "closed", "freed"}]
        /\ mine \in [Shells -> BOOLEAN] /\ stopCmd \in [Shells -> BOOLEAN]
        /\ failed \in [Shells -> BOOLEAN]
    OBVIOUS
  <2>2. /\ rcvPc \in [Shells -> {"none", "start", "fetch", "block", "call",
                               "reading", "unblock", "callback", "check",
                               "quit"}]
        /\ arg \in [Shells -> Handles] /\ strays \in [Shells -> 0 .. 2]
    OBVIOUS
  <2>3. QED BY <2>1, <2>2
<1>2. TypeOK /\ [Next]_vars => TypeOK'
  <2> SUFFICES ASSUME TypeOK, [Next]_vars PROVE TypeOK'
    OBVIOUS
  <2> USE DEF globals, appVars, rcvVars, history
  <2>1. ASSUME NEW s \in Shells,
               OpenChannel(s) \/ Shutdown(s) \/ ReadBuffer(s)
        PROVE  TypeOK'
    <3>1. CASE OpenChannel(s) \/ ReadBuffer(s)
      BY <3>1 DEF OpenChannel, ReadBuffer
    <3>2. CASE Shutdown(s)
      BY <3>2 DEF Shutdown, MayShutDown, Caller, Closes
    <3>3. QED BY <2>1, <3>1, <3>2
  <2>2. CASE PtyGranted \/ PtyFailed \/ ShellGranted \/ ShellFailed
    BY <2>2 DEF PtyGranted, PtyFailed, ShellGranted, ShellFailed
  <2>3. CASE Detach \/ InitReturns
    BY <2>3 DEF Detach, InitReturns
  <2>4. CASE Close \/ PassBlocked \/ Free \/ ClearChannel
    BY <2>4 DEF Close, PassBlocked, Free, ClearChannel
  <2>41. CASE BufferBegins \/ BufferRead
    BY <2>41 DEF BufferBegins, BufferRead
  <2>5. ASSUME NEW s \in Shells, RunsOn(s) PROVE TypeOK'
    <3>1. CASE Start(s) \/ Fetch(s) \/ CheckStop(s)
      BY <3>1 DEF Start, Fetch, CheckStop
    <3>2. CASE SetBlocked(s) \/ ClearBlocked(s) \/ CallbackReturns(s)
      BY <3>2 DEF SetBlocked, ClearBlocked, GoesOn, CallbackReturns
    <3>3. CASE BeginRead(s)
      <4>1. strays' \in [Shells -> 0 .. 2]
        BY <3>3 DEF BeginRead
      <4>2. QED BY <3>3, <4>1 DEF BeginRead
    <3>4. QED BY <2>5, <3>1, <3>2, <3>3 DEF RunsOn
  <2>6. ASSUME NEW s \in Shells, EndRead(s) PROVE TypeOK'
    BY <2>6 DEF EndRead
  <2>7. CASE UNCHANGED vars
    BY <2>7 DEF vars
  <2>8. QED
    BY <2>1, <2>2, <2>3, <2>4, <2>41, <2>5, <2>6, <2>7
    DEF Next, App, AppReturns, Receiver
<1>3. QED BY <1>1, <1>2, PTL DEF Spec

-----------------------------------------------------------------------------
(* The first two parts of the invariant hold each other up.                *)
LEMMA TurnInvariant ==
  ASSUME OneAtATime PROVE Spec => [](TurnInv /\ HandleInv)
<1> USE OneAtATime, LifecycleAssumption DEF TurnInv, HandleInv, Over,
        ShutdownPc, BufferPc
<1>1. Init => TurnInv /\ HandleInv
  BY DEF Init
<1>2. TypeOK /\ TurnInv /\ HandleInv /\ [Next]_vars => (TurnInv /\ HandleInv)'
  <2> SUFFICES ASSUME TypeOK, TurnInv, HandleInv, [Next]_vars
               PROVE  (TurnInv /\ HandleInv)'
    OBVIOUS
  <2> USE DEF TypeOK, Handles, globals, appVars, rcvVars, history
  <2>1. ASSUME NEW s \in Shells, OpenChannel(s)
        PROVE  (TurnInv /\ HandleInv)'
    BY <2>1 DEF OpenChannel
  <2>2. ASSUME NEW s \in Shells, Shutdown(s) PROVE (TurnInv /\ HandleInv)'
    BY <2>2 DEF Shutdown, MayShutDown, Caller, Closes
  <2>21. ASSUME NEW s \in Shells, ReadBuffer(s) PROVE (TurnInv /\ HandleInv)'
    BY <2>21 DEF ReadBuffer
  <2>22. CASE BufferBegins \/ BufferRead
    BY <2>22 DEF BufferBegins, BufferRead
  <2>3. CASE PtyGranted \/ ShellGranted
    BY <2>3 DEF PtyGranted, ShellGranted
  <2>4. CASE PtyFailed
    BY <2>4 DEF PtyFailed
  <2>5. CASE ShellFailed
    BY <2>5 DEF ShellFailed
  <2>6. CASE Detach
    BY <2>6 DEF Detach
  <2>7. CASE InitReturns
    BY <2>7 DEF InitReturns
  <2>8. CASE Close
    BY <2>8 DEF Close
  <2>9. CASE PassBlocked
    BY <2>9 DEF PassBlocked
  <2>10. CASE Free
    BY <2>10 DEF Free
  <2>11. CASE ClearChannel
    BY <2>11 DEF ClearChannel
  <2>12. ASSUME NEW s \in Shells, Receiver(s) PROVE (TurnInv /\ HandleInv)'
    <3>1. CASE Start(s)
      BY <2>12, <3>1 DEF Start
    <3>2. CASE Fetch(s)
      BY <2>12, <3>2 DEF Fetch
    <3>3. CASE SetBlocked(s) \/ ClearBlocked(s)
      BY <2>12, <3>3 DEF SetBlocked, ClearBlocked, GoesOn
    <3>4. CASE BeginRead(s) \/ EndRead(s)
      BY <2>12, <3>4 DEF BeginRead, EndRead
    <3>5. CASE CheckStop(s) \/ CallbackReturns(s)
      BY <2>12, <3>5 DEF CheckStop, CallbackReturns
    <3>6. QED
      BY <2>12, <3>1, <3>2, <3>3, <3>4, <3>5 DEF Receiver, RunsOn
  <2>13. CASE UNCHANGED vars
    BY <2>13 DEF vars
  <2>14. QED
    BY <2>1, <2>2, <2>21, <2>22, <2>3, <2>4, <2>5, <2>6, <2>7, <2>8, <2>9,
       <2>10, <2>11, <2>12, <2>13
    DEF Next, App, AppReturns
<1> HIDE DEF TurnInv, HandleInv
<1>3. QED BY <1>1, <1>2, LifecycleTypeCorrect, PTL DEF Spec

LEMMA BlockedInvariant == ASSUME OneAtATime PROVE Spec => []BlockedInv
<1> USE OneAtATime DEF BlockedInv, InRead
<1>1. Init => BlockedInv
  BY DEF Init
<1>2. TypeOK /\ TurnInv /\ BlockedInv /\ [Next]_vars => BlockedInv'
  <2> SUFFICES ASSUME TypeOK, TurnInv, BlockedInv, [Next]_vars
               PROVE  BlockedInv'
    OBVIOUS
  <2> USE DEF TypeOK, TurnInv, Over, globals, appVars, rcvVars, history
  <2>1. ASSUME NEW s \in Shells, OpenChannel(s) PROVE BlockedInv'
    BY <2>1 DEF OpenChannel
  <2>2. ASSUME NEW s \in Shells, Shutdown(s) PROVE BlockedInv'
    <3>1. self' = self
      BY <2>2 DEF Shutdown, MayShutDown, Closes
    <3>2. QED BY <2>2, <3>1 DEF Shutdown, MayShutDown, Closes
  <2>21. ASSUME NEW s \in Shells, ReadBuffer(s) PROVE BlockedInv'
    BY <2>21 DEF ReadBuffer
  <2>22. CASE BufferBegins \/ BufferRead
    BY <2>22 DEF BufferBegins, BufferRead
  <2>3. CASE PtyGranted \/ PtyFailed \/ ShellGranted \/ ShellFailed
    BY <2>3 DEF PtyGranted, PtyFailed, ShellGranted, ShellFailed
  <2>4. CASE Detach \/ InitReturns
    BY <2>4 DEF Detach, InitReturns
  <2>5. CASE Close
    BY <2>5 DEF Close
  <2>6. CASE PassBlocked
    BY <2>6 DEF PassBlocked
  <2>7. CASE Free \/ ClearChannel
    BY <2>7 DEF Free, ClearChannel
  <2>8. ASSUME NEW s \in Shells, Receiver(s) PROVE BlockedInv'
    <3>1. s = self
      BY <2>8 DEF Receiver, RunsOn, Start, Fetch, SetBlocked, BeginRead,
         EndRead, ClearBlocked, CheckStop, CallbackReturns
    <3>2. CASE Start(s) \/ Fetch(s) \/ CheckStop(s) \/ CallbackReturns(s)
      BY <3>1, <3>2 DEF Start, Fetch, CheckStop, CallbackReturns
    <3>3. CASE SetBlocked(s) \/ ClearBlocked(s)
      BY <3>1, <3>3 DEF SetBlocked, ClearBlocked, GoesOn
    <3>4. CASE BeginRead(s) \/ EndRead(s)
      BY <3>1, <3>4 DEF BeginRead, EndRead
    <3>5. QED BY <2>8, <3>2, <3>3, <3>4 DEF Receiver, RunsOn
  <2>9. CASE UNCHANGED vars
    BY <2>9 DEF vars
  <2>10. QED
    BY <2>1, <2>2, <2>21, <2>22, <2>3, <2>4, <2>5, <2>6, <2>7, <2>8, <2>9
    DEF Next, App, AppReturns
<1>3. QED
  BY <1>1, <1>2, LifecycleTypeCorrect, TurnInvariant, PTL DEF Spec

(* With shells in turn, shutdown frees the channel only after the read it  *)
(* found under way has ended (MPLSChannel.m:34-39 and 52-64).              *)
THEOREM WaitsForRead == ASSUME OneAtATime PROVE Spec => []ReadAtCloseEnds
<1>1. BlockedInv => ReadAtCloseEnds
  BY DEF BlockedInv, ReadAtCloseEnds
<1>2. QED BY <1>1, BlockedInvariant, PTL

(* With shells in turn, shutdown and a refused pty free their own channel, *)
(* not freed before (MPLSChannel.m:52-64, MPSshShell.m:34-48, 228-234).    *)
THEOREM FreesItsOwn == ASSUME OneAtATime PROVE Spec => []FreesOwnOnce
<1>1. TypeOK /\ HandleInv => FreesOwnOnce
  BY DEF TypeOK, Handles, HandleInv, FreesOwnOnce, ShutdownPc
<1>2. QED BY <1>1, LifecycleTypeCorrect, TurnInvariant, PTL

(* With shells in turn, a receiver that started in time begins at most one *)
(* read on the handle shutdown has freed, and none if its own delegate     *)
(* shut the shell down (MPSshShell.m:68, 130 and 228-234).                 *)
THEOREM OneStrayRead == ASSUME OneAtATime PROVE Spec => []AtMostOneStray
<1> USE OneAtATime, LifecycleAssumption DEF StrayInv, ShutdownPc, BufferPc
<1>1. Init => StrayInv
  BY DEF Init
<1>2. TypeOK /\ TurnInv /\ HandleInv /\ StrayInv /\ [Next]_vars => StrayInv'
  <2> SUFFICES ASSUME TypeOK, TurnInv, HandleInv, StrayInv, [Next]_vars
               PROVE  StrayInv'
    OBVIOUS
  <2> USE DEF TypeOK, Handles, TurnInv, HandleInv, Over, globals, appVars,
          rcvVars, history
  <2>1. ASSUME NEW s \in Shells, OpenChannel(s) PROVE StrayInv'
    BY <2>1 DEF OpenChannel
  <2>2. ASSUME NEW s \in Shells, Shutdown(s) PROVE StrayInv'
    BY <2>2 DEF Shutdown, MayShutDown, Caller, Closes
  <2>21. ASSUME NEW s \in Shells, ReadBuffer(s) PROVE StrayInv'
    BY <2>21 DEF ReadBuffer
  <2>22. CASE BufferBegins \/ BufferRead
    BY <2>22 DEF BufferBegins, BufferRead
  <2>3. CASE PtyGranted \/ ShellGranted \/ ShellFailed
    BY <2>3 DEF PtyGranted, ShellGranted, ShellFailed
  <2>4. CASE PtyFailed
    BY <2>4 DEF PtyFailed
  <2>5. CASE Detach
    BY <2>5 DEF Detach
  <2>6. CASE InitReturns
    BY <2>6 DEF InitReturns
  <2>7. CASE Close \/ PassBlocked
    BY <2>7 DEF Close, PassBlocked
  <2>8. CASE Free
    BY <2>8 DEF Free
  <2>9. CASE ClearChannel
    BY <2>9 DEF ClearChannel
  <2>10. ASSUME NEW s \in Shells, Receiver(s) PROVE StrayInv'
    <3>1. CASE Start(s)
      BY <2>10, <3>1 DEF Start
    <3>2. CASE Fetch(s)
      BY <2>10, <3>2 DEF Fetch
    <3>3. CASE SetBlocked(s) \/ ClearBlocked(s)
      BY <2>10, <3>3 DEF SetBlocked, ClearBlocked, GoesOn
    <3>4. CASE BeginRead(s)
      BY <2>10, <3>4 DEF BeginRead
    <3>5. CASE EndRead(s)
      BY <2>10, <3>5 DEF EndRead
    <3>6. CASE CheckStop(s) \/ CallbackReturns(s)
      BY <2>10, <3>6 DEF CheckStop, CallbackReturns
    <3>7. QED
      BY <2>10, <3>1, <3>2, <3>3, <3>4, <3>5, <3>6 DEF Receiver, RunsOn
  <2>11. CASE UNCHANGED vars
    BY <2>11 DEF vars
  <2>12. QED
    BY <2>1, <2>2, <2>21, <2>22, <2>3, <2>4, <2>5, <2>6, <2>7, <2>8, <2>9,
       <2>10, <2>11
    DEF Next, App, AppReturns
<1>3. StrayInv => AtMostOneStray
  <2> SUFFICES ASSUME StrayInv, NEW s \in Shells \ tardy
               PROVE  strays[s] <= IF by = "callback" /\ self = s THEN 0 ELSE 1
    BY DEF AtMostOneStray
  <2>1. strays[s] = 0 \/ (strays[s] = 1 /\ ~(by = "callback" /\ self = s))
    OBVIOUS
  <2>2. QED BY <2>1
<1>4. QED
  BY <1>1, <1>2, <1>3, LifecycleTypeCorrect, TurnInvariant, PTL DEF Spec
=============================================================================
