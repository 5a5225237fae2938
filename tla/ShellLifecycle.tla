--------------------------- MODULE ShellLifecycle ---------------------------
(***************************************************************************)
(* How a shell is opened, read from and shut down: MPLSChannel.m, and      *)
(* initWithChannel:, receiver, readBuffer and shutdown of MPSshShell.m.    *)
(*                                                                         *)
(* MPLSChannel.m declares `blocked' and `channel' at file level, outside   *)
(* any interface: they are not instance variables but two variables of the *)
(* process, shared by all channels.  The receiver thread of a shell sets   *)
(* blocked around libssh2_channel_read; shutdown, on the application's     *)
(* thread, closes the channel, waits until blocked is NO and frees it.     *)
(* Every step below is one access to what the threads share.               *)
(*                                                                         *)
(* readBuffer reads on the application's thread, with the same blocked.    *)
(* The delegate is called on the receiver's thread, and may shut the shell *)
(* down from there.  The application makes one call at a time, whichever   *)
(* of these threads makes it.                                              *)
(*                                                                         *)
(* Shell s opens handle s.  libssh2 is external: a call may succeed or     *)
(* fail, a read may take for ever while its channel is open, and ends once *)
(* it is closed.  What a read brings is in ShellReceiver and what          *)
(* initWithChannel's first command does is in ShellCommands.               *)
(***************************************************************************)
EXTENDS Naturals

CONSTANTS
  Shells,       \* the shells the application opens
  NULL,         \* what libssh2_channel_open_session returns on failure
  OneAtATime    \* TRUE: no shell is opened before the others are over

ASSUME LifecycleAssumption ==
  /\ NULL \notin Shells
  /\ OneAtATime \in BOOLEAN

VARIABLES
  \* file-level variables of MPLSChannel.m
  blocked, channel,
  \* libssh2: what became of each handle
  handle,
  \* MPSshShell: is self.channel set; stopCmd
  mine, stopCmd,
  \* the application's call: the shell it is about, where it is, and whether
  \* it was made in initWithChannel, later, or from the delegate's callback
  appPc, self, by,
  usable,     \* shells initWithChannel has returned
  \* the receiver threads
  rcvPc,      \* where each is
  arg,        \* the handle each passed to libssh2_channel_read
  failed,     \* rc1 < 0
  \* history
  old,        \* shells whose read, under way when shutdown closed the
              \* channel, is not over
  unguarded,  \* shells whose read is under way with blocked = NO, which
              \* readBuffer has set
  tardy,      \* shells whose receiver had not run when they were returned
  strays      \* reads begun on a freed handle, for each shell, up to two

globals == <<blocked, channel>>
appVars == <<appPc, self, by, usable>>
rcvVars == <<rcvPc, arg, failed>>
history == <<old, unguarded, tardy, strays>>
vars == <<globals, handle, mine, stopCmd, appVars, rcvVars, history>>

Handles == Shells \cup {NULL}

Init ==
  /\ blocked = FALSE
  /\ channel = NULL
  /\ handle = [s \in Shells |-> "none"]
  /\ mine = [s \in Shells |-> FALSE]
  /\ stopCmd = [s \in Shells |-> FALSE]
  /\ appPc = "idle"
  /\ self \in Shells
  /\ by = "application"
  /\ usable = {}
  /\ rcvPc = [s \in Shells |-> "none"]
  /\ arg = [s \in Shells |-> NULL]
  /\ failed = [s \in Shells |-> FALSE]
  /\ old = {}
  /\ unguarded = {}
  /\ tardy = {}
  /\ strays = [s \in Shells |-> 0]

-----------------------------------------------------------------------------
(* The application's thread: opening a shell.                              *)

Over(s) == rcvPc[s] \in {"none", "quit"} /\ ~mine[s]

(* channelOpenSession: an MPLSChannel is made whatever libssh2 returned,   *)
(* and its init overwrites the process's `channel'.                        *)
OpenChannel(s) ==
  /\ appPc = "idle"
  /\ handle[s] = "none"
  /\ OneAtATime => \A t \in Shells : Over(t)
  /\ \/ channel' = s /\ handle' = [handle EXCEPT ![s] = "open"]
     \/ channel' = NULL /\ UNCHANGED handle
  /\ mine' = [mine EXCEPT ![s] = TRUE]
  /\ stopCmd' = [stopCmd EXCEPT ![s] = FALSE]
  /\ self' = s
  /\ by' = "init"
  /\ appPc' = "pty"
  /\ UNCHANGED <<blocked, usable, rcvVars, history>>

PtyGranted ==
  /\ appPc = "pty"
  /\ channel # NULL
  /\ appPc' = "shell"
  /\ UNCHANGED <<globals, handle, mine, stopCmd, self, by, usable,
                 rcvVars, history>>

(* rc < 0: [self.channel free], and initWithChannel returns nil.           *)
PtyFailed ==
  /\ appPc = "pty"
  /\ handle' = IF channel = NULL THEN handle
               ELSE [handle EXCEPT ![channel] = "freed"]
  /\ mine' = [mine EXCEPT ![self] = FALSE]
  /\ by' = "application"
  /\ appPc' = "idle"
  /\ UNCHANGED <<globals, stopCmd, self, usable, rcvVars, history>>

ShellGranted ==
  /\ appPc = "shell"
  /\ appPc' = "detach"
  /\ UNCHANGED <<globals, handle, mine, stopCmd, self, by, usable,
                 rcvVars, history>>

(* [self shutdown], after which initWithChannel goes on all the same.      *)
ShellFailed ==
  /\ appPc = "shell"
  /\ stopCmd' = [stopCmd EXCEPT ![self] = TRUE]
  /\ appPc' = "close"
  /\ UNCHANGED <<globals, handle, mine, self, by, usable, rcvVars,
                 history>>

Detach ==
  /\ appPc = "detach"
  /\ rcvPc' = [rcvPc EXCEPT ![self] = "start"]
  /\ appPc' = "prompt"
  /\ UNCHANGED <<globals, handle, mine, stopCmd, self, by, usable, arg,
                 failed, history>>

(* The wait for the prompt is over and initWithChannel returns.            *)
InitReturns ==
  /\ appPc = "prompt"
  /\ tardy' = IF rcvPc[self] = "start" THEN tardy \cup {self} ELSE tardy
  /\ usable' = usable \cup {self}
  /\ by' = "application"
  /\ appPc' = "idle"
  /\ UNCHANGED <<globals, handle, mine, stopCmd, self, rcvVars, old, unguarded,
                 strays>>

-----------------------------------------------------------------------------
(* The application's thread: shutdown, of MPSshShell and of its channel.   *)

(* The application calls shutdown, or the delegate does inside its callback *)
(* on the receiver's thread: it is passed the shell.                       *)
MayShutDown(s, from) ==
  /\ appPc = "idle"
  /\ s \in usable
  /\ from = "callback" => rcvPc[s] = "callback"

Caller == {"application", "callback"}

Closes(s, from) == self' = s /\ by' = from /\ appPc' = "close"

(* Mutant of Shutdown: if (self.channel) is dropped.                       *)
ShutdownUnguarded(s) ==
  \E from \in Caller :
    /\ MayShutDown(s, from)
    /\ stopCmd' = [stopCmd EXCEPT ![s] = TRUE]
    /\ Closes(s, from)
    /\ UNCHANGED <<globals, handle, mine, usable, rcvVars, history>>

(* Mutant of Shutdown: self.stopCmd = YES is dropped.                      *)
ShutdownForgetsStop(s) ==
  \E from \in Caller :
    /\ MayShutDown(s, from)
    /\ IF mine[s] THEN Closes(s, from) ELSE UNCHANGED <<self, by, appPc>>
    /\ UNCHANGED <<globals, handle, mine, stopCmd, usable, rcvVars, history>>

Shutdown(s) ==
  \E from \in Caller :
    /\ MayShutDown(s, from)
    /\ stopCmd' = [stopCmd EXCEPT ![s] = TRUE]
    /\ IF mine[s] THEN Closes(s, from) ELSE UNCHANGED <<self, by, appPc>>
    /\ UNCHANGED <<globals, handle, mine, usable, rcvVars, history>>

(* libssh2_channel_close(channel): on whatever `channel' is by now.  It is *)
(* presumed to return.                                                     *)
Close ==
  /\ appPc = "close"
  /\ handle' = IF channel # NULL /\ handle[channel] = "open"
               THEN [handle EXCEPT ![channel] = "closed"] ELSE handle
  /\ old' = {s \in Shells : rcvPc[s] = "reading"}
  /\ appPc' = "test"
  /\ UNCHANGED <<globals, mine, stopCmd, self, by, usable, rcvVars,
                 unguarded, tardy, strays>>

(* Mutant of PassBlocked: nothing is waited for.                           *)
PassAnyway ==
  /\ appPc = "test"
  /\ appPc' = "free"
  /\ UNCHANGED <<globals, handle, mine, stopCmd, self, by, usable,
                 rcvVars, history>>

(* The test of blocked that lets shutdown go on, the if or the do-while.   *)
PassBlocked ==
  /\ appPc = "test"
  /\ ~blocked
  /\ appPc' = "free"
  /\ UNCHANGED <<globals, handle, mine, stopCmd, self, by, usable,
                 rcvVars, history>>

(* libssh2_channel_wait_closed, presumed to return, then                   *)
(* libssh2_channel_free.                                                   *)
Free ==
  /\ appPc = "free"
  /\ handle' = IF channel = NULL THEN handle
               ELSE [handle EXCEPT ![channel] = "freed"]
  /\ appPc' = "clear"
  /\ UNCHANGED <<globals, mine, stopCmd, self, by, usable, rcvVars,
                 history>>

(* Mutant of ClearChannel: self.channel = NULL is dropped.                 *)
ClearNothing ==
  /\ appPc = "clear"
  /\ appPc' = IF by = "init" THEN "detach" ELSE "idle"
  /\ UNCHANGED <<globals, handle, mine, stopCmd, self, by, usable, rcvVars,
                 history>>

ClearChannel ==
  /\ appPc = "clear"
  /\ mine' = [mine EXCEPT ![self] = FALSE]
  /\ appPc' = IF by = "init" THEN "detach" ELSE "idle"
  /\ UNCHANGED <<globals, handle, stopCmd, self, by, usable, rcvVars,
                 history>>

-----------------------------------------------------------------------------
(* The application's thread: readBuffer.  A message to nil returns 0, and  *)
(* so does readBuffer at once.                                             *)

ReadBuffer(s) ==
  /\ appPc = "idle"
  /\ s \in usable
  /\ mine[s]
  /\ self' = s
  /\ by' = "application"
  /\ appPc' = "buffer"
  /\ UNCHANGED <<globals, handle, mine, stopCmd, usable, rcvVars, history>>

BufferBegins ==
  /\ appPc = "buffer"
  /\ blocked' = TRUE
  /\ appPc' = "buffering"
  /\ UNCHANGED <<channel, handle, mine, stopCmd, self, by, usable, rcvVars,
                 history>>

(* The read ends: with data the loop goes round, without it is over.       *)
BufferRead ==
  /\ appPc = "buffering"
  /\ blocked' = FALSE
  /\ unguarded' = unguarded \cup {s \in Shells : rcvPc[s] \in {"call", "reading"}}
  /\ appPc' \in {"buffer", "idle"}
  /\ UNCHANGED <<channel, handle, mine, stopCmd, self, by, usable, rcvVars,
                 old, tardy, strays>>

-----------------------------------------------------------------------------
(* The receiver thread of shell s.                                         *)

Start(s) ==
  /\ rcvPc[s] = "start"
  /\ stopCmd' = [stopCmd EXCEPT ![s] = FALSE]
  /\ rcvPc' = [rcvPc EXCEPT ![s] = "fetch"]
  /\ UNCHANGED <<globals, handle, mine, appVars, arg, failed, history>>

(* [self.channel read:buffer]: a message to nil returns 0.                 *)
Fetch(s) ==
  /\ rcvPc[s] = "fetch"
  /\ rcvPc' = [rcvPc EXCEPT ![s] = IF mine[s] THEN "block" ELSE "check"]
  /\ failed' = [failed EXCEPT ![s] = FALSE]
  /\ UNCHANGED <<globals, handle, mine, stopCmd, appVars, arg, history>>

SetBlocked(s) ==
  /\ rcvPc[s] = "block"
  /\ blocked' = TRUE
  /\ rcvPc' = [rcvPc EXCEPT ![s] = "call"]
  /\ UNCHANGED <<channel, handle, mine, stopCmd, appVars, arg, failed,
                 history>>

BeginRead(s) ==
  /\ rcvPc[s] = "call"
  /\ arg' = [arg EXCEPT ![s] = channel]
  /\ rcvPc' = [rcvPc EXCEPT ![s] = "reading"]
  /\ strays' = IF channel # NULL /\ handle[channel] = "freed"
               THEN [strays EXCEPT ![s] = IF @ < 2 THEN @ + 1 ELSE @]
               ELSE strays
  /\ UNCHANGED <<globals, handle, mine, stopCmd, appVars, failed, old,
                 unguarded, tardy>>

(* Data, nothing (end of file, EAGAIN) or an error; on NULL an error; on a *)
(* freed handle anything the build may produce.                            *)
EndRead(s) ==
  /\ rcvPc[s] = "reading"
  /\ \E e \in BOOLEAN : /\ arg[s] = NULL => e
                        /\ failed' = [failed EXCEPT ![s] = e]
  /\ rcvPc' = [rcvPc EXCEPT ![s] = "unblock"]
  /\ old' = old \ {s}
  /\ unguarded' = unguarded \ {s}
  /\ UNCHANGED <<globals, handle, mine, stopCmd, appVars, arg, tardy, strays>>

(* After the read: a line of a long command goes to the delegate.          *)
GoesOn(s) ==
  \E next \in {"check"} \cup (IF failed[s] \/ s \notin usable THEN {}
                             ELSE {"callback"}) :
    rcvPc' = [rcvPc EXCEPT ![s] = next]

(* Mutant of ClearBlocked: an error returns before blocked = NO.           *)
ClearBlockedUnlessError(s) ==
  /\ rcvPc[s] = "unblock"
  /\ blocked' = (blocked /\ failed[s])
  /\ GoesOn(s)
  /\ UNCHANGED <<channel, handle, mine, stopCmd, appVars, arg, failed,
                 history>>

ClearBlocked(s) ==
  /\ rcvPc[s] = "unblock"
  /\ blocked' = FALSE
  /\ GoesOn(s)
  /\ UNCHANGED <<channel, handle, mine, stopCmd, appVars, arg, failed,
                 history>>

(* The delegate's method returns, not before a shutdown it has called.     *)
CallbackReturns(s) ==
  /\ rcvPc[s] = "callback"
  /\ ~(by = "callback" /\ self = s /\ appPc # "idle")
  /\ rcvPc' = [rcvPc EXCEPT ![s] = "check"]
  /\ UNCHANGED <<globals, handle, mine, stopCmd, appVars, arg, failed,
                 history>>

(* Mutant of CheckStop: only rc1 is tested.                                *)
CheckErrorOnly(s) ==
  /\ rcvPc[s] = "check"
  /\ rcvPc' = [rcvPc EXCEPT ![s] = IF failed[s] THEN "quit" ELSE "fetch"]
  /\ UNCHANGED <<globals, handle, mine, stopCmd, appVars, arg, failed,
                 history>>

(* while (rc1>=0 && !self.stopCmd)                                         *)
CheckStop(s) ==
  /\ rcvPc[s] = "check"
  /\ rcvPc' = [rcvPc EXCEPT ![s] =
                 IF failed[s] \/ stopCmd[s] THEN "quit" ELSE "fetch"]
  /\ UNCHANGED <<globals, handle, mine, stopCmd, appVars, arg, failed,
                 history>>

-----------------------------------------------------------------------------
(* The steps of a call after the first, but for the end of readBuffer's    *)
(* read.                                                                   *)
AppReturns ==
  \/ PtyGranted \/ PtyFailed \/ ShellGranted \/ ShellFailed \/ Detach
  \/ InitReturns \/ Close \/ PassBlocked \/ Free \/ ClearChannel
  \/ BufferBegins

App ==
  \/ AppReturns \/ BufferRead
  \/ \E s \in Shells : OpenChannel(s) \/ Shutdown(s) \/ ReadBuffer(s)

(* The steps of receiver s but for the end of its read.                    *)
RunsOn(s) ==
  \/ Start(s) \/ Fetch(s) \/ SetBlocked(s) \/ BeginRead(s) \/ ClearBlocked(s)
  \/ CheckStop(s) \/ CallbackReturns(s)

Receiver(s) == RunsOn(s) \/ EndRead(s)

Next == App \/ \E s \in Shells : Receiver(s)

(* A read ends when the peer has something to say, which nothing assures,  *)
(* or when its channel is no longer open.                                  *)
EndsRead(s) == EndRead(s) /\ (arg[s] = NULL \/ handle[arg[s]] # "open")

(* Both threads run.  The test of blocked gets strong fairness: it is made *)
(* every 0.1 s, and between two reads that bring nothing the receiver      *)
(* sleeps 0.2 s or 1 s with blocked = NO.  The delegate's method returns,  *)
(* and so do libssh2's close and wait_closed, which in blocking mode wait  *)
(* for the peer.                                                           *)
Fairness ==
  /\ WF_vars(AppReturns)
  /\ SF_vars(PassBlocked)
  /\ \A s \in Shells : WF_vars(RunsOn(s)) /\ WF_vars(EndsRead(s))

Spec == Init /\ [][Next]_vars /\ Fairness

-----------------------------------------------------------------------------
(* The type invariant; among it, that shutdown works on a channel it has.  *)
TypeOK ==
  /\ blocked \in BOOLEAN
  /\ channel \in Handles
  /\ handle \in [Shells -> {"none", "open", "closed", "freed"}]
  /\ mine \in [Shells -> BOOLEAN]
  /\ stopCmd \in [Shells -> BOOLEAN]
  /\ appPc \in {"idle", "pty", "shell", "detach", "prompt", "close", "test",
                "free", "clear", "buffer", "buffering"}
  /\ self \in Shells
  /\ appPc \notin {"idle", "detach", "prompt"} => mine[self]
  /\ by \in {"init", "application", "callback"}
  /\ usable \subseteq Shells
  /\ rcvPc \in [Shells -> {"none", "start", "fetch", "block", "call",
                           "reading", "unblock", "callback", "check",
                           "quit"}]
  /\ arg \in [Shells -> Handles]
  /\ failed \in [Shells -> BOOLEAN]
  /\ old \subseteq Shells /\ unguarded \subseteq Shells /\ tardy \subseteq Shells
  /\ strays \in [Shells -> 0 .. 2]

(* While shells follow one another, shutdown does wait for the read it     *)
(* finds under way: one that had begun when it closed the channel is over  *)
(* before the channel is freed, unless a readBuffer that ended meanwhile   *)
(* has set blocked to NO under it (MPLSChannel.m:34-39 and 52-64,          *)
(* MPSshShell.m:210-226).                                                  *)
ReadAtCloseEnds == old \ unguarded # {} => appPc = "test"

(* While shells follow one another, no handle is freed twice, and none of  *)
(* another shell is: what shutdown frees is its own channel, closed and    *)
(* not freed before, called for the first time or again, by the            *)
(* application, the delegate or a failed request for a shell; and what a   *)
(* refused pty frees is the channel just opened (MPLSChannel.m:52-64,      *)
(* MPSshShell.m:34-48 and 228-234).                                        *)
FreesOwnOnce ==
  /\ appPc = "free" => channel = self /\ handle[self] = "closed"
  /\ appPc = "pty" /\ channel # NULL
       => channel = self /\ handle[self] = "open"

(* A receiver that had started before shutdown begins at most one read on  *)
(* the freed handle: stopCmd stops it there (MPSshShell.m:68, 73, 130 and  *)
(* 229).  That one is real, see NoReadOfFreed.  A shell that its own       *)
(* delegate shuts down, inside the callback, has none.                     *)
AtMostOneStray ==
  \A s \in Shells \ tardy :
    strays[s] <= IF by = "callback" /\ self = s THEN 0 ELSE 1

(* shutdown returns: the read it waits for ends once the channel is        *)
(* closed, and a receiver that goes round does not hold blocked for ever   *)
(* (MPLSChannel.m:52-64).                                                  *)
ShutdownReturns == (appPc = "close") ~> (appPc \in {"idle", "detach"})

(* A receiver that is past its first statement and is told to stop quits   *)
(* (MPSshShell.m:68, 130 and 229).                                         *)
StoppedQuits ==
  \A s \in Shells :
    (stopCmd[s] /\ rcvPc[s] \notin {"none", "start"}) ~> (rcvPc[s] = "quit")

(* "TODO wait while reading!??!" (MPLSChannel.m:56): that wait is there so *)
(* that the channel is not freed under a read.                             *)
NoReadOfFreed ==
  \A s \in Shells : rcvPc[s] = "reading" /\ arg[s] # NULL
                      => handle[arg[s]] # "freed"

(* [self.channel read:buffer], says the receiver, in place of              *)
(* libssh2_channel_read(self.channel, buffer, 1023), which the comment on  *)
(* the line keeps (MPSshShell.m:73): a shell reads its own channel.        *)
ReadsOwnChannel ==
  \A s \in Shells : rcvPc[s] = "reading" => arg[s] \in {s, NULL}
=============================================================================
