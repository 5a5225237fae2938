# MPSsh: a TLA+ verification project

MPSsh is an Objective-C wrapper around libssh2 1.4.3: an application connects an
`MPSshSession`, opens `MPSshShell`s on it and runs commands in them. The code is
in `src/Pod/Classes` (about 1550 lines). This directory holds TLA+ modules of its
logic, the TLC configurations that check them on small instances, and TLAPS
proofs of their main properties for every value of the constants.

## 1. Inventory of the system

The library has one thread of its own kind: every shell detaches a *receiver*
thread (`MPSshShell.m:52`). Everything else runs on the thread of the application
that calls it. There is not one lock in the code; properties are declared
`nonatomic`.

| component | state it keeps | operations | talks to |
|---|---|---|---|
| `MPSshSession` | `sock`, `connected`, `session` (an `MPLSSession`), `delegate` | `connectUsingParams:error:`, `shutdown`, `newSshShellWithError:`, `newSftpSession` | delegate (fingerprint, password, state changes), `MPLSSession`, the process's file descriptors |
| `MPConnectionParams` | user, password, keys, `requestPassword`, `requestPassphrase` | properties only; the session writes the two flags | written by `MPSshSession`, read by it and the caller |
| `MPLSSession` | `session`, `ppwwdd`: both variables of the *process*; `userauthlist` per object | start, list methods, authenticate, open a channel | libssh2 |
| `MPLSChannel` | `blocked`, `channel`: both variables of the *process* | `requestPty`, `shell`, `read:`, `write:`, `ctrlC`, `shutdown`, `free` | libssh2; called by both threads |
| `MPSshShell`, application side | `status`, `cmdResult`, `cmdCounter`, `stopCmd`, `channel` | `initWithChannel:`, `execCommand:`, `execLongCommand:`, `stopLongCommand`, `sendCtrlC`, `readBuffer`, `shutdown` | the receiver through the properties; the far end through the channel |
| `MPSshShell`, receiver | `buffer`, `res`, and the locals of the scanning loop | `receiver`, `dataReceived:` | the delegate (`shellSession:dataReceived:counter:`), which may call any of the above |
| `MPSftpSession`, `MPSftpItem` | `sftp_session`, `sftp_handle` | `file:`, `filesInDirectory:`, `dealloc`, `compare:` | libssh2 |
| `MPHost` | none | names and addresses by the resolver | resolver |
| example application, tests | none of interest: a template and one call to `MPHost` | | |
| `src/Example/Pods` | vendored OpenSSL, libssh2, test frameworks | | |

What is hard, and what makes each part correct:

* **Receiver.** Bytes arrive in pieces cut anywhere, lines must come out whole,
  once and in order. The loop keeps the tail of one read in `res` and resets
  `aChar` and `nextstart` at each read. Correct: the lines handed over are the
  lines of the text.
* **Commands.** Two threads read and write `status`, `cmdResult`, `cmdCounter`
  with no lock, against lines that are late, a prompt that may never come, and a
  ten-second limit. Correct: a result holds its command's output and nothing else,
  an array that was returned at the prompt does not change, a long command stays
  current until the next call, little is delivered after a stop, calls return.
* **Lifecycle.** `shutdown` closes, waits and frees a channel the receiver may be
  reading; what they share are two variables of the process; any request to
  libssh2 can fail half-way through `initWithChannel:`; `readBuffer` is a second
  reader, and the delegate may shut the shell down from inside the receiver's loop.
  Correct: nothing is freed twice or while read, `shutdown` returns, a receiver told
  to stop quits.
* **Connecting.** Sockets, sessions, errors and flags of one try are left about
  for the next; a try can fail at seven places; `shutdown` does not reset `sock`.
  The delegate is called in the middle of it and may call `shutdown`; shells and
  SFTP sessions may outlive the session. Correct: `connected` means what it says,
  sockets are accounted for, no one else's descriptor is closed or written to, an
  error is that of the last try, and a password is asked for only after one was tried
  with the same parameters (be it in an earlier try: `requestPassword` is not reset).
* **Several sessions.** `session` and `ppwwdd` look like instance variables of
  `MPLSSession` and are variables of the process. Correct: each object deals with its
  own server, a password goes to the server it is for and is not left about.
* **SFTP.** One handle property for any number of opens; a listing ends at the
  first error as it does at the end; other clients change the directory meanwhile.
  Correct: items tell what was there, complete listings are complete, handles are
  accounted for.

`PROJECT.json` lists the hazards line by line ("hazards"), with the properties
that are there for each. For some the harm is simply what the code does, and no comment
or test says otherwise; these have a note, and properties that bound the harm instead
of excluding it (section 5).

## 2. The modules

| module | what it is | extends |
|---|---|---|
| `LineStream` | abstract: text arrives, each complete line is handed over; a cut may spoil one | |
| `ShellReceiver` | the loop of `receiver`, one byte a step; implements `LineStream` | |
| `ShellReceiverProofs` | type correctness, the refinement, and where the bytes handed over come from | `ShellReceiver` |
| `LineRouter` | abstract: lines are taken in order, each goes to one place at most; a result returned at a prompt is final | |
| `ShellCommands` | `execCommand:`, `execLongCommand:`, `stopLongCommand`, `sendCtrlC` on two threads, `dataReceived:`, one shared access a step, and a far end; implements `LineRouter` | |
| `ShellCommandsProofs` | who may do what when: all but the content of results | `ShellCommands` |
| `ShellResultProofs` | what a result holds | `ShellCommandsProofs` |
| `ShellOrderProofs` | the way of the lines: the refinement, and that none is recorded twice or out of order | `ShellResultProofs` |
| `ShellLifecycle` | `initWithChannel:`, `readBuffer`, `shutdown`, `MPLSChannel`, the receiver's reads, any number of shells | |
| `ShellLifecycleProofs` | | `ShellLifecycle` |
| `Connection` | abstract: in each try the key, then the user, then YES | |
| `SshSession` | `connectUsingParams:error:`, authentication, `shutdown`, objects opened on the session, the process's descriptors; implements `Connection` | |
| `SshSessionProofs` | | `SshSession` |
| `SharedSession` | several sessions over the `session` and `ppwwdd` of the process | |
| `SharedSessionMC` | the objects' symmetry | `SharedSession` |
| `SharedSessionProofs` | | `SharedSession` |
| `SftpSession` | `file:`, `filesInDirectory:`, `dealloc`, `compare:`, over a directory other clients change | |
| `SftpSessionMC` | names for TLC and their order | `SftpSession` |
| `SftpSessionProofs` | | `SftpSession` |

Most modules are instantiated for TLC straight from the `.cfg` files, their
constants being numbers, Booleans and sets of model values; `SftpSession` takes a
function and `SharedSession` a symmetry set, and these have MC modules. The operators
called *Mutant of ...* in the component modules are not part of the models: each is a
definition changed the way a plausible bug would change it, and a property is
kept only if TLC finds it violated with one of them in the place of the original.

How the components depend on each other: `ShellReceiver` cuts bytes into lines, and
`ShellCommands` is about the lines, which its far end therefore sends whole.
`ShellLifecycle` is about the same receiver thread, but about when it reads and not
what. `SshSession` has one session object in full; `SharedSession` cuts its
`connect` down to the calls to `MPLSSession` and has several objects.

### ShellReceiver

`pc = "read"` is the call of `read:`, `pc = "scan"` the `for` loop. `line` is the
text from `nextstart`; `aChar` and `res` are the locals of those names; `buffer`
is what the loop has not looked at. `ScanChar`, `ScanEOL` and `KeepTail` are the
three things the loop does (`MPSshShell.m:80-111`). `delivered`, `received`,
`origin`, `kept` and `intact` are histories. `kept` is the piece of `received` that `res`
is, as its first and last place, and `origin` the two pieces each line handed over was
made of; `NothingInvented` says that the bytes are those of the pieces, and that the
pieces follow one another.

`LineStream` has the text held (`partial`), the lines handed over (`lines`), and
`whole`, whether `partial` is all there is of the line; the mapping is
`partial <- res \o line`, `lines <- delivered`, `whole <- intact`. While `whole`,
every byte is kept and every end of line hands the line over. A read suits the loop
(`SuitsTheLoop`) if, when it starts inside a line, it brings at least one more byte of
that line and brings its end; any other read is a `Cut`, after which nothing is said of
the text held until some non-empty text is handed over, and from then on all is well
again. This is exact in the sense that both halves of the condition are needed: a read
that starts with the end of a held line delivers nothing and glues the next line to it
(`aChar` is `FALSE`), and one that brings no end of line replaces the tail held
(`res = @(nextstart)`).

### ShellCommands

One shell that is open. Calls are made by two threads: `"app"`, the application's, and
`"rcv"`, the receiver's, on which the delegate runs between `Deliver` and
`CallbackReturns` (`rcvPc = "callback"`) and may call back into the shell. `pc`, `call`
and `polls` are per thread, and every action of a call takes the thread as its
parameter. With `Reentrant = FALSE` the delegate makes no calls.

A step is one access to what the threads share, so
`[self.cmdResult addObject:]` is two steps (`ReadResult`, `AddObject`), and
`self.cmdCounter++` followed by the delivery is three (`ReadCounter`,
`SetCounter`, `Deliver`). `Dispatch` is the `switch`: the branch it takes stands
even if `status` changes before the branch is done. `HandOver` is
`return self.cmdResult`, which hands over the array the property holds by then, a step
after the loop has looked at `status` for the last time (`ExecLeave`, `ExecReturn`).
Nobody looks at what a write returns, so `Writes` lets it come to nothing. The far
end is external: a terminal that echoes, runs, prints, prompts, and takes `^C`. Before
call 1, made by `initWithChannel:`, has run, it has no prompt the program knows; with
`Bash = FALSE` it never has one. A line is a record of the command it belongs to
and its place in the output, which is all `ResultExact`, `CompletedFrozen` and
`RecordedInOrder` have to tell apart.

`LineRouter` has the lines that have not been looked at (`queue`), the one in `hand`,
the `results`, whether the shell is at a prompt, and which results were returned there
(`final`). The mapping is `queue <- wire`, `hand <- Hand` (the receiver's `data`, while it
is between the `switch` and the end of the branch), `results <- arrays`,
`atPrompt <- status = "CommandComplete"`, `final <- completed`. The two threads write
`status` and `cmdResult` at any time between the receiver's steps; that this amounts to
lines taken in turn, each recorded at the end of one result that is not final, or
delivered, or dropped, is what the refinement says.

### ShellLifecycle

The two variables `blocked` and `channel` of `MPLSChannel.m:13-14` are single
variables here as well. `handle[s]` is what libssh2 knows of the handle opened for
shell `s`. `appPc` follows the application's call through `initWithChannel:`,
`readBuffer` and `shutdown`, `rcvPc[s]` the receiver of `s` through `receiver` and
`read:`. A read of the receiver is three steps: `SetBlocked`, `BeginRead` (which fetches
`channel`) and `EndRead`, then `ClearBlocked`. A message to a `self.channel` that is
`nil` returns 0: `Fetch` goes to the test of `stopCmd` directly. `mine[s]` says that
`self.channel` is set.

`by` tells where the call was made: in `initWithChannel:`, later by the application,
or by the delegate from its callback, while the receiver stands in it
(`CallbackReturns` waits for the call). `readBuffer` sets and clears the same `blocked`
on the application's thread; the history `unguarded` has the reads of the receiver
under which it did, since `shutdown` does not wait for these. `tardy` has the shells
whose receiver had not run its first statement when `initWithChannel:` returned
(after a wait of up to ten seconds for the prompt, `MPSshShell.m:50-58`):
`self.stopCmd = NO` (line 68) may wipe out a `shutdown` of such a shell.

### SshSession

One session object and one thread, over a table of descriptors that other code
uses too (`OtherOpens`, `OtherCloses`); `Lowest` gives the lowest free number.
A step runs up to the next call that takes time. All `shutdown`s are `CloseSock`
and `connected = FALSE`, and none resets `sock`; before the first connect `sock` is 0,
the standard input. `DelegateShutsDown` is the same call made from a notification,
from the question about the key or from the one about a password, wherever `connect`
makes them; `meddled` remembers it for the try under way. A libssh2 session is bound to
the number of its descriptor (`bound`), whoever holds the number when it sends:
`Sends` and `Misdirected` say whether what is sent reaches somebody else.
`OpenOnSession` and `Release` are shells and SFTP sessions that come and go, the latter
possibly long after the session (`MPSftpSession.m:125-136`). `raised` is the exception
that `@(ual)` throws when libssh2 returns `NULL` (`MPLSSession.m:53-54`): nothing
catches it, and the behaviour ends there.

`Connection` sees a connection as `closed`, `trying` or `up`, the number of the try, the
last try whose key and whose user was accepted, and the last answer (`State`, `tries`,
`trusted`, `accepted`, `result`). It promises that within each try the key comes before the
user and the user before YES, that a try whose user was accepted is not given up, and
that nothing of an earlier try counts. The descriptors are not its matter: a delegate
that shuts the session down inside `connect` does not disturb these stages, which is
just how `connected` comes to be set over a closed socket.

### SharedSession

Any number of `MPSshSession` objects, each on a thread of its own, over one `session`
and one `ppwwdd`. A connect is the sequence of its calls to `MPLSSession`, with the
outcomes that decide which comes next. libssh2's sessions are numbered in the order
they were made; `startedOn` says on whose socket each was started. A call of object `o`
on a session that is not its own goes into `astray`; `sent` has the passwords that
`kbd_callback` has given, and to whose server. `strdup(NULL)`, when `ppwwdd` is `nil` by
then, is `crashed`. `apart` and `inTurn` are histories of how the application used the
objects: one call at a time; and, besides, each connected only while no other is.

### SftpSession

One thread, a step per call of libssh2, and another client that creates, removes
and replaces entries in between. `remote` is the directory; `seen` collects what was
in it at some time during the call, `stayed` what was there all the time, which is
what a server's `readdir` promises to hand over. `Opened` and `NotOpened` overwrite
`sftp_handle` whatever it held, as both methods do; `replaced` remembers. A name
that is not UTF-8 becomes `NIL` (`@(mem)`), has no prefix `"."` and so is shown as
a nameless item. `FileStat` asks by path what is there by then, not what was opened.
`Compare` is `compare:` over an external order of names (`Rank`).

## 3. The runs

| run | bounds | what it shows |
|---|---|---|
| `receiver` | 2 characters, `\n` and `\r`, reads of up to 3 bytes, 7 bytes in all | `TypeOK`; `LineStreamSpec`: the receiver implements `LineStream`; `NothingInvented`: what is handed over and held is pieces of the text, in order, byte for byte |
| `receiver_short_lines` | one end of line, reads of up to 3, 6 bytes | **violation** of `FittingLinesDelivered` |
| `commands_bash` | 3 calls on either thread, 2 lines of output, 2 lines under way, no poll before the timeout | `ResultExact`, `RecordedInOrder`, `CompletedFrozen`; `LineRouterSpec`: the two threads implement `LineRouter` |
| `commands_delegate` | 4 calls on either thread, echoes but no other output, 2 lines under way | `AtMostOneLate`, `LongStaysOnline`, `OneBreakInNumbering`, `NestedSeesNoPrompt`, `NestedReturnsNothing` |
| `commands_return` | 3 calls, 2 polls, far end not bash | `ExecReturns`: a call returns though the prompt never comes, also one made on the thread that would have to read it |
| `commands_echo` | 2 calls, none by the delegate | **violation** of `EchoLeftOut` |
| `lifecycle_in_turn` | 2 shells, one after the other | `ReadAtCloseEnds`, `FreesOwnOnce`, `AtMostOneStray`, and `ShutdownReturns`, `StoppedQuits` |
| `lifecycle_freed` | 1 shell | **violation** of `NoReadOfFreed` |
| `lifecycle_two` | 2 shells at once | **violation** of `ReadsOwnChannel` |
| `session_tries` | 2 tries, descriptors 0 to 3 | `ConnectedIsReal`, `CarefulTouchesOwn`, `SocketLeftOnlyAtStartup`, `NoHasItsError`, `AskedForCause`; `ConnectionSpec`: the session implements `Connection` |
| `shared_objects` | 3 objects, 3 libssh2 sessions, up to symmetry | `ApartConnectsToOwn`, `InTurnTouchesOwn`, `NoStalePassword` |
| `sftp_calls` | 4 names, 1 open, 1 change | `ItemsWereThere`, `ListsWhatStayed`, `LeftOpenWereReplaced`, `CompareOrders`, and `ListingReturns`, the connection being lost at any time |

Every passing run but `commands_delegate` and `commands_return`, which are about the
module of `commands_bash` again, checks its module's `TypeOK` as well.

Why the bounds are enough:

* `MaxRead` and `MaxBytes`: 7 bytes in reads of up to 3 hold a line that spans three
  reads, which is what `res` gets wrong, and the lines before and after it, so that a
  spoilt line and the recovery from it both occur. The loop has no memory beyond `res`
  and the current read.
* `MaxCalls`: call 1 is the first, made by `initWithChannel:`. With 3, an `execCommand:`
  that gives up and one more call of any kind follow, on either thread, and old output or
  an old prompt meets a newer command; with 4, a long command, a call from its
  callback and one from the application that overlaps it. `MaxOut = 2` makes the
  order of output matter; without output the echo alone still puts a line on each side
  of every step, which is all the delegate's properties count. `MaxWire` limits the lines
  under way; the far end waits for room, as it does behind a full window.
  `MaxPolls = 0` lets `execCommand:` give up at any moment, as ten seconds may be
  short for a slow network; a larger number only removes behaviours. `commands_return`
  has 2, so that the loop is gone round.
* `Shells`: with two in turn the second inherits `blocked`, `channel` and a receiver that
  is just quitting from the first; the proofs of the safety properties are for any set.
  `strays` counts up to 2: the property is that there is at most one.
* `MaxTries = 2`: a success or a failure of each kind, then a retry, a new connect or a
  shutdown over what it left. `MaxFd = 3` leaves room for the standard input, the
  session's socket, one it lost, and another code's.
* Three objects: one connected, one connecting, one that starts. Each has one session,
  or one has several, in a retry. The objects are alike and only invariants are checked,
  so symmetry is sound.
* SFTP: a hidden name, two shown and one that cannot be decoded are one of each
  sort, and two for `compare:`. One change between two steps makes an entry come, go
  or turn into another kind. One open and any number that fail: calls share nothing
  but the handle, and a failed open replaces it as a successful one does, for which
  there is the theorem.

`CHECK_DEADLOCK FALSE` is in every `.cfg`: in all models the system may stop, as
the peer falls silent, the bounded calls have been made, or an exception is raised.

### Fairness

* `ShellReceiver`: weak fairness of the loop on a buffer it has. Nothing makes the
  peer send.
* `ShellCommands`: weak fairness of each thread inside a call (`Returns(t)`), and of
  nothing else. `ExecReturns` needs no line or prompt and no step of the receiver, but
  presumes that the write returns, with or without success: in blocking mode
  `libssh2_channel_write` waits while the far end leaves its window shut
  (`MPLSChannel.m:42`).
* `ShellLifecycle`: weak fairness of each thread's own steps, the return of the
  delegate's method among them. A read, the receiver's or that of `readBuffer`, is only
  made to end when the channel it reads is no longer open (`EndsRead`), and
  `readBuffer`'s not even then: the peer of an open channel may be silent for ever. The
  test of `blocked` in `shutdown` (`PassBlocked`) is strongly fair: it is made again every
  0.1 s (`MPLSChannel.m:58`), while the receiver sleeps 0.2 s or 1 s with `blocked = NO`
  between two reads that bring nothing (`MPSshShell.m:112-126`), so the test does
  not miss it for ever. `ShutdownReturns`, and `StoppedQuits` for a receiver whose read
  only the close can end, presume that `libssh2_channel_close` and
  `libssh2_channel_wait_closed` return (`MPLSChannel.m:53` and 60): in blocking mode both
  wait for the peer. What the two properties are about is the loop between them.
* `SftpSession`: weak fairness of the readdir loop, that is, libssh2 answers, if only
  by an error. Nothing else is needed: names are handed over once.
* `SshSession`, `SharedSession`: none; their properties are safety properties. Every
  call of theirs may wait for the network or the user as long as it likes.

### Assumptions on the environment

* `OneAtATime`: shells are opened one after the other. Without it
  `ReadsOwnChannel` fails (`lifecycle_two`), and with it the rest of the safety
  properties, for there is one `channel` in the process.
* In `ShellLifecycle` the application has one call at a time under way, whichever thread
  makes it: `shutdown` tests `self.channel` and clears it later, so that two of them at
  once may both free it.
* `careful` (`SshSession`), `apart` and `inTurn` (`SharedSession`) are not assumed of
  behaviours; the properties say what follows where they hold.

## 4. What is proved

All theorems are for every value of the constants that the `ASSUME`s allow.

| theorem | of | by which invariant |
|---|---|---|
| `ReceiverTypeCorrect` | `TypeOK` | itself |
| `ReceiverImplementsLineStream` | `LineStreamSpec` | `LoopInv`: `aChar` holds exactly when there is text since `nextstart`; while text of an earlier read is held and no read has cut it, the rest of the buffer has an end of line, and does not start with one before more of the line has been seen |
| `NothingIsInvented` | `NothingInvented` | `OriginInv`: `res` is the text of `kept`, `line` the last bytes received, `kept` ends before `line` begins, and each line handed over is the text of its two pieces, which end before `kept` |
| `CommandsTypeCorrect` | `TypeOK` | `ResultInv`: a thread inside `execCommand:` is in a numbered call and has stored an array; whenever `status` is `Command`, or the receiver is in that branch, there is an array |
| `NestedCallsSeeNoPrompt` | `NestedSeesNoPrompt` | `NestedInv`: past the `switch`, `status` is not `CommandComplete`, which the receiver alone sets; the delegate makes its calls in the callback |
| `ResultsFrozen` | `CompletedFrozen` | `FrozenInv`: an array whose call returned at the prompt is not the receiver's target, and not one it can get at before another call has stored a new one |
| `StoppedIsQuiet` | `AtMostOneLate` | `LateInv`: while stopped, `status` is not `OnlineCommand`, so the receiver can only finish the line it had; if the delegate stopped, it had none |
| `LongCommandStaysCurrent` | `LongStaysOnline` | `LongInv`: the receiver has no prompt in hand in the branch that sets `CommandComplete` for one |
| `CountersFollow` | `OneBreakInNumbering` | `NumberInv`: after the break, `cmdCounter` is the counter last delivered, or one more while a line is on its way |
| `ResultsExact` | `ResultExact` | `FreshInv`: what has no number yet has left no trace. `QuietInv`: array, receiver and wire hold, in this order, just what the command of a quiet call has put on the terminal. `ExactInv`: once returned, its command is over and its array frozen |
| `NestedCallsReturnNothing` | `NestedReturnsNothing` | the property itself, with `NestedInv` (during the delegate's call the receiver is in the callback and adds nothing) and `FreshInv` (a new array is empty) |
| `ShellImplementsLineRouter` | `LineRouterSpec` | `HandInv`: the line about to be added is not the prompt. With `FrozenInv`, the array it is added to is not final; with `ResultInv`, there is one |
| `RecordedOnceInOrder` | `RecordedInOrder` | `FillInv`: no array later than the one the receiver is at has a line. `OnceInv`: a command reaches the far end once. `SentInv`: what is recorded, in hand or on the wire was printed, of a command that is no longer waiting. `OrderInv`: arrays, hand and wire are, in this order, in the order of printing |
| `LifecycleTypeCorrect` | `TypeOK` | itself |
| `WaitsForRead` | `ReadAtCloseEnds`, for `OneAtATime` | `BlockedInv`: `blocked` is `TRUE` during a read under which `readBuffer` has not cleared it, and the reads that were under way at the close are under way still |
| `FreesItsOwn` | `FreesOwnOnce`, for `OneAtATime` | `TurnInv`, `HandleInv`: no shell but the one the application is busy with has a channel or a receiver; its channel is `channel`, whose handle goes from open to closed to freed along with `shutdown`, or straight to freed when the pty is refused |
| `OneStrayRead` | `AtMostOneStray`, for `OneAtATime` | `StrayInv`: of a shell that is not `tardy`, `stopCmd` is set once `shutdown` has begun and stays set, so that a receiver that meets the freed handle goes no further than that read; shut down from the callback, it meets none |
| `SessionTypeCorrect` | `TypeOK` | itself |
| `ConnectedMeansConnected` | `ConnectedIsReal` | `TryInv`: from `createSocket:` to the end of a try that is not meddled with, `sock` is held by its session, which is bound to it, and past each point of `connect` key and user are those of this try |
| `CarefulIsSafe` | `CarefulTouchesOwn` | `TryInv`: where `connect` closes `sock` or sends, and where `connected` lets a careful application do so, the descriptor is held by the session |
| `SocketsAccountedFor` | `SocketLeftOnlyAtStartup` | `SocketInv`: a descriptor held by a try is `sock` and that try is under way, past `createSocket:`, or connected; or the try was lost at startup |
| `NoComesWithError` | `NoHasItsError` | `ErrorInv`: after each method that was tried and failed, `error` is 101 of this try |
| `AskedWithCause` | `AskedForCause` | `CauseInv`: wherever `requestPassword` is set a method that takes a password was tried, not only where `connect` asks |
| `SessionImplementsConnection` | `ConnectionSpec` | `TryInv` and `AchievedInv`: `trusted` and `accepted` are of earlier tries until the delegate and the server have given their verdict in this one, and `connect` has answered only when it is over |
| `SharedTypeCorrect` | `TypeOK` | itself |
| `NoPasswordLeftOver` | `NoStalePassword` | itself, with `TypeOK`: each object leaves `ppwwdd` `nil`, whoever's it was |
| `ApartIsSafe` | `ApartConnectsToOwn` | `ApartInv`: used apart, the one object that is in a call owns the global session it is at and the password that is set |
| `InTurnIsSafe` | `InTurnTouchesOwn` | `InTurnInv`: used in turn, a connected object is alone, and the global session is its own |
| `SftpTypeCorrect` | `TypeOK` | itself |
| `OnlyReplacedLeak` | `LeftOpenWereReplaced` | `HandleInv`: an open handle is the current one or was replaced |
| `ItemsTellWhatWas` | `ItemsWereThere` | `SeenInv`: during a call, what is there has been seen |
| `ListingsSort` | `CompareOrders` | `TypeOK` and a lemma on `compare:` for any two named items |
| `ListingsAreWhole` | `ListsWhatStayed` | `ListInv`: a listing so far has what was handed over and is to be shown, once; once it has run to the end what stayed was handed over |

The invariants are inductive together with `TypeOK` (and those above them in the
table for the same module); the properties alone are mostly not, since each speaks of the
moment when harm would be done, and holds because of what must be true earlier.
Every proof has the same plan: a lemma for each part of the invariant, in it one
step per action of `Next`, and a last step that puts lemmas together.

The three refinements are proved step by step: each action of the detailed module is an
action of the abstract one under the mapping, or leaves its variables alone. The lemmas
on sequences they need (`PieceOfLonger`, `AppendDistinct`, `SuffixIndex`, `AddedLines`)
stand before them. `RecordedInOrder` needs the longest argument: that a command is never
printed twice follows from the far end's input, where every number occurs once, and
the order from the chain arrays, hand, wire, which each step only shifts.

Only model-checked: the liveness properties `ExecReturns`, `ShutdownReturns`,
`StoppedQuits` and `ListingReturns`, which are out of the prover's reach. Every safety
property the passing runs check is also proved.

## 5. What the models found

1. **Lines are lost or merged** (`receiver_short_lines`). `MPSshShell.m:62` leaves
   lines longer than the buffer open; but a line of any length is truncated when it
   spans three reads, and is glued to the next one when a read starts with its end
   of line. `LineStream` says how bad this gets: one line handed over is wrong, and
   the next is right again if the reads are.
2. **The echo is recorded** (`commands_echo`). The comment `Test for command line
   echoed` (`MPSshShell.m:136`) has no test behind it: the command line is the
   first element of its own result.
3. **A channel is freed under a read** (`lifecycle_freed`). `shutdown` tests
   `blocked` and frees later; the receiver may begin a read in between.
   `AtMostOneStray` says how bad this gets: one read, no more.
4. **Two shells share a channel** (`lifecycle_two`). `blocked` and `channel` are
   declared at file level and so are variables of the process.

What holds is as interesting: a result returned at the prompt never changes though
the caller is given the receiver's own array; at most one line reaches the delegate
after `stopLongCommand`; a delegate that calls `execCommand:` from its callback waits out
the ten seconds and gets an empty array, never one that says its command succeeded; no
line is recorded twice, though a call may divide a command's output between two
results; a user once accepted is not refused by a method tried after; a careful
application never loses a descriptor although `sock` is never reset; `connected` is
stale only if the delegate shut that very try down.

The histories in these properties mark where the code does depend on its user, and
each is needed: without `meddled`, `connected` is set over a socket the delegate has
closed (`MPSshSession.m:318-326`); without `careful`, a second `shutdown`, or an
`MPSftpSession` that outlives its session, reaches a descriptor that is somebody else's;
without `apart`, one object's password is given to another's server; without
`unguarded`, `readBuffer` lets `shutdown` free a channel under a read.

The following harm is done by the code as it is, on no promise of its own to the
contrary; the properties say how far it goes and not that it does not happen:

* an `execCommand:` may return the array of a call the delegate made meanwhile
  (`MPSshShell.m:202`);
* a prompt the receiver has in hand when `execLongCommand:` sets `status` takes the shell
  back to `CommandComplete` (`MPSshShell.m:145`): `LongStaysOnline` names this exception;
* `sock` is not reset: a second `shutdown`, the one after a new password (301), a
  delegate's, or the `dealloc` of an `MPSftpSession` that comes late may reach a foreign
  descriptor (`MPSshSession.m:337`): `CarefulTouchesOwn` says who is spared;
* a failed handshake (`MPSshSession.m:284`) and the exception of `MPLSSession.m:54` leave
  their socket: `SocketLeftOnlyAtStartup` says that nothing else does;
* `requestPassword` stays set after keyboard-interactive succeeded
  (`MPSshSession.m:215`), and a later `connect` with the same parameters asks for a
  password: `AskedForCause` only says that there was one;
* an open SFTP handle is overwritten by the next open (`MPSftpSession.m:77`), and a listing
  that an error ended looks like a whole one (116): `LeftOpenWereReplaced` and
  `ListsWhatStayed` say what can still be relied on.

## 6. Not modelled, and why

* **One model of shell and receiver together.** `ShellReceiver`, `ShellCommands` and
  `ShellLifecycle` share the receiver thread and meet at narrow places: a line
  (`dataReceived:`), and `self.channel`. Their product is far beyond the bounds at which
  each is interesting. What is lost is the text that `ResultExact` would return if a
  read had cut it badly (`LineStream` tells), and a shutdown during a command from
  another thread, which leaves the command without lines and prompt, as
  `commands_return` has it.
* **Two calls of the application on one shell's lifecycle at once**, see the assumptions.
* **Data races inside libssh2**: two threads in one session (`MPLSChannel.m:42`, and any
  two objects that share `session`) are outside what libssh2 allows, and what it then
  does is not in this code. The hazard is listed without a property.
* **Partial writes.** A command arrives as it is or not at all. `libssh2_channel_write` may
  take a part of it, and the length it is given counts characters where it should
  count bytes (`MPLSChannel.m:42`), so that a command that is not ASCII loses its end.
* **Calls that never come back.** Every call of libssh2 but a read is presumed to return
  (section 3, fairness).
* **Sizes** (`MPSftpSession.m:105`): what libssh2 leaves in `attrs.filesize` when it
  sends no size is outside this code, and sizes and their formatting take part in nothing
  else.
* `libssh_init`, `libssh_exit`, `trace`, `setBlocking:`, `lastError` hand on a call of
  libssh2 and keep no state. Bytes that are not text are left out of
  the receiver (`MPSshShell.m:96` and 111), so that a read that cuts a UTF-8 character,
  which makes `@(nextstart)` `nil` and loses the tail, is left out with them.
* `MPHost` (calls to the resolver, no state), the example application and the
  template tests, vendored libraries. libssh2 and the far end appear as external
  actions, modelled from how the code uses them.
