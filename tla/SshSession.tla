----------------------------- MODULE SshSession -----------------------------
(***************************************************************************)
(* One MPSshSession: connectUsingParams:error: with all it calls, shutdown *)
(* and the opening of shells and SFTP sessions (MPSshSession.m), over the  *)
(* process's table of file descriptors, in which other code opens and      *)
(* closes its own.                                                         *)
(*                                                                         *)
(* The calls are made by one thread.  A step runs up to the next call that *)
(* takes time (the network, the user behind the delegate), so the other    *)
(* code's steps fall between.  The server decides what methods it offers   *)
(* and whether each succeeds; the delegate, whether to trust the key and   *)
(* whether to give another password.  The delegate may also call shutdown, *)
(* wherever it is called: shutdown does not look whether connect is under  *)
(* way.  A libssh2 session knows its socket by number: what it sends goes  *)
(* to whoever holds the number by then.                                    *)
(***************************************************************************)
EXTENDS Integers, FiniteSets

CONSTANTS
  MaxFd,      \* bound: descriptors of the process are 0 .. MaxFd
  MaxTries    \* bound: sockets asked for in a behaviour

ASSUME SessionAssumption ==
  /\ MaxFd \in Nat \ {0}
  /\ MaxTries \in Nat \ {0}

Fd == 0 .. MaxFd
Try == 1 .. MaxTries

(* Who holds a descriptor: nobody, the try that created it, other code of  *)
(* the process, or its launcher (0 is the standard input).                 *)
Free == 0
Other == MaxTries + 1
Std == MaxTries + 2
Holder == 0 .. (MaxTries + 2)

Method == {"publickey", "password", "keyboard-interactive"}

ERROR_AUTH_FAILED == 101
Error == [code : {0, 100, ERROR_AUTH_FAILED}, try : 0 .. MaxTries]
NoError == [code |-> 0, try |-> 0]

VARIABLES
  fds,              \* the process's descriptors
  \* MPSshSession
  sock, connected,
  session,          \* the try whose MPLSSession self.session is, or 0
  \* the caller's MPConnectionParams and NSError
  requestPassword, requestPassphrase, error,
  result,           \* what the last connect returned
  pc,               \* where connect is
  tries,            \* passes through createSocket: so far
  methods,          \* the server's userauth list
  auth,             \* the local of authenticateWithParams:
  \* libssh2
  bound,            \* the descriptor the session of each try was started on
  opened,           \* tries whose session has a shell or SFTP session still
  \* history
  trusted,          \* the try whose key the delegate accepted
  accepted,         \* the try whose user the server accepted
  lostAtStartup,    \* tries that failed at libssh2_session_startup
  passwordTried,    \* a method that takes a password was tried with params
  careful,          \* shutdown called only when connected, no new password,
                    \* and what a session opened used while it is connected
  meddled,          \* the delegate has called shutdown during this try
  foreign           \* a descriptor of somebody else was closed or sent to

appVars == <<sock, connected, session, requestPassword, requestPassphrase,
             error, result>>
libssh2 == <<bound, opened>>
history == <<trusted, accepted, lostAtStartup, passwordTried, careful,
             meddled>>
vars == <<fds, appVars, pc, tries, methods, auth, libssh2, history, foreign>>

Init ==
  /\ fds = [f \in Fd |-> IF f = 0 THEN Std ELSE Free]
  /\ sock = 0                       \* an instance variable nobody has set
  /\ connected = FALSE
  /\ session = 0
  /\ requestPassword = FALSE
  /\ requestPassphrase = FALSE
  /\ error = NoError
  /\ result = "none"
  /\ pc = "idle"
  /\ tries = 0
  /\ methods = {}
  /\ auth = FALSE
  /\ bound = [t \in Try |-> -1]
  /\ opened = {}
  /\ trusted = 0
  /\ accepted = 0
  /\ lostAtStartup = {}
  /\ passwordTried = FALSE
  /\ careful = TRUE
  /\ meddled = FALSE
  /\ foreign = FALSE

-----------------------------------------------------------------------------
(* A new descriptor is the lowest that is free.                            *)
Lowest(f) == fds[f] = Free /\ \A g \in 0 .. (f - 1) : fds[g] # Free

(* What the session of try t sends reaches somebody else's descriptor.     *)
Misdirected(t) ==
  t # 0 /\ bound[t] # -1 /\ fds[bound[t]] \notin {Free, t}

Sends(t) == foreign' = (foreign \/ Misdirected(t))

(* What shutdown does: the disconnect message, then close(sock), if sock   *)
(* # -1; of a descriptor nobody holds it is EBADF.                         *)
CloseSock ==
  IF sock = -1 THEN UNCHANGED fds /\ Sends(session)
  ELSE /\ fds' = [fds EXCEPT ![sock] = Free]
       /\ foreign' = (\/ foreign
                      \/ Misdirected(session)
                      \/ fds[sock] \in {Other, Std})

FillError(code) == error' = [code |-> code, try |-> tries]

(* connect leaves with NO.                                                 *)
ReturnNO == result' = "NO" /\ pc' = "idle"

(* connectUsingParams:error:, up to createSocket.                          *)
Connect ==
  /\ pc = "idle"
  /\ IF connected
     THEN /\ result' = "YES"
          /\ UNCHANGED <<pc, tries, error>>
     ELSE /\ tries < MaxTries
          /\ tries' = tries + 1
          /\ pc' = "socket"
          /\ result' = "none"
          /\ error' = NoError
  /\ UNCHANGED <<fds, sock, connected, session, requestPassword,
                 requestPassphrase, methods, auth, libssh2, history, foreign>>

(* createSocket: no address, no connection in 5 s, or refused.             *)
SocketFails ==
  /\ pc = "socket"
  /\ sock' = -1
  /\ FillError(100)
  /\ ReturnNO
  /\ UNCHANGED <<fds, connected, session, requestPassword, requestPassphrase,
                 tries, methods, auth, libssh2, history, foreign>>

(* createSocket succeeds.                                                  *)
SocketOpens ==
  /\ pc = "socket"
  /\ \E f \in Fd : Lowest(f) /\ sock' = f /\ fds' = [fds EXCEPT ![f] = tries]
  /\ meddled' = FALSE
  /\ pc' = "notify"
  /\ UNCHANGED <<connected, session, requestPassword, requestPassphrase, error,
                 result, tries, methods, auth, libssh2, trusted, accepted,
                 lostAtStartup, passwordTried, careful, foreign>>

(* Mutant of NewSession: an MPLSSession is made only if there is none.     *)
OldSession ==
  /\ pc = "notify"
  /\ session' = IF session = 0 THEN tries ELSE session
  /\ pc' = "startup"
  /\ UNCHANGED <<fds, sock, connected, requestPassword, requestPassphrase,
                 error, result, tries, methods, auth, libssh2, history,
                 foreign>>

(* The delegate has heard of MPSshSessionConnected; a new MPLSSession,     *)
(* which has not asked for the list yet.                                   *)
NewSession ==
  /\ pc = "notify"
  /\ session' = tries
  /\ methods' = {}
  /\ pc' = "startup"
  /\ UNCHANGED <<fds, sock, connected, requestPassword, requestPassphrase,
                 error, result, tries, auth, libssh2, history, foreign>>

(* libssh2_session_startup(session, sock).                                 *)
StartupCall ==
  /\ pc = "startup"
  /\ bound' = [bound EXCEPT ![session] = sock]
  /\ foreign' = (foreign \/ fds[sock] \notin {Free, session})

(* It fails: connect returns without a shutdown.                           *)
StartupFails ==
  /\ StartupCall
  /\ FillError(100)
  /\ ReturnNO
  /\ lostAtStartup' = lostAtStartup \cup {tries}
  /\ UNCHANGED <<fds, sock, connected, session, requestPassword,
                 requestPassphrase, tries, methods, auth, opened, trusted,
                 accepted, passwordTried, careful, meddled>>

(* Somebody may answer at the other end of descriptor f.                   *)
Reached(f) == f # -1 /\ fds[f] # Free

StartupSucceeds ==
  /\ StartupCall
  /\ Reached(sock)
  /\ pc' = "fingerprint"
  /\ UNCHANGED <<fds, appVars, tries, methods, auth, opened, history>>

(* Mutant of FingerprintRejected: return NO is dropped from connect.       *)
FingerprintIgnored ==
  /\ pc = "fingerprint"
  /\ FillError(100)
  /\ CloseSock
  /\ connected' = FALSE
  /\ pc' = "list"
  /\ UNCHANGED <<sock, session, requestPassword, requestPassphrase, result,
                 tries, methods, auth, libssh2, history>>

(* Mutant of FingerprintRejected: [self shutdown] is dropped.              *)
FingerprintKeepsSocket ==
  /\ pc = "fingerprint"
  /\ FillError(100)
  /\ connected' = FALSE
  /\ ReturnNO
  /\ UNCHANGED <<fds, foreign, sock, session, requestPassword,
                 requestPassphrase, tries, methods, auth, libssh2, history>>

(* manageFingerprintWithError:                                             *)
FingerprintRejected ==
  /\ pc = "fingerprint"
  /\ FillError(100)
  /\ CloseSock
  /\ connected' = FALSE
  /\ ReturnNO
  /\ UNCHANGED <<sock, session, requestPassword, requestPassphrase, tries,
                 methods, auth, libssh2, history>>

(* The delegate accepts it, or there is no delegate to ask.                *)
FingerprintAccepted ==
  /\ pc = "fingerprint"
  /\ trusted' = session
  /\ pc' = "list"
  /\ UNCHANGED <<fds, appVars, tries, methods, auth, libssh2, accepted,
                 lostAtStartup, passwordTried, careful, meddled, foreign>>

-----------------------------------------------------------------------------
(* authenticateWithParams:error:                                           *)

ListMethods ==
  /\ pc = "list"
  /\ Sends(session)
  /\ Reached(bound[session])
  /\ methods' \in SUBSET Method
  /\ auth' = FALSE
  /\ pc' = "publickey"
  /\ UNCHANGED <<fds, appVars, tries, libssh2, history>>

(* libssh2_userauth_list returned NULL: @(ual) raises, out of connect.     *)
ListRaises ==
  /\ pc = "list"
  /\ Sends(session)
  /\ pc' = "raised"
  /\ UNCHANGED <<fds, appVars, tries, methods, auth, libssh2, history>>

(* The server's verdict ok on the user for one method.                     *)
Verdict(ok) ==
  /\ ok => Reached(bound[session])
  /\ Sends(session)
  /\ auth' = ok
  /\ accepted' = IF ok THEN session ELSE accepted
  /\ IF ok THEN UNCHANGED error ELSE FillError(ERROR_AUTH_FAILED)

(* Mutant of TryPublicKey: it sets the other flag.                         *)
TryPublicKeyWrongFlag(ok) ==
  /\ pc = "publickey"
  /\ pc' = "password"
  /\ IF "publickey" \in methods
     THEN Verdict(ok) /\ requestPassword' = ~ok
     ELSE UNCHANGED <<auth, accepted, error, requestPassword, foreign>>
  /\ UNCHANGED <<fds, sock, connected, session, requestPassphrase, result,
                 tries, methods, libssh2, trusted, lostAtStartup,
                 passwordTried, careful, meddled>>

TryPublicKey(ok) ==
  /\ pc = "publickey"
  /\ pc' = "password"
  /\ IF "publickey" \in methods
     THEN Verdict(ok) /\ requestPassphrase' = ~ok
     ELSE UNCHANGED <<auth, accepted, error, requestPassphrase, foreign>>
  /\ UNCHANGED <<fds, sock, connected, session, requestPassword, result,
                 tries, methods, libssh2, trusted, lostAtStartup,
                 passwordTried, careful, meddled>>

(* Mutant of TryPassword: it is tried even if the key was accepted.        *)
TryPasswordAnyway(ok) ==
  /\ pc = "password"
  /\ pc' = "keyboard"
  /\ IF "password" \in methods
     THEN Verdict(ok) /\ requestPassword' = ~ok /\ passwordTried' = TRUE
     ELSE UNCHANGED <<auth, accepted, error, requestPassword, passwordTried,
                      foreign>>
  /\ UNCHANGED <<fds, sock, connected, session, requestPassphrase, result,
                 tries, methods, libssh2, trusted, lostAtStartup, careful,
                 meddled>>

TryPassword(ok) ==
  /\ pc = "password"
  /\ pc' = "keyboard"
  /\ IF ~auth /\ "password" \in methods
     THEN Verdict(ok) /\ requestPassword' = ~ok /\ passwordTried' = TRUE
     ELSE UNCHANGED <<auth, accepted, error, requestPassword, passwordTried,
                      foreign>>
  /\ UNCHANGED <<fds, sock, connected, session, requestPassphrase, result,
                 tries, methods, libssh2, trusted, lostAtStartup, careful,
                 meddled>>

(* requestPassword is set whether or not the method succeeds.              *)
TryKeyboard(ok) ==
  /\ pc = "keyboard"
  /\ pc' = "judge"
  /\ IF ~auth /\ "keyboard-interactive" \in methods
     THEN Verdict(ok) /\ requestPassword' = TRUE /\ passwordTried' = TRUE
     ELSE UNCHANGED <<auth, accepted, error, requestPassword, passwordTried,
                      foreign>>
  /\ UNCHANGED <<fds, sock, connected, session, requestPassphrase, result,
                 tries, methods, libssh2, trusted, lostAtStartup, careful,
                 meddled>>

(* Mutant of AuthFails: if(!tryed) is dropped.                             *)
AuthFailsSilently ==
  /\ pc = "judge" /\ ~auth
  /\ CloseSock
  /\ connected' = FALSE
  /\ pc' = "ask"
  /\ UNCHANGED <<sock, session, requestPassword, requestPassphrase, error,
                 result, tries, methods, auth, libssh2, history>>

(* No method succeeded, or none was tried: shutdown, and NO to connect.    *)
AuthFails ==
  /\ pc = "judge"
  /\ ~auth
  /\ IF methods = {} THEN FillError(ERROR_AUTH_FAILED) ELSE UNCHANGED error
  /\ CloseSock
  /\ connected' = FALSE
  /\ pc' = "ask"
  /\ UNCHANGED <<sock, session, requestPassword, requestPassphrase, result,
                 tries, methods, auth, libssh2, history>>

(* connect, after a failed authentication: the delegate gives a password,  *)
(* shutdown is called once more and the loop goes round.                   *)
PasswordGiven ==
  /\ pc = "ask"
  /\ requestPassword
  /\ tries < MaxTries
  /\ tries' = tries + 1
  /\ CloseSock
  /\ connected' = FALSE
  /\ careful' = FALSE
  /\ pc' = "socket"
  /\ UNCHANGED <<sock, session, requestPassword, requestPassphrase, error,
                 result, methods, auth, libssh2, trusted, accepted,
                 lostAtStartup, passwordTried, meddled>>

(* Mutant of NoPassword: shutdown is called before pwd is looked at.       *)
NoPasswordShutsDown ==
  /\ pc = "ask"
  /\ CloseSock
  /\ connected' = FALSE
  /\ ReturnNO
  /\ UNCHANGED <<sock, session, requestPassword, requestPassphrase, error,
                 tries, methods, auth, libssh2, history>>

(* The delegate is not asked, or gives none.                               *)
NoPassword ==
  /\ pc = "ask"
  /\ ReturnNO
  /\ UNCHANGED <<fds, sock, connected, session, requestPassword,
                 requestPassphrase, error, tries, methods, auth, libssh2,
                 history, foreign>>

Authenticated ==
  /\ pc = "judge"
  /\ auth
  /\ connected' = TRUE
  /\ result' = "YES"
  /\ pc' = "idle"
  /\ UNCHANGED <<fds, sock, session, requestPassword, requestPassphrase,
                 error, tries, methods, auth, libssh2, history, foreign>>

-----------------------------------------------------------------------------
(* shutdown, called by the application.  sock keeps its value.             *)
Shutdown ==
  /\ pc = "idle"
  /\ CloseSock
  /\ connected' = FALSE
  /\ careful' = (careful /\ connected)
  /\ UNCHANGED <<sock, session, requestPassword, requestPassphrase, error,
                 result, pc, tries, methods, auth, libssh2, trusted, accepted,
                 lostAtStartup, passwordTried, meddled>>

(* The delegate calls it, from a notification, from the question about the *)
(* key or from the one about a password; connect goes on.                  *)
DelegateShutsDown ==
  /\ \/ pc \in {"notify", "fingerprint"}
     \/ pc = "ask" /\ requestPassword
     \/ pc = "judge" /\ auth
  /\ CloseSock
  /\ connected' = FALSE
  /\ careful' = FALSE
  /\ meddled' = TRUE
  /\ UNCHANGED <<sock, session, requestPassword, requestPassphrase, error,
                 result, pc, tries, methods, auth, libssh2, trusted, accepted,
                 lostAtStartup, passwordTried>>

(* newSftpSession or newSshShellWithError:, by which the application gets  *)
(* an object of the session, or not.  A message to nil returns nil.        *)
OpenOnSession ==
  /\ pc = "idle"
  /\ session # 0
  /\ Sends(session)
  /\ \/ UNCHANGED opened
     \/ Reached(bound[session]) /\ opened' = opened \cup {session}
  /\ careful' = (careful /\ connected)
  /\ UNCHANGED <<fds, appVars, pc, tries, methods, auth, bound, trusted,
                 accepted, lostAtStartup, passwordTried, meddled>>

(* An object of the session of try t goes: dealloc of an MPSftpSession,    *)
(* shutdown of an MPSshShell.                                              *)
Release(t) ==
  /\ pc = "idle"
  /\ t \in opened
  /\ Sends(t)
  /\ opened' = opened \ {t}
  /\ careful' = (careful /\ connected /\ t = session)
  /\ UNCHANGED <<fds, appVars, pc, tries, methods, auth, bound, trusted,
                 accepted, lostAtStartup, passwordTried, meddled>>

(* The application starts over with new MPConnectionParams.                *)
NewParams ==
  /\ pc = "idle"
  /\ requestPassword' = FALSE
  /\ requestPassphrase' = FALSE
  /\ passwordTried' = FALSE
  /\ UNCHANGED <<fds, sock, connected, session, error, result, pc, tries,
                 methods, auth, libssh2, trusted, accepted, lostAtStartup,
                 careful, meddled, foreign>>

(* Other code of the process opens a descriptor and closes one it holds.   *)
OtherOpens ==
  /\ \E f \in Fd : Lowest(f) /\ fds' = [fds EXCEPT ![f] = Other]
  /\ UNCHANGED <<appVars, pc, tries, methods, auth, libssh2, history, foreign>>

OtherCloses ==
  /\ \E f \in Fd : fds[f] = Other /\ fds' = [fds EXCEPT ![f] = Free]
  /\ UNCHANGED <<appVars, pc, tries, methods, auth, libssh2, history, foreign>>

Next ==
  \/ Connect \/ Shutdown \/ DelegateShutsDown \/ NewParams
  \/ OpenOnSession \/ \E t \in Try : Release(t)
  \/ SocketFails \/ SocketOpens \/ NewSession
  \/ StartupFails \/ StartupSucceeds
  \/ FingerprintRejected \/ FingerprintAccepted \/ ListMethods \/ ListRaises
  \/ \E ok \in BOOLEAN : TryPublicKey(ok) \/ TryPassword(ok) \/ TryKeyboard(ok)
  \/ AuthFails \/ PasswordGiven \/ NoPassword \/ Authenticated
  \/ OtherOpens \/ OtherCloses

Spec == Init /\ [][Next]_vars

-----------------------------------------------------------------------------
(* The type invariant; among it, that past createSocket: the MPLSSession   *)
(* in use is the one made for this try.                                    *)
TypeOK ==
  /\ fds \in [Fd -> Holder]
  /\ sock \in Fd \cup {-1}
  /\ connected \in BOOLEAN /\ auth \in BOOLEAN
  /\ session \in 0 .. MaxTries
  /\ requestPassword \in BOOLEAN /\ requestPassphrase \in BOOLEAN
  /\ error \in Error
  /\ result \in {"none", "YES", "NO"}
  /\ pc \in {"idle", "socket", "notify", "startup", "fingerprint", "list",
             "publickey", "password", "keyboard", "judge", "ask", "raised"}
  /\ tries \in 0 .. MaxTries
  /\ pc \notin {"idle", "socket", "notify"} => session = tries
  /\ pc # "idle" => tries # 0
  /\ pc \notin {"idle", "socket"} => sock # -1
  /\ methods \subseteq Method
  /\ bound \in [Try -> Fd \cup {-1}] /\ opened \subseteq Try
  /\ trusted \in 0 .. MaxTries /\ accepted \in 0 .. MaxTries
  /\ lostAtStartup \subseteq 0 .. MaxTries
  /\ passwordTried \in BOOLEAN /\ careful \in BOOLEAN
  /\ meddled \in BOOLEAN /\ foreign \in BOOLEAN

(* While connected is set, sock is the open socket of the last try, and it *)
(* is of that try that the delegate accepted the key and the server the    *)
(* user, however many tries, failures and shutdowns came before; unless    *)
(* the delegate shut this very try down while connect was under way, which *)
(* connected = TRUE overrules (MPSshSession.m:231-341).                    *)
ConnectedIsReal ==
  connected /\ ~meddled => /\ sock # -1 /\ fds[sock] = session
                           /\ trusted = session /\ accepted = session

(* sock is never reset, and libssh2 knows it by number: a second shutdown, *)
(* or a shell or SFTP session that outlives its session, closes or sends   *)
(* to a number that may have gone to somebody else.  An application that   *)
(* shuts down only what is connected, gives no new password and uses what  *)
(* a session opened while that session is connected never does             *)
(* (MPSshSession.m:93, 147, 224, 301, 332-341, MPSftpSession.m:125-136).   *)
CarefulTouchesOwn == careful => ~foreign

(* At any time a session holds one socket at most, that of the try under   *)
(* way or connected, which shutdown would still close by sock, besides     *)
(* those of tries lost at libssh2_session_startup, which has no shutdown   *)
(* (MPSshSession.m:278-285): every other way a try fails closes its socket *)
(* before the delegate is asked, before the next try and before connect    *)
(* returns (145-148, 223-226).  The exception of MPLSSession.m:54 leaves   *)
(* that one socket too.                                                    *)
SocketLeftOnlyAtStartup ==
  \A f \in Fd : fds[f] \in Try =>
    \/ fds[f] \in lostAtStartup
    \/ /\ f = sock /\ fds[f] = tries
       /\ connected \/ pc \notin {"idle", "socket", "ask"}

(* When connect returns NO the caller has an error, filled in by the last  *)
(* try and not left by an earlier one; it says 101 only if the server had  *)
(* been heard and the key accepted (MPSshSession.m:155-229 and 265-316).   *)
NoHasItsError ==
  result = "NO" => /\ error.code # 0 /\ error.try = tries
                   /\ error.code = ERROR_AUTH_FAILED => trusted = tries

(* The delegate is asked for a password only if one has been tried with    *)
(* these parameters, in this try or, the flag not being reset, an earlier  *)
(* one: a failed key alone does not make connect ask                       *)
(* (MPSshSession.m:198-217 and 297-299).                                   *)
AskedForCause == pc = "ask" /\ requestPassword => passwordTried

(* What a connection is to who only sees its stages.                       *)
State ==
  IF connected THEN "up" ELSE IF pc \in {"idle", "raised"} THEN "closed"
  ELSE "trying"

Stage == INSTANCE Connection WITH
  state <- State, try <- tries, key <- trusted, user <- accepted,
  answer <- result

(* A connection goes through its stages in order: no user is offered to a  *)
(* server whose key was not accepted in this try, what an earlier try      *)
(* achieved counts for nothing, a user once accepted is not refused by     *)
(* what is tried after, and a try that failed stays so; however calls of   *)
(* shutdown by the application and the delegate fall in between            *)
(* (MPSshSession.m:140-330).                                               *)
ConnectionSpec == Stage!Spec
=============================================================================
