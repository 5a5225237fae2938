--------------------------- MODULE SharedSession ---------------------------
(***************************************************************************)
(* Several MPSshSession objects in one process, each used from a thread of *)
(* its own.  What looks like an instance variable of MPLSSession is one    *)
(* variable of the process: session, the libssh2 session of whichever      *)
(* object made one last, and ppwwdd, the password that kbd_callback        *)
(* answers with (MPLSSession.m:11, 40).                                    *)
(*                                                                         *)
(* A connect is cut down to its calls to MPLSSession, in their order, and  *)
(* to the outcomes that decide which come next; SshSession has the rest.   *)
(* The other calls are one step, so they overlap nothing.                  *)
(* The password of an object is named after the object.                    *)
(***************************************************************************)
EXTENDS Naturals

CONSTANTS
  Objects,      \* the MPSshSession objects
  Nobody,       \* no object, no password
  MaxSessions   \* bound: libssh2 sessions made

ASSUME SharedAssumption ==
  /\ Nobody \notin Objects
  /\ MaxSessions \in Nat \ {0}

Sessions == 1 .. MaxSessions

VARIABLES
  session, ppwwdd,   \* the two variables of MPLSSession.m
  made,         \* libssh2 sessions made
  startedOn,    \* the object on whose socket each was started, or Nobody
  pc,           \* where each object is in a call
  connected,    \* the property of each
  holds,        \* objects whose self.session is not nil
  within,       \* the session each handed to keyboard-interactive
  crashed,      \* strdup(NULL) in kbd_callback
  \* history
  sent,         \* passwords: of whom, and to whose server
  astray,       \* "connect", "use": there a call went to another's session
  apart,        \* no call of an object began during a call of another
  inTurn        \* and none connected, was used or was shut down but while
                \* no other was connected

globals == <<session, ppwwdd>>
libssh2 == <<made, startedOn>>
objects == <<connected, holds, within>>
discipline == <<apart, inTurn>>
vars == <<globals, libssh2, pc, objects, crashed, sent, astray, discipline>>

Init ==
  /\ session = 0
  /\ ppwwdd = Nobody
  /\ made = 0
  /\ startedOn = [s \in Sessions |-> Nobody]
  /\ pc = [o \in Objects |-> "idle"]
  /\ connected = [o \in Objects |-> FALSE]
  /\ holds = {}
  /\ within = [o \in Objects |-> 0]
  /\ crashed = FALSE
  /\ sent = {}
  /\ astray = {}
  /\ apart = TRUE
  /\ inTurn = TRUE

-----------------------------------------------------------------------------
Go(o, from, to) == pc[o] = from /\ pc' = [pc EXCEPT ![o] = to]

(* A call of o to libssh2 on the global session.                           *)
Own(o) == session # 0 /\ startedOn[session] = o

Calls(o, kind) == astray' = IF Own(o) THEN astray ELSE astray \cup {kind}

(* Object o is called; in turn, if fair holds too.                         *)
Begins(o, fair) ==
  /\ apart' = (apart /\ \A p \in Objects : pc[p] = "idle")
  /\ inTurn' = (/\ inTurn
                /\ \A p \in Objects : pc[p] = "idle"
                /\ fair)

(* connectUsingParams:error:, when it does not find itself connected.      *)
Connect(o) ==
  /\ Go(o, "idle", "socket")
  /\ ~connected[o]
  /\ made < MaxSessions
  /\ Begins(o, \A p \in Objects : ~connected[p])
  /\ UNCHANGED <<globals, libssh2, objects, crashed, sent, astray>>

SocketFails(o) ==
  /\ Go(o, "socket", "idle")
  /\ UNCHANGED <<globals, libssh2, objects, crashed, sent, astray, discipline>>

(* Mutant of NewSession: what libssh2_session_init returns is not kept.    *)
NewSessionLost(o) ==
  /\ Go(o, "socket", "startup")
  /\ made < MaxSessions
  /\ made' = made + 1
  /\ holds' = holds \cup {o}
  /\ UNCHANGED <<globals, startedOn, connected, within, crashed, sent, astray,
                 discipline>>

(* Mutant of NewSession: init makes a libssh2 session only if there is     *)
(* none.                                                                   *)
NewSessionOnce(o) ==
  /\ Go(o, "socket", "startup")
  /\ IF made = 0 THEN made' = 1 /\ session' = 1 ELSE UNCHANGED <<made, session>>
  /\ holds' = holds \cup {o}
  /\ UNCHANGED <<ppwwdd, startedOn, connected, within, crashed, sent, astray,
                 discipline>>

(* The socket opens; [[MPLSSession alloc] init].                           *)
NewSession(o) ==
  /\ Go(o, "socket", "startup")
  /\ made < MaxSessions
  /\ made' = made + 1
  /\ session' = made + 1
  /\ holds' = holds \cup {o}
  /\ UNCHANGED <<ppwwdd, startedOn, connected, within, crashed, sent, astray,
                 discipline>>

(* startupWithSock:; a session that was started already is astray.         *)
Startup(o, ok) ==
  /\ Go(o, "startup", IF ok THEN "calls" ELSE "idle")
  /\ startedOn' = [startedOn EXCEPT ![session] = o]
  /\ astray' = IF startedOn[session] = Nobody THEN astray
               ELSE astray \cup {"connect"}
  /\ UNCHANGED <<globals, made, objects, crashed, sent, discipline>>

(* hostkeyHash:, userauthListWithUser:, and the two methods that hand the  *)
(* password or the key to libssh2 themselves.                              *)
Call(o) ==
  /\ pc[o] = "calls"
  /\ Calls(o, "connect")
  /\ UNCHANGED <<globals, libssh2, pc, objects, crashed, sent, discipline>>

(* userauth_list gives NULL: @(ual) raises, out of connect.                *)
Raises(o) ==
  /\ Go(o, "calls", "idle")
  /\ Calls(o, "connect")
  /\ UNCHANGED <<globals, libssh2, objects, crashed, sent, discipline>>

(* Mutant of SetPassword: ppwwdd = password is dropped.                    *)
SetNoPassword(o) ==
  /\ Go(o, "calls", "enter")
  /\ UNCHANGED <<globals, libssh2, objects, crashed, sent, astray, discipline>>

(* Key and password refused or not offered; keyboard-interactive is.       *)
SetPassword(o) ==
  /\ Go(o, "calls", "enter")
  /\ ppwwdd' = o
  /\ UNCHANGED <<session, libssh2, objects, crashed, sent, astray, discipline>>

EnterKeyboard(o) ==
  /\ Go(o, "enter", "ask")
  /\ within' = [within EXCEPT ![o] = session]
  /\ Calls(o, "connect")
  /\ UNCHANGED <<globals, libssh2, connected, holds, crashed, sent, discipline>>

(* kbd_callback: the server has one question.  It may have none, or more.  *)
Answer(o) ==
  /\ pc[o] = "ask"
  /\ IF ppwwdd = Nobody
     THEN crashed' = TRUE /\ UNCHANGED sent
     ELSE /\ sent' = sent \cup {[of |-> ppwwdd, to |-> startedOn[within[o]]]}
          /\ UNCHANGED crashed
  /\ UNCHANGED <<globals, libssh2, pc, objects, astray, discipline>>

(* Mutant of LeaveKeyboard: ppwwdd = nil is dropped.                       *)
LeaveKeyboardKeeps(o, ok) ==
  /\ Go(o, "ask", IF ok THEN "granted" ELSE "refused")
  /\ within' = [within EXCEPT ![o] = 0]
  /\ UNCHANGED <<globals, libssh2, connected, holds, crashed, sent, astray,
                 discipline>>

LeaveKeyboard(o, ok) ==
  /\ Go(o, "ask", IF ok THEN "granted" ELSE "refused")
  /\ ppwwdd' = Nobody
  /\ within' = [within EXCEPT ![o] = 0]
  /\ UNCHANGED <<session, libssh2, connected, holds, crashed, sent, astray,
                 discipline>>

(* connected = TRUE, setBlocking:.                                         *)
Authenticated(o) ==
  /\ pc[o] \in {"calls", "granted"}
  /\ pc' = [pc EXCEPT ![o] = "idle"]
  /\ connected' = [connected EXCEPT ![o] = TRUE]
  /\ Calls(o, "connect")
  /\ UNCHANGED <<globals, libssh2, holds, within, crashed, sent, discipline>>

(* The key or the user is refused: shutdown, then NO or, with another      *)
(* password, shutdown once more and the loop.                              *)
Refused(o, again) ==
  /\ pc[o] \in {"calls", "refused"}
  /\ pc' = [pc EXCEPT ![o] = IF again THEN "socket" ELSE "idle"]
  /\ connected' = [connected EXCEPT ![o] = FALSE]
  /\ Calls(o, "connect")
  /\ UNCHANGED <<globals, libssh2, holds, within, crashed, sent, discipline>>

(* shutdown, newSftpSession, newSshShellWithError:; a message to a nil     *)
(* self.session does nothing.                                              *)
Use(o, shutdown) ==
  /\ pc[o] = "idle"
  /\ Begins(o, connected[o])
  /\ IF o \in holds THEN Calls(o, "use") ELSE UNCHANGED astray
  /\ connected' = [connected EXCEPT ![o] = @ /\ ~shutdown]
  /\ UNCHANGED <<globals, libssh2, pc, holds, within, crashed, sent>>

Next ==
  /\ ~crashed
  /\ \E o \in Objects :
       \/ Connect(o) \/ SocketFails(o) \/ NewSession(o) \/ Call(o)
       \/ Raises(o)
       \/ SetPassword(o) \/ EnterKeyboard(o) \/ Answer(o) \/ Authenticated(o)
       \/ \E b \in BOOLEAN :
            Startup(o, b) \/ LeaveKeyboard(o, b) \/ Refused(o, b) \/ Use(o, b)

Spec == Init /\ [][Next]_vars

-----------------------------------------------------------------------------
(* The type invariant; among it, that whoever starts, uses or leaves a     *)
(* libssh2 session finds one made.                                         *)
Stage == {"idle", "socket", "startup", "calls", "enter", "ask", "granted",
          "refused"}

TypeOK ==
  /\ session \in 0 .. MaxSessions /\ made \in 0 .. MaxSessions
  /\ session <= made
  /\ ppwwdd \in Objects \cup {Nobody}
  /\ startedOn \in [Sessions -> Objects \cup {Nobody}]
  /\ pc \in [Objects -> Stage]
  /\ connected \in [Objects -> BOOLEAN]
  /\ holds \subseteq Objects
  /\ within \in [Objects -> 0 .. MaxSessions]
  /\ \A o \in Objects : pc[o] \notin {"idle", "socket"} => session # 0
  /\ \A o \in Objects : pc[o] = "ask" => within[o] # 0
  /\ crashed \in BOOLEAN /\ apart \in BOOLEAN /\ inTurn \in BOOLEAN
  /\ sent \subseteq [of : Objects, to : Objects \cup {Nobody}]
  /\ astray \subseteq {"connect", "use"}

(* If objects are used one call at a time, a connect deals with its own    *)
(* server from first to last, although others may stay connected: its      *)
(* password goes there and nowhere else, and is there when kbd_callback    *)
(* wants it (MPLSSession.m:11-29, 40-49, 99-104).                          *)
ApartConnectsToOwn ==
  apart => /\ "connect" \notin astray
           /\ \A m \in sent : m.of = m.to
           /\ ~crashed

(* If they are used in turn, each connected only while no other is and     *)
(* used and shut down only while connected, then what is opened or         *)
(* disconnected is the caller's own too (MPLSSession.m:40-49, 87-89,       *)
(* 125-135).                                                               *)
InTurnTouchesOwn == inTurn => astray = {}

(* Whatever the calls and their order, a password is in memory only while  *)
(* the object it belongs to is inside its keyboard-interactive call: what  *)
(* one object is answered with is never left from an earlier call          *)
(* (MPLSSession.m:99-104).                                                 *)
NoStalePassword == ppwwdd # Nobody => pc[ppwwdd] \in {"enter", "ask"}
=============================================================================
