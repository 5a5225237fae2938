------------------------ MODULE SharedSessionProofs ------------------------
(***************************************************************************)
(* Proofs about SharedSession, for any number of objects and of sessions.  *)
(***************************************************************************)
EXTENDS SharedSession, TLAPS

(* Where a connect has started its libssh2 session.                        *)
Started == {"calls", "enter", "ask", "granted", "refused"}

(* The strengthening for ApartConnectsToOwn: the one object that is in a   *)
(* call owns the session it is at and the password that is set.            *)
ApartInv ==
  /\ \A s \in Sessions : s > made => startedOn[s] = Nobody
  /\ apart =>
       /\ \A o, p \in Objects : pc[o] # "idle" /\ pc[p] # "idle" => o = p
       /\ \A o \in Objects : pc[o] = "startup" => startedOn[session] = Nobody
       /\ \A o \in Objects : pc[o] \in Started => startedOn[session] = o
       /\ \A o \in Objects : pc[o] \in {"enter", "ask"} => ppwwdd = o
       /\ \A o \in Objects : pc[o] = "ask" => within[o] = session
  /\ ApartConnectsToOwn

(* The strengthening for InTurnTouchesOwn: a connected object is alone, and *)
(* the global session is its own.                                          *)
InTurnInv ==
  /\ inTurn => apart
  /\ inTurn => \A o \in Objects : connected[o] =>
       /\ session # 0 /\ startedOn[session] = o
       /\ \A p \in Objects : pc[p] = "idle" /\ (connected[p] => p = o)
  /\ InTurnTouchesOwn

-----------------------------------------------------------------------------
(* Connect, its calls to MPLSSession and the other calls keep the types    *)
(* (MPSshSession.m:155-380, MPLSSession.m:40-135).                         *)
THEOREM SharedTypeCorrect == Spec => []TypeOK
<1> USE DEF TypeOK, Stage
<1>1. Init => TypeOK
  <2> SUFFICES ASSUME Init PROVE TypeOK
    OBVIOUS
  <2>1. session \in 0 .. MaxSessions /\ made \in 0 .. MaxSessions
        /\ within \in [Objects -> 0 .. MaxSessions]
    BY SharedAssumption DEF Init
  <2>2. connected \in [Objects -> BOOLEAN]
    BY Zenon DEF Init
  <2>3. startedOn \in [Sessions -> Objects \cup {Nobody}]
        /\ pc \in [Objects -> Stage]
    BY DEF Init
  <2>4. \A o \in Objects : pc[o] = "idle"
    BY DEF Init
  <2>5. crashed \in BOOLEAN /\ apart \in BOOLEAN /\ inTurn \in BOOLEAN
    BY Zenon DEF Init
  <2>6. holds \subseteq Objects /\ astray \subseteq {"connect", "use"}
        /\ sent \subseteq [of : Objects, to : Objects \cup {Nobody}]
        /\ session <= made /\ ppwwdd \in Objects \cup {Nobody}
    BY DEF Init
  <2>7. QED BY <2>1, <2>2, <2>3, <2>4, <2>5, <2>6
<1>2. TypeOK /\ [Next]_vars => TypeOK'
  <2> SUFFICES ASSUME TypeOK, [Next]_vars PROVE TypeOK'
    OBVIOUS
  <2> USE DEF globals, libssh2, objects, discipline, Go
  <2>1. ASSUME NEW o, NEW kind \in {"connect", "use"}, Calls(o, kind)
        PROVE  astray' \subseteq {"connect", "use"}
    BY <2>1 DEF Calls
  <2>2. ASSUME NEW o, NEW b, Begins(o, b)
        PROVE  apart' \in BOOLEAN /\ inTurn' \in BOOLEAN
    BY <2>2, Zenon DEF Begins
  <2>3. ASSUME NEW o \in Objects, Connect(o) PROVE TypeOK'
    BY <2>2, <2>3 DEF Connect
  <2>4. ASSUME NEW o \in Objects, SocketFails(o) PROVE TypeOK'
    BY <2>4 DEF SocketFails
  <2>5. ASSUME NEW o \in Objects, NewSession(o) PROVE TypeOK'
    <3>1. made' \in 0 .. MaxSessions /\ session' = made' /\ session' # 0
      BY <2>5, SharedAssumption DEF NewSession
    <3>2. QED BY <2>5, <3>1 DEF NewSession
  <2>6. ASSUME NEW o \in Objects, NEW ok \in BOOLEAN, Startup(o, ok)
        PROVE  TypeOK'
    BY <2>6 DEF Startup
  <2>7. ASSUME NEW o \in Objects, Call(o) \/ Raises(o) PROVE TypeOK'
    BY <2>1, <2>7 DEF Call, Raises
  <2>8. ASSUME NEW o \in Objects, SetPassword(o) PROVE TypeOK'
    BY <2>8 DEF SetPassword
  <2>9. ASSUME NEW o \in Objects, EnterKeyboard(o) PROVE TypeOK'
    BY <2>1, <2>9 DEF EnterKeyboard
  <2>10. ASSUME NEW o \in Objects, Answer(o) PROVE TypeOK'
    <3>1. startedOn[within[o]] \in Objects \cup {Nobody}
      BY <2>10 DEF Answer, Sessions
    <3>2. sent' \subseteq [of : Objects, to : Objects \cup {Nobody}]
      BY <2>10, <3>1 DEF Answer
    <3>3. crashed' \in BOOLEAN
      BY <2>10 DEF Answer
    <3>4. QED BY <2>10, <3>2, <3>3 DEF Answer
  <2>11. ASSUME NEW o \in Objects, NEW ok \in BOOLEAN, LeaveKeyboard(o, ok)
         PROVE  TypeOK'
    <3>1. pc' = [pc EXCEPT ![o] = "granted"]
          \/ pc' = [pc EXCEPT ![o] = "refused"]
      BY <2>11 DEF LeaveKeyboard
    <3>2. within' \in [Objects -> 0 .. MaxSessions]
      BY <2>11, SharedAssumption DEF LeaveKeyboard
    <3>3. QED BY <2>11, <3>1, <3>2 DEF LeaveKeyboard
  <2>12. ASSUME NEW o \in Objects, Authenticated(o) PROVE TypeOK'
    BY <2>1, <2>12 DEF Authenticated
  <2>13. ASSUME NEW o \in Objects, NEW again \in BOOLEAN, Refused(o, again)
         PROVE  TypeOK'
    BY <2>1, <2>13 DEF Refused
  <2>14. ASSUME NEW o \in Objects, NEW shutdown \in BOOLEAN, Use(o, shutdown)
         PROVE  TypeOK'
    <3>1. connected' \in [Objects -> BOOLEAN]
      BY <2>14, Zenon DEF Use
    <3>2. QED BY <2>1, <2>2, <2>14, <3>1 DEF Use
  <2>15. CASE UNCHANGED vars
    BY <2>15 DEF vars
  <2>16. QED
    BY <2>3, <2>4, <2>5, <2>6, <2>7, <2>8, <2>9, <2>10, <2>11, <2>12, <2>13,
       <2>14, <2>15
    DEF Next
<1>3. QED BY <1>1, <1>2, PTL DEF Spec

(* A password is never in memory but during the keyboard-interactive call  *)
(* of its owner, however the calls of several objects interleave           *)
(* (MPLSSession.m:99-104).                                                 *)
THEOREM NoPasswordLeftOver == Spec => []NoStalePassword
<1>1. Init => NoStalePassword
  BY DEF Init, NoStalePassword
<1>2. TypeOK /\ NoStalePassword /\ [Next]_vars => NoStalePassword'
  <2> SUFFICES ASSUME TypeOK, NoStalePassword, [Next]_vars
               PROVE  NoStalePassword'
    OBVIOUS
  <2> /\ DOMAIN pc = Objects /\ ppwwdd \in Objects \cup {Nobody}
      /\ pc \in [Objects -> Stage]
    BY DEF TypeOK
  <2> USE DEF NoStalePassword, globals, Go
  <2>0. CASE UNCHANGED <<pc, ppwwdd>>
    BY <2>0
  <2>1. ASSUME NEW o \in Objects,
               Connect(o) \/ SocketFails(o) \/ NewSession(o) \/ Call(o)
        PROVE  NoStalePassword'
    BY <2>1 DEF Connect, SocketFails, NewSession, Call
  <2>2. ASSUME NEW o \in Objects,
               Raises(o) \/ Answer(o) \/ Authenticated(o)
        PROVE  NoStalePassword'
    BY <2>2 DEF Raises, Answer, Authenticated
  <2>3. ASSUME NEW o \in Objects, SetPassword(o) \/ EnterKeyboard(o)
        PROVE  NoStalePassword'
    BY <2>3 DEF SetPassword, EnterKeyboard
  <2>4. ASSUME NEW o \in Objects, NEW b \in BOOLEAN,
               Startup(o, b) \/ LeaveKeyboard(o, b) \/ Refused(o, b)
                 \/ Use(o, b)
        PROVE  NoStalePassword'
    BY <2>4 DEF Startup, LeaveKeyboard, Refused, Use
  <2>5. QED BY <2>0, <2>1, <2>2, <2>3, <2>4 DEF Next, vars, globals, objects
<1>3. QED BY <1>1, <1>2, SharedTypeCorrect, PTL DEF Spec

-----------------------------------------------------------------------------
LEMMA ApartInvariant == Spec => []ApartInv
<1> USE DEF ApartInv, ApartConnectsToOwn, Started
<1>1. Init => ApartInv
  BY SharedAssumption DEF Init, Sessions
<1>2. TypeOK /\ ApartInv /\ [Next]_vars => ApartInv'
  <2> SUFFICES ASSUME TypeOK, ApartInv, [Next]_vars PROVE ApartInv'
    OBVIOUS
  <2> USE SharedAssumption DEF TypeOK, globals, libssh2, objects, discipline,
          Go, Calls, Own, Begins
  <2>11. ASSUME NEW o \in Objects, Connect(o) PROVE ApartInv'
    <3>1. apart' => apart /\ \A p \in Objects : pc[p] = "idle"
      BY <2>11 DEF Connect
    <3>2. QED BY <2>11, <3>1 DEF Connect
  <2>1. ASSUME NEW o \in Objects, SocketFails(o) \/ Call(o) \/ Raises(o)
        PROVE  ApartInv'
    BY <2>1 DEF SocketFails, Call, Raises
  <2>2. ASSUME NEW o \in Objects, NewSession(o) PROVE ApartInv'
    BY <2>2 DEF NewSession, Sessions
  <2>3. ASSUME NEW o \in Objects, NEW ok \in BOOLEAN, Startup(o, ok)
        PROVE  ApartInv'
    BY <2>3 DEF Startup, Sessions
  <2>4. ASSUME NEW o \in Objects, SetPassword(o) \/ EnterKeyboard(o)
        PROVE  ApartInv'
    BY <2>4 DEF SetPassword, EnterKeyboard
  <2>5. ASSUME NEW o \in Objects, Answer(o) PROVE ApartInv'
    BY <2>5 DEF Answer
  <2>6. ASSUME NEW o \in Objects, NEW ok \in BOOLEAN, LeaveKeyboard(o, ok)
        PROVE  ApartInv'
    BY <2>6 DEF LeaveKeyboard
  <2>7. ASSUME NEW o \in Objects, NEW b \in BOOLEAN,
               Authenticated(o) \/ Refused(o, b)
        PROVE  ApartInv'
    BY <2>7 DEF Authenticated, Refused
  <2>8. ASSUME NEW o \in Objects, NEW b \in BOOLEAN, Use(o, b)
        PROVE  ApartInv'
    BY <2>8 DEF Use
  <2>9. CASE UNCHANGED vars
    BY <2>9 DEF vars
  <2>10. QED
    BY <2>1, <2>2, <2>3, <2>4, <2>5, <2>6, <2>7, <2>8, <2>9, <2>11 DEF Next
<1> HIDE DEF ApartInv, ApartConnectsToOwn, Started
<1>3. QED BY <1>1, <1>2, SharedTypeCorrect, PTL DEF Spec

(* Objects that are called one at a time connect to their own servers and  *)
(* answer them with their own passwords (MPLSSession.m:11-49, 99-104).     *)
THEOREM ApartIsSafe == Spec => []ApartConnectsToOwn
<1>1. ApartInv => ApartConnectsToOwn
  BY DEF ApartInv
<1>2. QED BY <1>1, ApartInvariant, PTL

(* Objects used in turn also open and disconnect nothing of one another    *)
(* (MPLSSession.m:40-49, 87-89, 125-135).                                  *)
THEOREM InTurnIsSafe == Spec => []InTurnTouchesOwn
<1> USE DEF InTurnInv, InTurnTouchesOwn
<1>1. Init => InTurnInv
  BY DEF Init
<1>2. TypeOK /\ ApartInv /\ InTurnInv /\ [Next]_vars => InTurnInv'
  <2> SUFFICES ASSUME TypeOK, ApartInv, InTurnInv, [Next]_vars
               PROVE  InTurnInv'
    OBVIOUS
  <2> /\ DOMAIN pc = Objects /\ DOMAIN connected = Objects
    BY DEF TypeOK
  <2>a. ASSUME inTurn, NEW o \in Objects, pc[o] # "idle"
        PROVE  \A p \in Objects : ~connected[p] /\ (pc[p] # "idle" => p = o)
    BY <2>a DEF ApartInv
  <2>b. ASSUME inTurn, NEW o \in Objects, pc[o] \in Started
        PROVE  Own(o)
    BY <2>b DEF ApartInv, Own, Started, TypeOK
  <2> USE DEF Started, globals, libssh2, objects, discipline, Go, Calls
  <2>1. ASSUME NEW o \in Objects, Connect(o) PROVE InTurnInv'
    <3>1. inTurn' => inTurn /\ apart' /\ \A p \in Objects : ~connected[p]
      BY <2>1 DEF Connect, Begins
    <3>2. QED BY <2>1, <3>1 DEF Connect
  <2>2. ASSUME NEW o \in Objects,
               SocketFails(o) \/ NewSession(o) \/ SetPassword(o)
                 \/ Answer(o)
        PROVE  InTurnInv'
    BY <2>2, <2>a DEF SocketFails, NewSession, SetPassword, Answer
  <2>3. ASSUME NEW o \in Objects, NEW ok \in BOOLEAN, Startup(o, ok)
        PROVE  InTurnInv'
    BY <2>3, <2>a DEF Startup, ApartInv
  <2>4. ASSUME NEW o \in Objects,
               Call(o) \/ Raises(o) \/ EnterKeyboard(o)
        PROVE  InTurnInv'
    BY <2>4, <2>a, <2>b DEF Call, Raises, EnterKeyboard
  <2>5. ASSUME NEW o \in Objects, Authenticated(o) PROVE InTurnInv'
    BY <2>5, <2>a, <2>b DEF Authenticated, Own
  <2>6. ASSUME NEW o \in Objects, NEW b \in BOOLEAN,
               LeaveKeyboard(o, b) \/ Refused(o, b)
        PROVE  InTurnInv'
    BY <2>6, <2>a, <2>b DEF LeaveKeyboard, Refused
  <2>9. ASSUME NEW o \in Objects, NEW b \in BOOLEAN, Use(o, b)
        PROVE  InTurnInv'
    <3>1. inTurn' => /\ inTurn /\ apart' /\ connected[o]
      BY <2>9 DEF Use, Begins
    <3>2. inTurn' => astray' = astray
      BY <2>9, <3>1 DEF Use, Own
    <3>3. \A p \in Objects : connected'[p] => connected[p]
      BY <2>9 DEF Use
    <3>4. UNCHANGED <<session, startedOn, pc>>
      BY <2>9 DEF Use
    <3>5. QED BY <3>1, <3>2, <3>3, <3>4
  <2>7. CASE UNCHANGED vars
    BY <2>7 DEF vars
  <2>8. QED
    BY <2>1, <2>2, <2>3, <2>4, <2>5, <2>6, <2>7, <2>9
    DEF Next
<1>3. InTurnInv => InTurnTouchesOwn
  OBVIOUS
<1> HIDE DEF InTurnInv, InTurnTouchesOwn
<1>4. QED
  BY <1>1, <1>2, <1>3, SharedTypeCorrect, ApartInvariant, PTL DEF Spec
=============================================================================
