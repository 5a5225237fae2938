-------------------------- MODULE SshSessionProofs --------------------------
(***************************************************************************)
(* Proofs about SshSession, for any number of descriptors and of tries.    *)
(***************************************************************************)
EXTENDS SshSession, TLAPS

(* Where connect has a socket of its own, where a libssh2 session started  *)
(* on it, and where a key the delegate accepted.                           *)
Stages == {"notify", "startup", "fingerprint", "list", "publickey",
           "password", "keyboard", "judge", "raised"}
Started == Stages \ {"notify", "startup"}
AfterKey == {"list", "publickey", "password", "keyboard", "judge"}

(* The try under way has its socket open, unless the delegate has shut it  *)
(* down, its key accepted once past the fingerprint, and its user accepted *)
(* once auth is set; connected is set only outside connect, and then all   *)
(* of it holds.                                                            *)
TryInv ==
  /\ connected => pc = "idle" /\ session = tries
  /\ pc \in Stages \/ connected => sock \in Fd /\ tries \in Try
  /\ (pc \in Stages \/ connected) /\ ~meddled => fds[sock] = tries
  /\ pc \in Stages \ {"notify"} => session = tries
  /\ pc \in Started \/ connected => bound[tries] = sock
  /\ pc \in {"socket", "ask"} => tries \in Try
  /\ pc \in AfterKey \/ connected => trusted = tries
  /\ (auth /\ pc \in {"password", "keyboard", "judge"}) \/ connected
       => accepted = tries
  /\ pc = "publickey" => ~auth
  /\ careful => ~meddled

(* A descriptor held by a try is the current one, or that try was lost.    *)
SocketInv ==
  \A f \in Fd : fds[f] \in Try =>
    \/ fds[f] \in lostAtStartup
    \/ f = sock /\ fds[f] = tries /\ (connected \/ pc \in Stages)

(* What the verdicts so far have left in error.                            *)
ErrorInv ==
  /\ pc \notin {"idle", "raised"} => result = "none"
  /\ result = "NO" => /\ error.code # 0 /\ error.try = tries
                      /\ error.code = ERROR_AUTH_FAILED => trusted = tries
  /\ ~auth /\ (\/ pc = "password" /\ "publickey" \in methods
               \/ pc = "keyboard" /\ {"publickey", "password"} \cap methods # {}
               \/ pc = "judge" /\ methods # {})
       => error = [code |-> ERROR_AUTH_FAILED, try |-> tries]
  /\ pc = "ask" => /\ error = [code |-> ERROR_AUTH_FAILED, try |-> tries]
                   /\ trusted = tries

(* What the try under way has achieved: nothing before the key is judged,  *)
(* no user until a method succeeds; and connect has answered only when it  *)
(* is over.                                                                *)
AchievedInv ==
  /\ trusted <= tries /\ accepted <= tries
  /\ pc \in {"socket", "notify", "startup", "fingerprint"} => trusted < tries
  /\ pc # "idle" /\ ~(auth /\ pc \in {"password", "keyboard", "judge"})
       => accepted < tries
  /\ pc \notin {"idle", "raised"} => result = "none"
  /\ pc = "ask" => trusted = tries
  /\ connected => result = "YES"

(* A requested password always has a cause.                                *)
CauseInv == requestPassword => passwordTried

-----------------------------------------------------------------------------
(* The holders differ from one another.                                    *)
LEMMA HoldersDiffer ==
  /\ Free \notin Try /\ Other \notin Try /\ Std \notin Try
  /\ Try \subseteq Holder /\ {Free, Other, Std} \subseteq Holder
  /\ Try \subseteq 0 .. MaxTries /\ 0 \in Fd /\ -1 \notin Fd
  BY SessionAssumption DEF Free, Other, Std, Try, Holder, Fd

(* connectUsingParams:error: and shutdown keep the types                   *)
(* (MPSshSession.m:90-341).                                                *)
THEOREM SessionTypeCorrect == Spec => []TypeOK
<1> USE HoldersDiffer
<1>1. Init => TypeOK
  <2> SUFFICES ASSUME Init PROVE TypeOK
    OBVIOUS
  <2>1. fds \in [Fd -> Holder]
    BY DEF Init
  <2>2. error \in Error
    BY SessionAssumption DEF Init, NoError, Error
  <2>3. session \in 0 .. MaxTries /\ tries \in 0 .. MaxTries
        /\ trusted \in 0 .. MaxTries /\ accepted \in 0 .. MaxTries
    BY SessionAssumption DEF Init
  <2>4. QED BY <2>1, <2>2, <2>3 DEF Init, TypeOK
<1>2. TypeOK /\ [Next]_vars => TypeOK'
  <2> SUFFICES ASSUME TypeOK, [Next]_vars PROVE TypeOK'
    OBVIOUS
  <2> USE SessionAssumption DEF TypeOK, appVars, libssh2, history, ReturnNO
  <2>1. ASSUME FillError(100) \/ FillError(ERROR_AUTH_FAILED)
        PROVE  error' \in Error
    BY <2>1 DEF FillError, Error
  <2>2. ASSUME CloseSock
        PROVE  fds' \in [Fd -> Holder] /\ foreign' \in BOOLEAN
    <3>1. fds' \in [Fd -> Holder]
      BY <2>2 DEF CloseSock
    <3>2. foreign' \in BOOLEAN
      BY <2>2, Zenon DEF CloseSock, Sends
    <3>3. QED BY <3>1, <3>2
  <2>3. CASE Connect
    BY <2>3 DEF Connect, NoError, Error
  <2>4. CASE SocketFails
    BY <2>1, <2>4 DEF SocketFails
  <2>5. CASE SocketOpens
    <3>1. tries \in Holder
      BY DEF Holder
    <3>2. fds' \in [Fd -> Holder] /\ sock' \in Fd
      BY <2>5, <3>1 DEF SocketOpens
    <3>3. QED BY <2>5, <3>2 DEF SocketOpens
  <2>6. ASSUME StartupCall
        PROVE  bound' \in [Try -> Fd \cup {-1}] /\ foreign' \in BOOLEAN
    <3>1. bound' \in [Try -> Fd \cup {-1}]
      BY <2>6 DEF StartupCall
    <3>2. foreign' \in BOOLEAN
      BY <2>6, Zenon DEF StartupCall
    <3>3. QED BY <3>1, <3>2
  <2>7. ASSUME NEW t, Sends(t) PROVE foreign' \in BOOLEAN
    BY <2>7, Zenon DEF Sends
  <2>21. CASE StartupFails
    <3>1. lostAtStartup' \subseteq 0 .. MaxTries
      BY <2>21 DEF StartupFails
    <3>2. StartupCall
      BY <2>21 DEF StartupFails
    <3>3. QED BY <2>1, <2>6, <2>21, <3>1, <3>2 DEF StartupFails
  <2>22. CASE NewSession
    BY <2>22 DEF NewSession
  <2>23. CASE StartupSucceeds
    <3>1. StartupCall
      BY <2>23 DEF StartupSucceeds
    <3>2. pc = "startup"
      BY <3>1, Zenon DEF StartupCall
    <3>3. pc' = "fingerprint" /\ opened' = opened
          /\ UNCHANGED <<fds, appVars, tries, methods, auth, history>>
      BY <2>23 DEF StartupSucceeds
    <3>4. QED BY <2>6, <3>1, <3>2, <3>3
  <2>24. CASE FingerprintAccepted
    BY <2>24 DEF FingerprintAccepted
  <2>25. CASE DelegateShutsDown
    <3>1. pc \in {"notify", "fingerprint", "ask", "judge"}
      BY <2>25, Zenon DEF DelegateShutsDown
    <3>2. CloseSock /\ connected' = FALSE /\ careful' = FALSE
          /\ meddled' = TRUE
      BY <2>25, Zenon DEF DelegateShutsDown
    <3>3. QED BY <2>2, <2>25, <3>1, <3>2 DEF DelegateShutsDown
  <2>26. CASE OpenOnSession
    <3>1. session \in Try
      BY <2>26 DEF OpenOnSession, Try
    <3>5. opened' \subseteq Try
      BY <2>26, <3>1, Zenon DEF OpenOnSession
    <3>2. careful' \in BOOLEAN
      BY <2>26, Zenon DEF OpenOnSession
    <3>3. Sends(session)
      BY <2>26, Zenon DEF OpenOnSession
    <3>4. QED BY <2>7, <2>26, <3>2, <3>3, <3>5 DEF OpenOnSession
  <2>27. ASSUME NEW t \in Try, Release(t) PROVE TypeOK'
    <3>1. opened' \subseteq Try
      BY <2>27 DEF Release
    <3>2. careful' \in BOOLEAN
      BY <2>27, Zenon DEF Release
    <3>3. QED BY <2>7, <2>27, <3>1, <3>2 DEF Release
  <2>8. CASE FingerprintRejected
    BY <2>1, <2>2, <2>8 DEF FingerprintRejected
  <2>9. CASE ListMethods \/ ListRaises
    BY <2>7, <2>9 DEF ListMethods, ListRaises
  <2>10. ASSUME NEW ok \in BOOLEAN, TryPublicKey(ok) PROVE TypeOK'
    <3>1. error' \in Error
      BY <2>1, <2>10, Zenon DEF TryPublicKey, Verdict
    <3>2. accepted' \in 0 .. MaxTries
      BY <2>10 DEF TryPublicKey, Verdict
    <3>3. auth' \in BOOLEAN /\ requestPassphrase' \in BOOLEAN
      BY <2>10, Zenon DEF TryPublicKey, Verdict
    <3>4. foreign' \in BOOLEAN
      BY <2>7, <2>10, Zenon DEF TryPublicKey, Verdict
    <3>5. QED BY <2>10, <3>1, <3>2, <3>3, <3>4 DEF TryPublicKey
  <2>11. ASSUME NEW ok \in BOOLEAN, TryPassword(ok) PROVE TypeOK'
    <3>1. error' \in Error
      BY <2>1, <2>11, Zenon DEF TryPassword, Verdict
    <3>2. accepted' \in 0 .. MaxTries
      BY <2>11 DEF TryPassword, Verdict
    <3>3. auth' \in BOOLEAN /\ requestPassword' \in BOOLEAN
      BY <2>11, Zenon DEF TryPassword, Verdict
    <3>4. foreign' \in BOOLEAN
      BY <2>7, <2>11, Zenon DEF TryPassword, Verdict
    <3>5. QED BY <2>11, <3>1, <3>2, <3>3, <3>4 DEF TryPassword
  <2>12. ASSUME NEW ok \in BOOLEAN, TryKeyboard(ok) PROVE TypeOK'
    <3>1. error' \in Error
      BY <2>1, <2>12, Zenon DEF TryKeyboard, Verdict
    <3>2. accepted' \in 0 .. MaxTries
      BY <2>12 DEF TryKeyboard, Verdict
    <3>3. auth' \in BOOLEAN /\ requestPassword' \in BOOLEAN
      BY <2>12, Zenon DEF TryKeyboard, Verdict
    <3>4. foreign' \in BOOLEAN
      BY <2>7, <2>12, Zenon DEF TryKeyboard, Verdict
    <3>5. QED BY <2>12, <3>1, <3>2, <3>3, <3>4 DEF TryKeyboard
  <2>13. CASE AuthFails
    BY <2>1, <2>2, <2>13 DEF AuthFails
  <2>14. CASE PasswordGiven
    <3>1. tries' \in 0 .. MaxTries /\ tries' # 0
      BY <2>14 DEF PasswordGiven
    <3>2. CloseSock /\ connected' = FALSE /\ careful' = FALSE /\ pc' = "socket"
      BY <2>14, Zenon DEF PasswordGiven
    <3>3. QED BY <2>2, <2>14, <3>1, <3>2 DEF PasswordGiven
  <2>15. CASE NoPassword \/ Authenticated
    BY <2>15 DEF NoPassword, Authenticated
  <2>16. CASE Shutdown
    BY <2>2, <2>16 DEF Shutdown
  <2>17. CASE NewParams
    BY <2>17 DEF NewParams
  <2>18. CASE OtherOpens \/ OtherCloses
    <3>1. fds' \in [Fd -> Holder]
      BY <2>18 DEF OtherOpens, OtherCloses
    <3>2. UNCHANGED <<appVars, pc, tries, methods, auth, libssh2, history,
                      foreign>>
      BY <2>18 DEF OtherOpens, OtherCloses
    <3>3. QED BY <3>1, <3>2
  <2>19. CASE UNCHANGED vars
    BY <2>19 DEF vars
  <2>20. QED
    BY <2>3, <2>4, <2>5, <2>6, <2>7, <2>8, <2>9, <2>10, <2>11, <2>12, <2>13,
       <2>14, <2>15, <2>16, <2>17, <2>18, <2>19, <2>21, <2>22, <2>23, <2>24,
       <2>25, <2>26, <2>27
    DEF Next
<1>3. QED BY <1>1, <1>2, PTL DEF Spec

-----------------------------------------------------------------------------
LEMMA TryInvariant == Spec => []TryInv
<1> USE HoldersDiffer DEF TryInv, Stages, Started, AfterKey
<1>1. Init => TryInv
  BY DEF Init
<1>2. TypeOK /\ TryInv /\ [Next]_vars => TryInv'
  <2> SUFFICES ASSUME TypeOK, TryInv, [Next]_vars PROVE TryInv'
    OBVIOUS
  <2> USE DEF TypeOK, appVars, libssh2, history, ReturnNO
  <2>1. CASE Connect
    BY <2>1, SessionAssumption DEF Connect, Try
  <2>2. CASE SocketFails \/ SocketOpens
    BY <2>2 DEF SocketFails, SocketOpens
  <2>3. CASE StartupFails \/ StartupSucceeds
    BY <2>3 DEF StartupFails, StartupSucceeds, StartupCall
  <2>4. CASE NewSession
    BY <2>4 DEF NewSession
  <2>5. CASE FingerprintRejected \/ FingerprintAccepted
    BY <2>5 DEF FingerprintRejected, FingerprintAccepted
  <2>6. CASE ListMethods \/ ListRaises
    BY <2>6 DEF ListMethods, ListRaises
  <2>7. ASSUME NEW ok \in BOOLEAN, TryPublicKey(ok) PROVE TryInv'
    BY <2>7 DEF TryPublicKey, Verdict
  <2>8. ASSUME NEW ok \in BOOLEAN, TryPassword(ok) PROVE TryInv'
    BY <2>8 DEF TryPassword, Verdict
  <2>9. ASSUME NEW ok \in BOOLEAN, TryKeyboard(ok) PROVE TryInv'
    BY <2>9 DEF TryKeyboard, Verdict
  <2>10. CASE AuthFails \/ NoPassword
    BY <2>10 DEF AuthFails, NoPassword
  <2>11. CASE PasswordGiven
    BY <2>11, SessionAssumption DEF PasswordGiven, Try
  <2>12. CASE Authenticated
    BY <2>12 DEF Authenticated
  <2>13. CASE Shutdown \/ NewParams
    BY <2>13 DEF Shutdown, NewParams
  <2>14. CASE DelegateShutsDown
    BY <2>14 DEF DelegateShutsDown
  <2>15. CASE OpenOnSession \/ \E t \in Try : Release(t)
    BY <2>15 DEF OpenOnSession, Release
  <2>16. CASE OtherOpens
    BY <2>16 DEF OtherOpens, Lowest
  <2>17. CASE OtherCloses
    BY <2>17 DEF OtherCloses
  <2>18. CASE UNCHANGED vars
    BY <2>18 DEF vars
  <2>19. QED
    BY <2>1, <2>2, <2>3, <2>4, <2>5, <2>6, <2>7, <2>8, <2>9, <2>10, <2>11,
       <2>12, <2>13, <2>14, <2>15, <2>16, <2>17, <2>18
    DEF Next
<1> HIDE DEF TryInv, Stages, Started, AfterKey
<1>3. QED BY <1>1, <1>2, SessionTypeCorrect, PTL DEF Spec

(* While connected is set the session has its own open socket, a key the   *)
(* delegate accepted and a user the server accepted, all of one try,       *)
(* unless the delegate shut it down meanwhile (MPSshSession.m:231-341).    *)
THEOREM ConnectedMeansConnected == Spec => []ConnectedIsReal
<1>1. TryInv => ConnectedIsReal
  BY HoldersDiffer DEF TryInv, ConnectedIsReal
<1>2. QED BY <1>1, TryInvariant, PTL

(* An application that shuts down only what is connected, whose delegate   *)
(* gives no second password, and that uses what a session opened while the *)
(* session is connected, closes no descriptor of somebody else and sends   *)
(* nothing to one (MPSshSession.m:332-341 and its callers).                *)
THEOREM CarefulIsSafe == Spec => []CarefulTouchesOwn
<1> USE DEF CarefulTouchesOwn
<1>1. Init => CarefulTouchesOwn
  BY DEF Init
<1>2. TypeOK /\ TryInv /\ CarefulTouchesOwn /\ [Next]_vars
        => CarefulTouchesOwn'
  <2> SUFFICES ASSUME TypeOK, TryInv, CarefulTouchesOwn, [Next]_vars, careful'
               PROVE  ~foreign'
    OBVIOUS
  <2>1. careful /\ ~foreign /\ ~meddled
    BY DEF TypeOK, TryInv, Next, vars, Connect, Shutdown, DelegateShutsDown,
       NewParams, OpenOnSession, Release, SocketFails, SocketOpens,
       NewSession, StartupFails, StartupSucceeds, FingerprintRejected,
       FingerprintAccepted, ListMethods, ListRaises, TryPublicKey,
       TryPassword, TryKeyboard, AuthFails, PasswordGiven, NoPassword,
       Authenticated, OtherOpens, OtherCloses, history
  <2>2. ASSUME pc \in Started \/ connected PROVE ~Misdirected(session)
    BY <2>1, <2>2 DEF Misdirected, TryInv, Stages, Started
  <2>3. ASSUME CloseSock, pc \in Started \/ connected PROVE ~foreign'
    <3>1. fds[sock] \in Try
      BY <2>1, <2>3 DEF TryInv, Started
    <3>2. QED BY <2>1, <2>2, <2>3, <3>1, HoldersDiffer DEF CloseSock, Sends
  <2>4. ASSUME Sends(session), pc \in Started \/ connected PROVE ~foreign'
    BY <2>1, <2>2, <2>4 DEF Sends
  <2>5. CASE FingerprintRejected \/ AuthFails
    BY <2>3, <2>5 DEF FingerprintRejected, AuthFails, Started, Stages
  <2>6. CASE Shutdown
    BY <2>3, <2>6 DEF Shutdown
  <2>7. CASE PasswordGiven \/ DelegateShutsDown
    BY <2>7 DEF PasswordGiven, DelegateShutsDown
  <2>8. CASE StartupFails \/ StartupSucceeds
    BY <2>1, <2>8
    DEF StartupFails, StartupSucceeds, StartupCall, TryInv, Stages
  <2>9. CASE ListMethods \/ ListRaises
    BY <2>4, <2>9 DEF ListMethods, ListRaises, Started, Stages
  <2>10. ASSUME NEW ok \in BOOLEAN,
                TryPublicKey(ok) \/ TryPassword(ok) \/ TryKeyboard(ok)
         PROVE  ~foreign'
    <3>1. pc \in Started
      BY <2>10
      DEF TryPublicKey, TryPassword, TryKeyboard, Started, Stages
    <3>2. Sends(session) \/ foreign' = foreign
      BY <2>10 DEF TryPublicKey, TryPassword, TryKeyboard, Verdict
    <3>3. QED BY <2>1, <2>4, <3>1, <3>2
  <2>11. CASE OpenOnSession
    BY <2>4, <2>11 DEF OpenOnSession
  <2>12. ASSUME NEW t \in Try, Release(t) PROVE ~foreign'
    BY <2>4, <2>12 DEF Release
  <2>13. CASE foreign' = foreign
    BY <2>1, <2>13
  <2>14. QED
    BY <2>5, <2>6, <2>7, <2>8, <2>9, <2>10, <2>11, <2>12, <2>13
    DEF Next, vars, Connect, NewParams, SocketFails, SocketOpens, NewSession,
        FingerprintAccepted, NoPassword, Authenticated, OtherOpens,
        OtherCloses
<1>3. QED BY <1>1, <1>2, SessionTypeCorrect, TryInvariant, PTL DEF Spec

(* But for the tries lost at the SSH handshake (MPSshSession.m:278-285),   *)
(* only the try under way or connected has a socket, and it is sock.       *)
THEOREM SocketsAccountedFor == Spec => []SocketLeftOnlyAtStartup
<1> USE HoldersDiffer DEF SocketInv, Stages
<1>1. Init => SocketInv
  BY DEF Init
<1>2. TypeOK /\ TryInv /\ SocketInv /\ [Next]_vars => SocketInv'
  <2> SUFFICES ASSUME TypeOK, TryInv, SocketInv, [Next]_vars
               PROVE  SocketInv'
    OBVIOUS
  <2> USE DEF TypeOK, TryInv, appVars, libssh2, history, ReturnNO
  <2>1. CASE Connect \/ SocketFails \/ NoPassword \/ NewParams \/ NewSession
    BY <2>1 DEF Connect, SocketFails, NoPassword, NewParams, NewSession
  <2>2. CASE SocketOpens
    BY <2>2 DEF SocketOpens
  <2>3. CASE StartupFails \/ StartupSucceeds
    BY <2>3 DEF StartupFails, StartupSucceeds, StartupCall
  <2>4. CASE FingerprintRejected
    BY <2>4 DEF FingerprintRejected, CloseSock
  <2>5. CASE FingerprintAccepted \/ ListMethods \/ ListRaises
    BY <2>5 DEF FingerprintAccepted, ListMethods, ListRaises
  <2>6. ASSUME NEW ok \in BOOLEAN,
               TryPublicKey(ok) \/ TryPassword(ok) \/ TryKeyboard(ok)
        PROVE  SocketInv'
    BY <2>6 DEF TryPublicKey, TryPassword, TryKeyboard
  <2>7. CASE AuthFails
    BY <2>7 DEF AuthFails, CloseSock
  <2>8. CASE PasswordGiven
    BY <2>8 DEF PasswordGiven, CloseSock
  <2>9. CASE Authenticated
    BY <2>9 DEF Authenticated
  <2>10. CASE Shutdown
    BY <2>10 DEF Shutdown, CloseSock
  <2>11. CASE OtherOpens \/ OtherCloses
    BY <2>11 DEF OtherOpens, OtherCloses
  <2>12. CASE DelegateShutsDown
    BY <2>12 DEF DelegateShutsDown, CloseSock
  <2>13. CASE OpenOnSession \/ \E t \in Try : Release(t)
    BY <2>13 DEF OpenOnSession, Release
  <2>14. CASE UNCHANGED vars
    BY <2>14 DEF vars
  <2>15. QED
    BY <2>1, <2>2, <2>3, <2>4, <2>5, <2>6, <2>7, <2>8, <2>9, <2>10, <2>11,
       <2>12, <2>13, <2>14
    DEF Next
<1>3. SocketInv => SocketLeftOnlyAtStartup
  BY Zenon DEF SocketLeftOnlyAtStartup
<1>4. QED
  BY <1>1, <1>2, <1>3, SessionTypeCorrect, TryInvariant, PTL DEF Spec

(* A failed key alone never makes connect ask for a password               *)
(* (MPSshSession.m:198-217 and 297-299).                                   *)
THEOREM AskedWithCause == Spec => []AskedForCause
<1> USE DEF CauseInv
<1>1. Init => CauseInv
  BY DEF Init
<1>2. CauseInv /\ [Next]_vars => CauseInv'
  <2> SUFFICES ASSUME CauseInv, [Next]_vars PROVE CauseInv'
    OBVIOUS
  <2> USE DEF appVars, history
  <2>1. ASSUME NEW ok \in BOOLEAN,
               TryPublicKey(ok) \/ TryPassword(ok) \/ TryKeyboard(ok)
        PROVE  CauseInv'
    BY <2>1 DEF TryPublicKey, TryPassword, TryKeyboard
  <2>2. CASE NewParams
    BY <2>2 DEF NewParams
  <2>3. CASE UNCHANGED <<requestPassword, passwordTried>>
    BY <2>3
  <2>4. QED
    BY <2>1, <2>2, <2>3
    DEF Next, Connect, Shutdown, DelegateShutsDown, OpenOnSession, Release,
        SocketFails, SocketOpens, NewSession, StartupFails, StartupSucceeds,
        FingerprintRejected, FingerprintAccepted, ListMethods, ListRaises,
        AuthFails, PasswordGiven, NoPassword, Authenticated, OtherOpens,
        OtherCloses, vars
<1>3. CauseInv => AskedForCause
  BY DEF AskedForCause
<1>4. QED BY <1>1, <1>2, <1>3, PTL DEF Spec

-----------------------------------------------------------------------------
(* NO comes with an error, of the last try, and with 101 only when that    *)
(* try got as far as authentication (MPSshSession.m:155-229 and 265-316).  *)
THEOREM NoComesWithError == Spec => []NoHasItsError
<1> USE DEF ErrorInv, ERROR_AUTH_FAILED
<1>1. Init => ErrorInv
  BY DEF Init
<1>2. TypeOK /\ TryInv /\ ErrorInv /\ [Next]_vars => ErrorInv'
  <2> SUFFICES ASSUME TypeOK, TryInv, ErrorInv, [Next]_vars
               PROVE  ErrorInv'
    OBVIOUS
  <2> USE DEF TypeOK, TryInv, Stages, AfterKey, appVars, libssh2, history,
          ReturnNO, FillError
  <2>1. CASE Connect
    BY <2>1 DEF Connect
  <2>2. CASE SocketFails \/ SocketOpens \/ StartupFails \/ StartupSucceeds
    BY <2>2 DEF SocketFails, SocketOpens, StartupFails, StartupSucceeds,
       StartupCall
  <2>3. CASE FingerprintRejected \/ FingerprintAccepted
    BY <2>3 DEF FingerprintRejected, FingerprintAccepted
  <2>4. CASE ListMethods \/ ListRaises
    BY <2>4 DEF ListMethods, ListRaises
  <2>5. ASSUME NEW ok \in BOOLEAN, TryPublicKey(ok) PROVE ErrorInv'
    BY <2>5 DEF TryPublicKey, Verdict
  <2>6. ASSUME NEW ok \in BOOLEAN, TryPassword(ok) PROVE ErrorInv'
    BY <2>6 DEF TryPassword, Verdict
  <2>7. ASSUME NEW ok \in BOOLEAN, TryKeyboard(ok) PROVE ErrorInv'
    BY <2>7 DEF TryKeyboard, Verdict, Method
  <2>8. CASE AuthFails
    BY <2>8 DEF AuthFails
  <2>9. CASE PasswordGiven \/ NoPassword
    BY <2>9 DEF PasswordGiven, NoPassword
  <2>10. CASE Authenticated \/ Shutdown \/ NewParams
    BY <2>10 DEF Authenticated, Shutdown, NewParams
  <2>11. CASE OtherOpens \/ OtherCloses
    BY <2>11 DEF OtherOpens, OtherCloses
  <2>12. CASE NewSession \/ DelegateShutsDown
    BY <2>12 DEF NewSession, DelegateShutsDown
  <2>13. CASE OpenOnSession \/ \E t \in Try : Release(t)
    BY <2>13 DEF OpenOnSession, Release
  <2>14. CASE UNCHANGED vars
    BY <2>14 DEF vars
  <2>15. QED
    BY <2>1, <2>2, <2>3, <2>4, <2>5, <2>6, <2>7, <2>8, <2>9, <2>10, <2>11,
       <2>12, <2>13, <2>14
    DEF Next
<1>3. ErrorInv => NoHasItsError
  BY DEF NoHasItsError
<1>4. QED
  BY <1>1, <1>2, <1>3, SessionTypeCorrect, TryInvariant, PTL DEF Spec

-----------------------------------------------------------------------------
LEMMA AchievedInvariant == Spec => []AchievedInv
<1> USE DEF AchievedInv
<1>1. Init => AchievedInv
  BY DEF Init
<1>2. TypeOK /\ TryInv /\ AchievedInv /\ [Next]_vars => AchievedInv'
  <2> SUFFICES ASSUME TypeOK, TryInv, AchievedInv, [Next]_vars
               PROVE  AchievedInv'
    OBVIOUS
  <2> USE SessionAssumption
      DEF TypeOK, TryInv, Stages, AfterKey, appVars, libssh2, history, ReturnNO
  <2>1. CASE Connect
    BY <2>1 DEF Connect
  <2>2. CASE SocketFails \/ SocketOpens \/ NewSession
    BY <2>2 DEF SocketFails, SocketOpens, NewSession
  <2>3. CASE StartupFails \/ StartupSucceeds
    BY <2>3 DEF StartupFails, StartupSucceeds, StartupCall
  <2>4. CASE FingerprintRejected \/ FingerprintAccepted
    BY <2>4 DEF FingerprintRejected, FingerprintAccepted
  <2>5. CASE ListMethods \/ ListRaises
    BY <2>5 DEF ListMethods, ListRaises
  <2>6. ASSUME NEW ok \in BOOLEAN,
               TryPublicKey(ok) \/ TryPassword(ok) \/ TryKeyboard(ok)
        PROVE  AchievedInv'
    BY <2>6 DEF TryPublicKey, TryPassword, TryKeyboard, Verdict
  <2>7. CASE AuthFails \/ NoPassword \/ Authenticated
    BY <2>7 DEF AuthFails, NoPassword, Authenticated
  <2>8. CASE PasswordGiven
    BY <2>8 DEF PasswordGiven
  <2>9. CASE Shutdown \/ DelegateShutsDown \/ NewParams
    BY <2>9 DEF Shutdown, DelegateShutsDown, NewParams
  <2>10. CASE OpenOnSession \/ \E t \in Try : Release(t)
    BY <2>10 DEF OpenOnSession, Release
  <2>11. CASE OtherOpens \/ OtherCloses
    BY <2>11 DEF OtherOpens, OtherCloses
  <2>12. CASE UNCHANGED vars
    BY <2>12 DEF vars
  <2>13. QED
    BY <2>1, <2>2, <2>3, <2>4, <2>5, <2>6, <2>7, <2>8, <2>9, <2>10, <2>11,
       <2>12
    DEF Next
<1>3. QED BY <1>1, <1>2, SessionTypeCorrect, TryInvariant, PTL DEF Spec

(* Whatever connect and shutdown do, who sees only the stages sees them in *)
(* order: key, user, YES, each of this very try (MPSshSession.m:140-330).  *)
THEOREM SessionImplementsConnection == Spec => ConnectionSpec
<1>1. Init => Stage!Init
  BY DEF Init, Stage!Init, State
<1>2. ASSUME TypeOK, TryInv, AchievedInv, [Next]_vars
      PROVE  [Stage!Next]_(Stage!vars)
  <2> USE <1>2
      DEF TypeOK, TryInv, AchievedInv, Stages, AfterKey, appVars, libssh2,
          history, ReturnNO, State, Stage!vars
  <2>1. CASE Connect
    BY <2>1 DEF Connect, Stage!Next, Stage!Begin
  <2>2. CASE SocketOpens \/ NewSession \/ StartupSucceeds \/ ListMethods
    BY <2>2
    DEF SocketOpens, NewSession, StartupSucceeds, StartupCall, ListMethods
  <2>3. CASE \/ SocketFails \/ StartupFails \/ FingerprintRejected
             \/ ListRaises \/ NoPassword
    <3>1. Stage!GiveUp
      BY <2>3
      DEF SocketFails, StartupFails, StartupCall, FingerprintRejected,
          ListRaises, NoPassword, Stage!GiveUp
    <3>2. QED BY <3>1 DEF Stage!Next
  <2>4. CASE FingerprintAccepted
    <3>1. Stage!AcceptKey
      BY <2>4 DEF FingerprintAccepted, Stage!AcceptKey
    <3>2. QED BY <3>1 DEF Stage!Next
  <2>5. ASSUME NEW ok \in BOOLEAN,
               TryPublicKey(ok) \/ TryPassword(ok) \/ TryKeyboard(ok)
        PROVE  [Stage!Next]_(Stage!vars)
    <3>1. /\ pc \in {"publickey", "password", "keyboard"}
          /\ pc' \in {"password", "keyboard", "judge"}
          /\ UNCHANGED <<connected, session, result, tries, trusted>>
          /\ accepted' \in {session, accepted}
      BY <2>5 DEF TryPublicKey, TryPassword, TryKeyboard, Verdict
    <3>2. accepted' = session /\ accepted # session => accepted < tries
      BY <3>1
    <3>3. CASE accepted' = accepted
      BY <3>1, <3>3
    <3>4. CASE accepted' = session /\ accepted # session
      <4>1. Stage!AcceptUser
        BY <3>1, <3>2, <3>4 DEF Stage!AcceptUser
      <4>2. QED BY <4>1 DEF Stage!Next
    <3>5. QED BY <3>1, <3>3, <3>4
  <2>6. CASE Authenticated
    <3>1. Stage!Succeed
      BY <2>6 DEF Authenticated, Stage!Succeed
    <3>2. QED BY <3>1 DEF Stage!Next
  <2>7. CASE PasswordGiven
    <3>1. Stage!Retry
      BY <2>7 DEF PasswordGiven, Stage!Retry
    <3>2. QED BY <3>1 DEF Stage!Next
  <2>8. CASE Shutdown
    BY <2>8 DEF Shutdown, Stage!Next, Stage!Close
  <2>9. CASE AuthFails \/ DelegateShutsDown
    BY <2>9 DEF AuthFails, DelegateShutsDown
  <2>10. CASE \/ NewParams \/ OpenOnSession \/ \E t \in Try : Release(t)
              \/ OtherOpens \/ OtherCloses
    BY <2>10 DEF NewParams, OpenOnSession, Release, OtherOpens, OtherCloses
  <2>11. CASE UNCHANGED vars
    BY <2>11 DEF vars
  <2>12. QED
    BY <2>1, <2>2, <2>3, <2>4, <2>5, <2>6, <2>7, <2>8, <2>9, <2>10, <2>11
    DEF Next
<1>3. QED
  BY <1>1, <1>2, SessionTypeCorrect, TryInvariant, AchievedInvariant, PTL
  DEF Spec, ConnectionSpec, Stage!Spec
=============================================================================
