------------------------- MODULE WhatsappLinkProofs -------------------------
(***************************************************************************)
(* For every set of sockets, every limit of attempts, every threshold of   *)
(* the breaker, every bound on what is under way and every choice of       *)
(* faults: the invariants that the run of WhatsappLink checks.             *)
(***************************************************************************)
EXTENDS WhatsappLink, FiniteSetTheorems, TLAPS

-----------------------------------------------------------------------------
(***************************************************************************)
(* What the shared parts of the handlers do.                               *)
(***************************************************************************)
\* scheduleReconnect leaves one timer, or gives up at the limit
\* (whatsapp.service.ts:216-234).
LEMMA ReconnectFacts ==
    ASSUME TypeOK, NEW attempts \in 0..MaxAttempts, Reconnect(attempts)
    PROVE  /\ timers' \in 0..1
           /\ reconnectAttempts' \in 0..MaxAttempts
           /\ abandoned' \in BOOLEAN
           /\ timers' = 1 \/ reconnectAttempts' = MaxAttempts
           /\ timers' = 1 \/ timers' = timers
<1> USE BoundsAssumption
<1>1. CASE attempts >= MaxAttempts
  <2>1. /\ reconnectAttempts' = attempts
        /\ timers' = timers
        /\ abandoned' = abandoned
    BY <1>1 DEF Reconnect
  <2>2. attempts = MaxAttempts
    BY <1>1
  <2> QED
    BY <2>1, <2>2 DEF TypeOK
<1>2. CASE ~(attempts >= MaxAttempts)
  <2>1. /\ reconnectAttempts' = attempts + 1
        /\ timers' = 1
        /\ abandoned' = FALSE
    BY <1>2 DEF Reconnect
  <2>2. attempts + 1 \in 0..MaxAttempts
    BY <1>2
  <2>3. abandoned' \in BOOLEAN
    BY <2>1, Zenon
  <2> QED
    BY <2>1, <2>2, <2>3
<1> QED
  BY <1>1, <1>2

\* handleLogout starts the count again, so that a timer always runs
\* (whatsapp.service.ts:202-214).
LEMMA ReconnectAnew ==
    ASSUME TypeOK, Reconnect(0)
    PROVE  timers' = 1
BY BoundsAssumption DEF Reconnect

LEMMA ClosedBreakerType == ClosedBreaker \in Breaker
BY BoundsAssumption DEF ClosedBreaker, Breaker

\* A failure is counted up to the threshold (whatsapp.service.ts:387-404).
LEMMA WithFailureType ==
    ASSUME NEW b \in Breaker
    PROVE  WithFailure(b) \in Breaker
<1>1. b.failures \in 0..Threshold /\ b.isOpen \in BOOLEAN
  BY DEF Breaker
<1>2. (IF b.failures < Threshold THEN b.failures + 1 ELSE b.failures)
      \in 0..Threshold
  BY <1>1, BoundsAssumption
<1>3. (b.isOpen \/ b.failures + 1 >= Threshold) \in BOOLEAN
  BY Zenon
<1> QED
  BY <1>2, <1>3 DEF WithFailure, Breaker

LEMMA CheckedType == TypeOK => Checked \in Breaker
BY ClosedBreakerType DEF TypeOK, Checked

\* A socket that ends leaves the others as they are.
LEMMA DiesFacts ==
    ASSUME TypeOK, NEW s \in Sockets, Dies(s)
    PROVE  /\ life' \in [Sockets -> {"none", "connecting", "open"}]
           /\ listening' \subseteq Sockets
           /\ life'[s] = "none"
           /\ \A r \in Sockets \ {s} :
                 life'[r] = life[r] /\ (r \in listening' <=> r \in listening)
BY DEF TypeOK, Dies

-----------------------------------------------------------------------------
(***************************************************************************)
(* Types.                                                                  *)
(***************************************************************************)
LEMMA TypeInit == Init => TypeOK
<1> SUFFICES ASSUME Init PROVE TypeOK
  OBVIOUS
<1>1. /\ isReady \in BOOLEAN /\ currentQR \in BOOLEAN /\ overlap \in BOOLEAN
      /\ abandoned \in BOOLEAN /\ refused \in BOOLEAN
  BY Zenon DEF Init
<1>2. breaker \in Breaker
  BY ClosedBreakerType DEF Init
<1>3. /\ fetching \in Nat /\ timers \in 0..1 /\ logouts \in Nat
      /\ sends \in 0..SendBound /\ reconnectAttempts \in 0..MaxAttempts
  BY BoundsAssumption DEF Init
<1>4. /\ sock \in Sockets \union {None} /\ leaving \in Sockets \union {None}
      /\ listening \subseteq Sockets
      /\ life \in [Sockets -> {"none", "connecting", "open"}]
  BY DEF Init
<1> QED
  BY <1>1, <1>2, <1>3, <1>4 DEF TypeOK

LEMMA TypeNext == TypeOK /\ [Next]_vars => TypeOK'
<1> SUFFICES ASSUME TypeOK, [Next]_vars PROVE TypeOK'
  OBVIOUS
<1> USE DEF socketVars, stateVars, retryVars, logoutVars, callVars
<1>1. CASE TimerFires
  BY <1>1 DEF TypeOK, TimerFires
<1>2. CASE MakeSocket
  BY <1>2 DEF TypeOK, MakeSocket
<1>3. CASE ConnectFails
  BY <1>3, ReconnectFacts DEF TypeOK, ConnectFails
<1>4. ASSUME NEW s \in Sockets, ShowQR(s) PROVE TypeOK'
  BY <1>4 DEF TypeOK, ShowQR
<1>5. ASSUME NEW s \in Sockets, Open(s) PROVE TypeOK'
  <2>1. life' \in [Sockets -> {"none", "connecting", "open"}]
    BY <1>5 DEF TypeOK, Open
  <2>2. /\ isReady' \in BOOLEAN /\ currentQR' \in BOOLEAN
        /\ refused' \in BOOLEAN
    BY <1>5, Zenon DEF TypeOK, Open, Connected
  <2>3. reconnectAttempts' \in 0..MaxAttempts /\ breaker' \in Breaker
    BY <1>5, BoundsAssumption, ClosedBreakerType
    DEF TypeOK, Open, Connected
  <2> QED
    BY <1>5, <2>1, <2>2, <2>3 DEF TypeOK, Open
<1>6. ASSUME NEW s \in Sockets, Close(s) PROVE TypeOK'
  <2>1. Dies(s)
    BY <1>6 DEF Close
  <2> QED
    BY <1>6, <2>1, DiesFacts, ReconnectFacts
    DEF TypeOK, Close, Disconnected
<1>7. ASSUME NEW s \in Sockets, CloseLoggedOut(s) PROVE TypeOK'
  <2>1. Dies(s)
    BY <1>7 DEF CloseLoggedOut
  <2>2. isReady' \in BOOLEAN /\ currentQR' \in BOOLEAN
    BY <1>7, Zenon DEF CloseLoggedOut, Disconnected
  <2> QED
    BY <1>7, <2>1, <2>2, DiesFacts DEF TypeOK, CloseLoggedOut
<1>8. CASE Logout
  BY <1>8 DEF TypeOK, Logout
<1>9. CASE LoggedOut
  <2>1. isReady' \in BOOLEAN /\ currentQR' \in BOOLEAN
    BY <1>9, Zenon DEF TypeOK, LoggedOut, Disconnected
  <2>2. logouts' \in Nat
    BY <1>9 DEF TypeOK, LoggedOut
  <2>3. /\ life' \in [Sockets -> {"none", "connecting", "open"}]
        /\ listening' \subseteq Sockets
    BY <1>9 DEF TypeOK, LoggedOut, Dies
  <2> QED
    BY <1>9, <2>1, <2>2, <2>3 DEF TypeOK, LoggedOut
<1>10. CASE RemoveCredentials
  <2>1. 0 \in 0..MaxAttempts
    BY BoundsAssumption
  <2>2. (overlap \/ Underway) \in BOOLEAN
    BY Zenon DEF TypeOK, Underway
  <2>3. /\ timers' \in 0..1 /\ reconnectAttempts' \in 0..MaxAttempts
        /\ abandoned' \in BOOLEAN /\ overlap' \in BOOLEAN
    <3>1. CASE Reconnect(0) /\ overlap' = (overlap \/ Underway)
      <4>1. overlap' \in BOOLEAN
        BY <2>2, <3>1, Zenon
      <4> QED
        BY <2>1, <3>1, <4>1, ReconnectFacts
    <3>2. CASE abandoned' = TRUE
               /\ UNCHANGED <<timers, reconnectAttempts, overlap>>
      <4>1. abandoned' \in BOOLEAN
        BY <3>2, Zenon
      <4> QED
        BY <3>2, <4>1 DEF TypeOK
    <3> QED
      BY <1>10, <3>1, <3>2 DEF RemoveCredentials
  <2> QED
    BY <1>10, <2>3 DEF TypeOK, RemoveCredentials
<1>11. CASE CallWhileDown
  BY <1>11, WithFailureType DEF TypeOK, CallWhileDown, RecordFailure
<1>12. CASE Call
  <2>1. Checked \in Breaker /\ WithFailure(Checked) \in Breaker
    BY CheckedType, WithFailureType
  <2>2. sends' \in 0..SendBound
    BY <1>12, BoundsAssumption DEF TypeOK, Call
  <2>3. refused' \in BOOLEAN
    BY <1>12, Zenon DEF TypeOK, Call
  <2> QED
    BY <1>12, <2>1, <2>2, <2>3 DEF TypeOK, Call
<1>13. CASE CallEnds
  BY <1>13, WithFailureType, BoundsAssumption
  DEF TypeOK, CallEnds, RecordFailure
<1>14. CASE BreakerLapses
  BY <1>14 DEF TypeOK, BreakerLapses, Breaker
<1>15. CASE UNCHANGED vars
  BY <1>15 DEF TypeOK, vars
<1> QED
  BY <1>1, <1>2, <1>3, <1>4, <1>5, <1>6, <1>7, <1>8, <1>9, <1>10, <1>11,
     <1>12, <1>13, <1>14, <1>15
  DEF Next, Connect, SocketEvent, Calls

\* The variables keep their types, whatever the limits are: attempts stay
\* within the limit and one reconnection timer runs at most, for every
\* order of events, timers and logouts (whatsapp.service.ts:106-234).
THEOREM TypeCorrect == Spec => []TypeOK
BY TypeInit, TypeNext, PTL DEF Spec

-----------------------------------------------------------------------------
(***************************************************************************)
(* One connection at a time.                                               *)
(***************************************************************************)
\* What the handlers keep while no logout met a connection under way: the
\* one socket alive is this.sock and is listened to, and with it alive
\* neither a timer runs nor another connection is in its awaits.
OneUnderway ==
    ~overlap =>
       /\ \A s \in Sockets : IsLive(s) => s \in listening /\ s = sock
       /\ timers + fetching <= 1
       /\ (\E s \in Sockets : IsLive(s)) => timers = 0 /\ fetching = 0

LEMMA OneUnderwayInit == Init => OneUnderway
BY DEF Init, OneUnderway, IsLive

LEMMA OneUnderwayNext ==
    TypeOK /\ OneUnderway /\ [Next]_vars => OneUnderway'
<1> SUFFICES ASSUME TypeOK, OneUnderway, [Next]_vars, ~overlap'
             PROVE  OneUnderway'
  BY DEF OneUnderway
<1> USE DEF socketVars, stateVars, retryVars, logoutVars, callVars
<1>1. CASE TimerFires
  \* A timer ran: no socket was alive.
  <2>1. \A s \in Sockets : ~IsLive(s) /\ ~IsLive(s)'
    BY <1>1 DEF TypeOK, OneUnderway, TimerFires, IsLive
  <2> QED
    BY <1>1, <2>1 DEF TypeOK, OneUnderway, TimerFires
<1>2. CASE MakeSocket
  \* A connection was in its awaits: no socket was alive.
  <2>1. timers = 0 /\ fetching = 1 /\ fetching' = 0 /\ timers' = timers
    BY <1>2 DEF TypeOK, OneUnderway, MakeSocket
  <2>2. PICK s \in Sockets :
           /\ sock' = s
           /\ life' = [life EXCEPT ![s] = "connecting"]
           /\ listening' = listening \union {s}
    BY <1>2 DEF MakeSocket
  <2>3. \A r \in Sockets \ {s} : ~IsLive(r)'
    BY <1>2, <2>1, <2>2 DEF TypeOK, OneUnderway, MakeSocket, IsLive
  <2> QED
    BY <2>1, <2>2, <2>3 DEF OneUnderway
<1>3. CASE ConnectFails
  <2>1. timers = 0 /\ fetching = 1 /\ fetching' = 0
    BY <1>3 DEF TypeOK, OneUnderway, ConnectFails
  <2>2. timers' = 1 \/ timers' = 0
    BY <1>3, <2>1, ReconnectFacts DEF TypeOK, ConnectFails
  <2>3. \A s \in Sockets : ~IsLive(s)'
    BY <1>3, <2>1 DEF TypeOK, OneUnderway, ConnectFails, IsLive
  <2> QED
    BY <2>1, <2>2, <2>3 DEF OneUnderway
<1>4. ASSUME NEW s \in Sockets, ShowQR(s) PROVE OneUnderway'
  BY <1>4 DEF OneUnderway, ShowQR, IsLive
<1>5. ASSUME NEW s \in Sockets, Open(s) PROVE OneUnderway'
  BY <1>5 DEF TypeOK, OneUnderway, Open, Connected, IsLive
<1>6. ASSUME NEW s \in Sockets, Close(s) PROVE OneUnderway'
  <2>1. timers = 0 /\ fetching = 0 /\ fetching' = 0
    BY <1>6 DEF OneUnderway, Close, Dies
  <2>2. timers' = 1 \/ timers' = 0
    BY <1>6, <2>1, ReconnectFacts DEF TypeOK, Close
  <2>3. \A r \in Sockets : ~IsLive(r)'
    BY <1>6, DiesFacts DEF TypeOK, OneUnderway, Close, Dies, IsLive
  <2> QED
    BY <2>1, <2>2, <2>3 DEF OneUnderway
<1>7. ASSUME NEW s \in Sockets, CloseLoggedOut(s) PROVE OneUnderway'
  BY <1>7 DEF TypeOK, OneUnderway, CloseLoggedOut, Dies, IsLive
<1>8. CASE Logout
  BY <1>8 DEF OneUnderway, Logout, IsLive
<1>9. CASE LoggedOut
  <2>1. \A r \in Sockets : IsLive(r)' =>
           IsLive(r) /\ (r \in listening => r \in listening')
    BY <1>9 DEF TypeOK, LoggedOut, Dies, IsLive
  <2> QED
    BY <1>9, <2>1 DEF OneUnderway, LoggedOut
<1>10. CASE RemoveCredentials
  <2>1. CASE Reconnect(0) /\ overlap' = (overlap \/ Underway)
    <3>1. ~Underway /\ ~overlap
      BY <2>1
    <3>2. fetching = 0 /\ \A s \in Sockets : ~IsLive(s)
      BY <3>1 DEF TypeOK, OneUnderway, Underway, Handled
    <3>3. fetching' = 0 /\ \A s \in Sockets : ~IsLive(s)'
      BY <1>10, <3>2 DEF RemoveCredentials, IsLive
    <3> QED
      BY <2>1, <3>3, ReconnectAnew DEF OneUnderway
  <2>2. CASE UNCHANGED <<timers, reconnectAttempts, overlap>>
    BY <1>10, <2>2 DEF OneUnderway, RemoveCredentials, IsLive
  <2> QED
    BY <1>10, <2>1, <2>2 DEF RemoveCredentials
<1>11. CASE Calls \/ BreakerLapses
  BY <1>11
  DEF OneUnderway, Calls, CallWhileDown, Call, CallEnds, BreakerLapses, IsLive
<1>12. CASE UNCHANGED vars
  BY <1>12 DEF OneUnderway, vars, IsLive
<1> QED
  BY <1>1, <1>2, <1>3, <1>4, <1>5, <1>6, <1>7, <1>8, <1>9, <1>10, <1>11,
     <1>12
  DEF Next, Connect, SocketEvent

LEMMA HandledIsOne ==
    ASSUME TypeOK, OneUnderway
    PROVE  OneConnection
<1> SUFFICES ASSUME ~overlap PROVE OneConnection
  BY DEF OneConnection
<1>1. \A s \in Sockets : IsLive(s) => s \in listening
  BY DEF OneUnderway
<1>2. CASE Handled = {}
  BY <1>1, <1>2, FS_EmptySet DEF TypeOK, OneUnderway, OneConnection
<1>3. CASE Handled # {}
  <2>1. PICK s \in Handled : TRUE
    BY <1>3
  <2>2. s \in Sockets /\ IsLive(s)
    BY <2>1 DEF TypeOK, Handled
  <2>3. timers = 0 /\ fetching = 0
    BY <2>2 DEF OneUnderway
  <2>4. Handled = {s}
    BY <2>1, <2>2 DEF TypeOK, Handled, OneUnderway
  <2>5. Cardinality(Handled) = 1
    BY <2>4, FS_Singleton
  <2> QED
    BY <1>1, <2>3, <2>5 DEF OneConnection
<1> QED
  BY <1>2, <1>3

\* One connection to WhatsApp at a time, whatever closes, fails or is logged
\* out in the awaits of another, unless a logout schedules a reconnection
\* with one under way already: for any number of sockets, and any limit of
\* attempts (whatsapp.service.ts:106-153, 202-234).
THEOREM OneConnectionAlways == Spec => []OneConnection
<1>1. Init => TypeOK /\ OneUnderway
  BY TypeInit, OneUnderwayInit
<1>2. TypeOK /\ OneUnderway /\ [Next]_vars => (TypeOK /\ OneUnderway)'
  BY TypeNext, OneUnderwayNext
<1>3. TypeOK /\ OneUnderway => OneConnection
  BY HandledIsOne
<1> QED
  BY <1>1, <1>2, <1>3, PTL DEF Spec

-----------------------------------------------------------------------------
(***************************************************************************)
(* What the panel is told.                                                 *)
(***************************************************************************)
LEMMA StateIsTrueInit == Init => ConnectionStateIsTrue
BY DEF Init, ConnectionStateIsTrue

LEMMA StateIsTrueNext ==
    TypeOK /\ OneUnderway /\ ConnectionStateIsTrue /\ [Next]_vars
    => ConnectionStateIsTrue'
<1> SUFFICES ASSUME TypeOK, OneUnderway, ConnectionStateIsTrue, [Next]_vars,
                    ~overlap'
             PROVE  ConnectionStateIsTrue'
  BY DEF ConnectionStateIsTrue
<1> USE DEF socketVars, stateVars, retryVars, logoutVars, callVars
<1>1. ~overlap
  BY DEF Next, Connect, TimerFires, MakeSocket, ConnectFails, SocketEvent,
         ShowQR, Open, Close, CloseLoggedOut, Logout, LoggedOut,
         RemoveCredentials, Calls, CallWhileDown, Call, CallEnds,
         BreakerLapses, vars, TypeOK
\* With a timer or a connection in its awaits nothing is connected.
<1>2. timers > 0 \/ fetching > 0 => ~isReady /\ ~currentQR
  BY <1>1, NoneAssumption
  DEF TypeOK, OneUnderway, ConnectionStateIsTrue, IsLive
<1>3. CASE TimerFires \/ MakeSocket \/ ConnectFails
  BY <1>2, <1>3
  DEF ConnectionStateIsTrue, TimerFires, MakeSocket, ConnectFails
<1>4. ASSUME NEW s \in Sockets, ShowQR(s) PROVE ConnectionStateIsTrue'
  BY <1>1, <1>4, NoneAssumption
  DEF TypeOK, OneUnderway, ConnectionStateIsTrue, ShowQR, IsLive
<1>5. ASSUME NEW s \in Sockets, Open(s) PROVE ConnectionStateIsTrue'
  <2>1. s = sock /\ s \in listening /\ s # None
    BY <1>1, <1>5, NoneAssumption DEF OneUnderway, Open, IsLive
  <2>2. sock' = s /\ life'[s] = "open" /\ ~currentQR'
    BY <1>5, <2>1 DEF TypeOK, Open, Connected
  <2> QED
    BY <2>1, <2>2 DEF ConnectionStateIsTrue
<1>6. ASSUME NEW s \in Sockets, Close(s) \/ CloseLoggedOut(s)
      PROVE  ConnectionStateIsTrue'
  <2>1. s \in listening
    BY <1>1, <1>6 DEF OneUnderway, Close, CloseLoggedOut, Dies
  <2>2. ~isReady' /\ ~currentQR'
    BY <1>6, <2>1 DEF Close, CloseLoggedOut, Disconnected
  <2> QED
    BY <2>2 DEF ConnectionStateIsTrue
<1>7. CASE Logout
  BY <1>1, <1>7 DEF ConnectionStateIsTrue, Logout
<1>8. CASE LoggedOut
  BY <1>1, <1>8 DEF ConnectionStateIsTrue, LoggedOut, Disconnected
<1>9. CASE RemoveCredentials
  BY <1>1, <1>9 DEF ConnectionStateIsTrue, RemoveCredentials
<1>10. CASE Calls \/ BreakerLapses
  BY <1>1, <1>10
  DEF ConnectionStateIsTrue, Calls, CallWhileDown, Call, CallEnds,
      BreakerLapses
<1>11. CASE UNCHANGED vars
  BY <1>1, <1>11 DEF ConnectionStateIsTrue, vars
<1> QED
  BY <1>3, <1>4, <1>5, <1>6, <1>7, <1>8, <1>9, <1>10, <1>11
  DEF Next, Connect, SocketEvent

\* What the panel is told is true: it is connected only with an open socket
\* that calls go to, and the QR code it shows is that of the socket being
\* connected, for any number of sockets (whatsapp.service.ts:91-96, 161-183).
THEOREM ConnectionStateAlwaysTrue == Spec => []ConnectionStateIsTrue
<1>1. Init => TypeOK /\ OneUnderway /\ ConnectionStateIsTrue
  BY TypeInit, OneUnderwayInit, StateIsTrueInit
<1>2. TypeOK /\ OneUnderway /\ ConnectionStateIsTrue /\ [Next]_vars
      => (TypeOK /\ OneUnderway /\ ConnectionStateIsTrue)'
  BY TypeNext, OneUnderwayNext, StateIsTrueNext
<1> QED
  BY <1>1, <1>2, PTL DEF Spec

-----------------------------------------------------------------------------
(***************************************************************************)
(* A link that is down, and the breaker.                                   *)
(***************************************************************************)
LEMMA StrandedInit == Init => NeverStranded
BY DEF Init, NeverStranded, Underway

LEMMA StrandedNext ==
    TypeOK /\ NeverStranded /\ [Next]_vars => NeverStranded'
<1> SUFFICES ASSUME TypeOK, NeverStranded, [Next]_vars
             PROVE  NeverStranded'
  OBVIOUS
<1> USE DEF socketVars, stateVars, retryVars, logoutVars, callVars
<1>1. CASE TimerFires
  BY <1>1 DEF TypeOK, TimerFires, NeverStranded, Underway
<1>2. CASE MakeSocket
  <2>1. \E s \in Sockets : s \in Handled'
    BY <1>2 DEF TypeOK, MakeSocket, Handled, IsLive
  <2> QED
    BY <2>1 DEF NeverStranded, Underway
<1>3. CASE ConnectFails
  BY <1>3, ReconnectFacts DEF TypeOK, ConnectFails, NeverStranded
<1>4. ASSUME NEW s \in Sockets, ShowQR(s) PROVE NeverStranded'
  BY <1>4 DEF ShowQR, NeverStranded, Underway, Handled, IsLive
<1>5. ASSUME NEW s \in Sockets, Open(s) PROVE NeverStranded'
  <2>1. CASE s \in listening
    <3>1. s \in Handled'
      BY <1>5, <2>1 DEF TypeOK, Open, Handled, IsLive
    <3> QED
      BY <3>1 DEF NeverStranded, Underway
  <2>2. CASE s \notin listening
    <3>1. Handled' = Handled
      BY <1>5, <2>2 DEF TypeOK, Open, Handled, IsLive
    <3> QED
      BY <1>5, <2>2, <3>1 DEF Open, NeverStranded, Underway
  <2> QED
    BY <2>1, <2>2
<1>6. ASSUME NEW s \in Sockets, Close(s) PROVE NeverStranded'
  <2>1. CASE s \in listening
    BY <1>6, <2>1, ReconnectFacts DEF TypeOK, Close, NeverStranded
  <2>2. CASE s \notin listening
    <3>1. Handled' = Handled
      BY <1>6, <2>2 DEF TypeOK, Close, Dies, Handled, IsLive
    <3> QED
      BY <1>6, <2>2, <3>1 DEF Close, NeverStranded, Underway
  <2> QED
    BY <2>1, <2>2
<1>7. ASSUME NEW s \in Sockets, CloseLoggedOut(s) PROVE NeverStranded'
  BY <1>7 DEF TypeOK, CloseLoggedOut, NeverStranded
<1>8. CASE Logout
  BY <1>8 DEF Logout, NeverStranded, Underway, Handled, IsLive
<1>9. CASE LoggedOut
  <2>1. CASE UNCHANGED <<life, listening, stateVars, logouts>>
    BY <1>9, <2>1
    DEF LoggedOut, NeverStranded, Underway, Handled, IsLive
  <2>2. CASE ~UNCHANGED <<life, listening, stateVars, logouts>>
    BY <1>9, <2>2 DEF TypeOK, LoggedOut, NeverStranded
  <2> QED
    BY <2>1, <2>2
<1>10. CASE RemoveCredentials
  BY <1>10, ReconnectAnew DEF TypeOK, RemoveCredentials, NeverStranded
<1>11. CASE Calls \/ BreakerLapses
  BY <1>11
  DEF NeverStranded, Underway, Handled, IsLive, Calls, CallWhileDown, Call,
      CallEnds, BreakerLapses
<1>12. CASE UNCHANGED vars
  BY <1>12 DEF NeverStranded, Underway, Handled, IsLive, vars
<1> QED
  BY <1>1, <1>2, <1>3, <1>4, <1>5, <1>6, <1>7, <1>8, <1>9, <1>10, <1>11,
     <1>12
  DEF Next, Connect, SocketEvent

\* A link that is down and that nothing will bring up again has used up its
\* attempts or lost its credentials halfway, for every order of failures,
\* closes and logouts, overlapping ones included
\* (whatsapp.service.ts:106-234).
THEOREM NeverStrandedAlways == Spec => []NeverStranded
<1>1. Init => TypeOK /\ NeverStranded
  BY TypeInit, StrandedInit
<1>2. TypeOK /\ NeverStranded /\ [Next]_vars => (TypeOK /\ NeverStranded)'
  BY TypeNext, StrandedNext
<1> QED
  BY <1>1, <1>2, PTL DEF Spec

\* While connected, no call refused during an outage counts for opening the
\* breaker, for any threshold (whatsapp.service.ts:236-243, 387-440).
THEOREM OutageAlwaysForgotten == Spec => []OutageIsForgotten
<1> USE DEF socketVars, stateVars, retryVars, logoutVars, callVars
<1>1. Init => OutageIsForgotten
  BY DEF Init, OutageIsForgotten
<1>2. OutageIsForgotten /\ [Next]_vars => OutageIsForgotten'
  BY DEF OutageIsForgotten, Next, Connect, TimerFires, MakeSocket,
         ConnectFails, SocketEvent, ShowQR, Open, Connected, Close,
         CloseLoggedOut, Disconnected, Logout, LoggedOut, RemoveCredentials,
         Calls, CallWhileDown, Call, CallEnds, BreakerLapses, vars
<1> QED
  BY <1>1, <1>2, PTL DEF Spec
=============================================================================
