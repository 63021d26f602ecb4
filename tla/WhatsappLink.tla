---------------------------- MODULE WhatsappLink ----------------------------
(***************************************************************************)
(* WhatsappService: the socket to WhatsApp, its reconnection with a limit  *)
(* of attempts, logout, and the circuit breaker around outgoing calls.     *)
(*                                                                         *)
(* connectToWhatsApp awaits twice between dropping the old socket and      *)
(* making the new one; handleLogout awaits the removal of the credentials  *)
(* before it schedules a reconnection; both may be under way several       *)
(* times.  Events of a socket reach the service while it listens to it.    *)
(*                                                                         *)
(* Delays are left out: a timer that runs may fire at any moment, so a     *)
(* conflict (440) is a close like another.  The process starts with Init;  *)
(* onModuleDestroy has no caller, as no shutdown hooks are enabled.        *)
(***************************************************************************)
EXTENDS Integers, FiniteSets

CONSTANTS Sockets,      \* sockets that exist at once
          MaxAttempts,  \* MAX_RECONNECT_ATTEMPTS
          Threshold,    \* CIRCUIT_BREAKER_THRESHOLD
          SendBound,    \* calls under way at once
          ConnectBound, \* connectToWhatsApps in their awaits at once
          LogoutBound,  \* handleLogouts under way when one is asked for
          Faults,       \* what may go wrong, see FaultsAssumption
          None          \* null

ASSUME FaultsAssumption ==
    Faults \subseteq {"initError",  \* a connection cannot be begun
                      "diskError",  \* the credentials cannot be removed
                      "endError",   \* the old socket cannot be ended
                      "sendError"}  \* WhatsApp refuses a call
ASSUME BoundsAssumption ==
    /\ MaxAttempts \in Nat \ {0}
    /\ Threshold \in Nat \ {0}
    /\ SendBound \in Nat
    /\ ConnectBound \in Nat
    /\ LogoutBound \in Nat
ASSUME NoneAssumption == None \notin Sockets

VARIABLES sock,       \* this.sock, or None
          life,       \* of each socket
          listening,  \* the sockets whose events are handled
          isReady,
          currentQR,  \* a QR code is shown
          fetching,   \* how many connectToWhatsApp are in their awaits
          timers,     \* how many reconnection timers run
          reconnectAttempts,
          leaving,    \* the socket that a logout request awaits, or None
          logouts,    \* how many handleLogout are in their await
          breaker,    \* the circuit breaker
          sends,      \* how many calls are under way
          overlap,    \* ghost: a logout met a connection under way
          abandoned,  \* ghost: a logout ended without a reconnection
          refused     \* ghost: a refused call counts among the failures

socketVars == <<sock, life, listening>>
stateVars == <<isReady, currentQR>>
retryVars == <<timers, reconnectAttempts, abandoned>>
logoutVars == <<leaving, logouts>>
callVars == <<breaker, sends, refused>>
vars == <<sock, life, listening, isReady, currentQR, fetching, timers,
          reconnectAttempts, leaving, logouts, breaker, sends, overlap,
          abandoned, refused>>

\* `lapsed`: CIRCUIT_BREAKER_TIMEOUT has passed since the last failure.
\* Failures are counted up to the threshold.
Breaker == [failures : 0..Threshold, isOpen : BOOLEAN, lapsed : BOOLEAN]
ClosedBreaker == [failures |-> 0, isOpen |-> FALSE, lapsed |-> FALSE]

IsLive(s) == life[s] # "none"
Handled == {s \in listening : IsLive(s)}
Underway == fetching > 0 \/ Handled # {}

-----------------------------------------------------------------------------
(***************************************************************************)
(* Reconnection.                                                           *)
(***************************************************************************)
\* Mutant of Reconnect: nothing limits the attempts.
ReconnectForEver(attempts) ==
    /\ reconnectAttempts' = attempts + 1
    /\ timers' = 1
    /\ abandoned' = FALSE

\* Mutant of Reconnect: the timer that runs is not cleared.
ReconnectAgain(attempts) ==
    IF attempts >= MaxAttempts
    THEN reconnectAttempts' = attempts /\ UNCHANGED <<timers, abandoned>>
    ELSE /\ reconnectAttempts' = attempts + 1
         /\ timers' = timers + 1
         /\ abandoned' = FALSE

\* scheduleReconnect: the timer that runs is cleared for the new one.
Reconnect(attempts) ==
    IF attempts >= MaxAttempts
    THEN reconnectAttempts' = attempts /\ UNCHANGED <<timers, abandoned>>
    ELSE /\ reconnectAttempts' = attempts + 1
         /\ timers' = 1
         /\ abandoned' = FALSE

\* connectToWhatsApp, up to its first await: the old socket is silenced,
\* then ended.
TimerFires ==
    /\ timers > 0 /\ fetching < ConnectBound
    /\ timers' = timers - 1
    /\ fetching' = fetching + 1
    /\ listening' = listening \ {sock}
    /\ \/ /\ sock' = None
          /\ life' = [s \in Sockets |-> IF s = sock THEN "none" ELSE life[s]]
       \/ /\ "endError" \in Faults
          /\ UNCHANGED <<sock, life>>
    /\ UNCHANGED <<stateVars, reconnectAttempts, logoutVars, callVars, overlap,
                   abandoned>>

\* Mutant of MakeSocket: its events are not handled.
MakeDeafSocket ==
    /\ fetching > 0
    /\ fetching' = fetching - 1
    /\ \E s \in Sockets \ (listening \union {sock, leaving}) :
          /\ ~IsLive(s)
          /\ sock' = s
          /\ life' = [life EXCEPT ![s] = "connecting"]
    /\ UNCHANGED <<listening, stateVars, retryVars, logoutVars, callVars,
                   overlap>>

MakeSocket ==
    /\ fetching > 0
    /\ fetching' = fetching - 1
    /\ \E s \in Sockets \ (listening \union {sock, leaving}) :
          /\ ~IsLive(s)
          /\ sock' = s
          /\ life' = [life EXCEPT ![s] = "connecting"]
          /\ listening' = listening \union {s}
    /\ UNCHANGED <<stateVars, retryVars, logoutVars, callVars, overlap>>

\* Mutant of ConnectFails: the error is only logged.
ConnectFailsQuietly ==
    /\ "initError" \in Faults
    /\ fetching > 0
    /\ fetching' = fetching - 1
    /\ UNCHANGED <<socketVars, stateVars, retryVars, logoutVars, callVars,
                   overlap>>

ConnectFails ==
    /\ "initError" \in Faults
    /\ fetching > 0
    /\ fetching' = fetching - 1
    /\ Reconnect(reconnectAttempts)
    /\ UNCHANGED <<socketVars, stateVars, logoutVars, callVars, overlap>>

-----------------------------------------------------------------------------
(***************************************************************************)
(* Events of a socket, handled or not.                                     *)
(***************************************************************************)
ShowQR(s) ==
    /\ life[s] = "connecting" /\ s \in listening
    /\ currentQR' = TRUE
    /\ UNCHANGED <<socketVars, isReady, fetching, retryVars, logoutVars,
                   callVars, overlap>>

\* Mutant of Connected: the breaker keeps what it counted.
ConnectedOnly ==
    /\ isReady' = TRUE
    /\ currentQR' = FALSE
    /\ reconnectAttempts' = 0
    /\ UNCHANGED <<breaker, refused>>

\* handleSuccessfulConnection.
Connected ==
    /\ isReady' = TRUE
    /\ currentQR' = FALSE
    /\ reconnectAttempts' = 0
    /\ breaker' = ClosedBreaker
    /\ refused' = FALSE

Open(s) ==
    /\ life[s] = "connecting"
    /\ life' = [life EXCEPT ![s] = "open"]
    /\ \/ s \in listening /\ Connected
       \/ /\ s \notin listening
          /\ UNCHANGED <<stateVars, reconnectAttempts, breaker, refused>>
    /\ UNCHANGED <<sock, listening, fetching, timers, abandoned, logoutVars,
                   sends, overlap>>

Dies(s) ==
    /\ IsLive(s)
    /\ life' = [life EXCEPT ![s] = "none"]
    /\ listening' = listening \ {s}

\* Mutant of Disconnected: calls go on.
DisconnectedQuietly == currentQR' = FALSE /\ UNCHANGED isReady

Disconnected == isReady' = FALSE /\ currentQR' = FALSE

\* handleDisconnection, for every reason but a logout.
Close(s) ==
    /\ Dies(s)
    /\ \/ /\ s \in listening
          /\ Disconnected
          /\ Reconnect(reconnectAttempts)
       \/ /\ s \notin listening
          /\ UNCHANGED <<stateVars, retryVars>>
    /\ UNCHANGED <<sock, fetching, logoutVars, callVars, overlap>>

\* The telephone logs the panel out.
CloseLoggedOut(s) ==
    /\ Dies(s)
    /\ s \in listening
    /\ Disconnected
    /\ logouts' = logouts + 1
    /\ UNCHANGED <<sock, fetching, retryVars, leaving, callVars, overlap>>

-----------------------------------------------------------------------------
(***************************************************************************)
(* Logout from the panel.                                                  *)
(***************************************************************************)
Logout ==
    /\ leaving = None /\ sock # None
    /\ logouts < LogoutBound
    /\ leaving' = sock
    /\ UNCHANGED <<socketVars, stateVars, fetching, retryVars, logouts,
                   callVars, overlap>>

\* The socket closes for it, so that its handler calls handleLogout, and the
\* request calls it again.  A socket closed before it was paired has nothing
\* to close.  Otherwise the request fails, and changes nothing.
LoggedOut ==
    /\ leaving # None
    /\ leaving' = None
    /\ \/ /\ Dies(leaving)
          /\ Disconnected
          /\ logouts' = logouts + IF leaving \in listening THEN 2 ELSE 1
       \/ /\ ~IsLive(leaving)
          /\ Disconnected
          /\ logouts' = logouts + 1
          /\ UNCHANGED <<life, listening>>
       \/ UNCHANGED <<life, listening, stateVars, logouts>>
    /\ UNCHANGED <<sock, fetching, retryVars, callVars, overlap>>

\* handleLogout after its await.
RemoveCredentials ==
    /\ logouts > 0
    /\ logouts' = logouts - 1
    /\ \/ /\ Reconnect(0)
          /\ overlap' = (overlap \/ Underway)
       \/ /\ "diskError" \in Faults
          /\ abandoned' = TRUE
          /\ UNCHANGED <<timers, reconnectAttempts, overlap>>
    /\ UNCHANGED <<socketVars, stateVars, fetching, leaving, callVars>>

-----------------------------------------------------------------------------
(***************************************************************************)
(* sendMessage and sendMedia, and the circuit breaker.                     *)
(***************************************************************************)
WithFailure(b) ==
    [failures |-> IF b.failures < Threshold THEN b.failures + 1
                  ELSE b.failures,
     isOpen |-> b.isOpen \/ b.failures + 1 >= Threshold,
     lapsed |-> FALSE]

RecordFailure == breaker' = WithFailure(breaker)

\* A call while the link is down counts as a failure.
CallWhileDown ==
    /\ ~isReady
    /\ RecordFailure
    /\ refused' = TRUE
    /\ UNCHANGED <<socketVars, stateVars, fetching, retryVars, logoutVars,
                   sends, overlap>>

\* Mutant of Checked: the call passes and the breaker stays as it is.
CheckedOnly == breaker

\* checkCircuitBreaker resets a breaker whose time is over.
Checked == IF breaker.isOpen THEN ClosedBreaker ELSE breaker

\* A call that passes; one that the open breaker refuses changes nothing.
\* There may be no socket: the call fails at once then.
Call ==
    /\ isReady
    /\ breaker.isOpen => breaker.lapsed
    /\ refused' = (refused /\ ~breaker.isOpen)
    /\ \/ /\ sock # None /\ sends < SendBound
          /\ sends' = sends + 1
          /\ breaker' = Checked
       \/ /\ sock = None
          /\ breaker' = WithFailure(Checked)
          /\ UNCHANGED sends
    /\ UNCHANGED <<socketVars, stateVars, fetching, retryVars, logoutVars,
                   overlap>>

\* A call ends; only a failure touches the breaker.
CallEnds ==
    /\ sends > 0
    /\ sends' = sends - 1
    /\ \/ UNCHANGED breaker
       \/ "sendError" \in Faults /\ RecordFailure
    /\ UNCHANGED <<socketVars, stateVars, fetching, retryVars, logoutVars,
                   refused, overlap>>

BreakerLapses ==
    /\ breaker.isOpen /\ ~breaker.lapsed
    /\ breaker' = [breaker EXCEPT !.lapsed = TRUE]
    /\ UNCHANGED <<socketVars, stateVars, fetching, retryVars, logoutVars,
                   sends, refused, overlap>>

-----------------------------------------------------------------------------
\* onModuleInit connects.
Init ==
    /\ sock = None
    /\ life = [s \in Sockets |-> "none"]
    /\ listening = {}
    /\ isReady = FALSE
    /\ currentQR = FALSE
    /\ fetching = 1
    /\ timers = 0
    /\ reconnectAttempts = 0
    /\ leaving = None
    /\ logouts = 0
    /\ breaker = ClosedBreaker
    /\ sends = 0
    /\ overlap = FALSE
    /\ abandoned = FALSE
    /\ refused = FALSE

Connect == TimerFires \/ MakeSocket \/ ConnectFails
SocketEvent(s) == ShowQR(s) \/ Open(s) \/ Close(s) \/ CloseLoggedOut(s)
Calls == CallWhileDown \/ Call \/ CallEnds

Next ==
    \/ Connect
    \/ \E s \in Sockets : SocketEvent(s)
    \/ Logout \/ LoggedOut \/ RemoveCredentials
    \/ Calls \/ BreakerLapses

Spec == Init /\ [][Next]_vars

\* Timers fire, the awaits of connections and logouts end, a socket that
\* connects opens or closes (connectTimeoutMs, and QR codes run out), calls
\* end (defaultQueryTimeoutMs) and a minute passes.
FairSpec ==
    /\ Spec
    /\ WF_vars(Connect)
    /\ \A s \in Sockets :
          WF_vars(life[s] = "connecting" /\ (Open(s) \/ Close(s)))
    /\ WF_vars(LoggedOut)
    /\ WF_vars(RemoveCredentials)
    /\ WF_vars(CallEnds)
    /\ WF_vars(BreakerLapses)

-----------------------------------------------------------------------------
\* The variables keep their types: attempts stay within the limit and one
\* reconnection timer runs at most (whatsapp.service.ts:216-234).
TypeOK ==
    /\ sock \in Sockets \union {None}
    /\ life \in [Sockets -> {"none", "connecting", "open"}]
    /\ listening \subseteq Sockets
    /\ isReady \in BOOLEAN
    /\ currentQR \in BOOLEAN
    /\ fetching \in Nat
    /\ timers \in 0..1
    /\ reconnectAttempts \in 0..MaxAttempts
    /\ leaving \in Sockets \union {None}
    /\ logouts \in Nat
    /\ breaker \in Breaker
    /\ sends \in 0..SendBound
    /\ overlap \in BOOLEAN
    /\ abandoned \in BOOLEAN
    /\ refused \in BOOLEAN

\* One connection to WhatsApp at a time, being made or alive, whatever
\* closes, fails or is logged out in the awaits of another, unless a logout
\* schedules a reconnection while one is under way already
\* (whatsapp.service.ts:106-153, 202-234).
OneConnection ==
    ~overlap => /\ timers + fetching + Cardinality(Handled) <= 1
                /\ \A s \in Sockets : IsLive(s) => s \in listening

\* What the panel is told is true: it is connected only with an open socket
\* that calls go to, and the QR code it shows is that of the socket being
\* connected (whatsapp.service.ts:91-96, 161-183).
ConnectionStateIsTrue ==
    ~overlap =>
       /\ isReady => sock # None /\ life[sock] = "open"
       /\ currentQR => sock # None /\ life[sock] = "connecting"

\* A link that is down and that nothing will bring up again has used up its
\* attempts or lost its credentials halfway, even when a socket was lost
\* with another connection under way (whatsapp.service.ts:106-234).
NeverStranded ==
    ~Underway /\ timers = 0 /\ logouts = 0
    => reconnectAttempts = MaxAttempts \/ abandoned

\* While connected, no call refused during an outage counts for opening the
\* breaker (whatsapp.service.ts:236-243, 387-440).
OutageIsForgotten == isReady => ~refused

\* A link that is down comes up, uses up its attempts, or is logged out.
LinkComesBack ==
    ~isReady ~> isReady \/ reconnectAttempts = MaxAttempts \/ logouts > 0
                \/ abandoned

\* The breaker does not stay open on a link that is up, if calls come in.
BreakerCloses ==
    WF_vars(Call) => (isReady /\ breaker.isOpen ~> ~isReady \/ ~breaker.isOpen)
=============================================================================
