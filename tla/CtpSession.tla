------------------------------ MODULE CtpSession ------------------------------
(***************************************************************************)
(* The counter session of CtpTraderGateway and the two trading gates over  *)
(* it: ready_to_send of the gateway and ready of the execution service.    *)
(*                                                                         *)
(* The account thread connects, reconciles once, and then loops: maintain  *)
(* (log in again after a reconnect), close the service's gate if the       *)
(* session is gone, process a command.  The CTP callback thread changes    *)
(* the session flags between any two of its steps; one notification is one *)
(* step.  The broker's front (external) goes down and up, and answers the  *)
(* requests of a connection that is still up.                              *)
(***************************************************************************)
EXTENDS Naturals

CONSTANTS
    Authenticated,    \* settings.authenticated: AppID and AuthCode configured
    UnusualCallbacks, \* a reconnect without a reported loss, a logout nobody asked for
    MaxFrontEvents,   \* model bound: disconnects, reconnects, logouts
    MaxErrors,        \* model bound: error answers
    MaxSlow           \* model bound: waits given up while the answer is coming

ASSUME SessionAssumption ==
    /\ Authenticated \in BOOLEAN /\ UnusualCallbacks \in BOOLEAN
    /\ MaxFrontEvents \in Nat /\ MaxErrors \in Nat /\ MaxSlow \in Nat

VARIABLES
    main, connecting,                           \* the account thread; in connect()
    connected, authenticated, loggedIn, settled,
    fault, needsReconciliation,
    ready,                                      \* the threading.Events set, by step
    inflight,                                   \* requests the counter may still answer
    session,                                    \* number of the last login
    reconciledIn,                               \* session the reconciliation began in
    serviceReady, sessionLostLogged,
    routerFaulted,                              \* CtpCallbackRouter.faulted
    raced,                                      \* history: the session went while marking
    frontEvents, errors, slow

sessionVars == <<connected, authenticated, loggedIn, settled, session>>
gateVars    == <<fault, needsReconciliation>>
serviceVars == <<serviceReady, sessionLostLogged>>
boundVars   == <<frontEvents, errors, slow>>
vars == <<main, connecting, sessionVars, gateVars, ready, inflight, reconciledIn, serviceVars,
          routerFaulted, raced, boundVars>>

Handshakes == {"authenticate", "login", "settlement"}
Faults == {"none", "front_not_connected"} \union Handshakes
Phases == {"front", "connected", "querying", "marking", "marked", "enabling",
           "maintain", "check", "command", "inserting", "stopped"}

TypeOK ==
    /\ main \in Phases \union Handshakes /\ connecting \in BOOLEAN
    /\ connected \in BOOLEAN /\ authenticated \in BOOLEAN
    /\ loggedIn \in BOOLEAN /\ settled \in BOOLEAN
    /\ fault \in Faults /\ needsReconciliation \in BOOLEAN
    /\ ready \subseteq Handshakes \union {"front"} /\ inflight \subseteq Handshakes
    /\ session \in Nat /\ reconciledIn \in Nat
    /\ serviceReady \in BOOLEAN /\ sessionLostLogged \in BOOLEAN
    /\ routerFaulted \in BOOLEAN /\ raced \in BOOLEAN
    /\ frontEvents \in Nat /\ errors \in Nat /\ slow \in Nat

At(p) == main = p
GoTo(p) == main' = p

SessionUp == connected /\ loggedIn /\ settled

ReadyToSend == SessionUp /\ fault = "none" /\ ~needsReconciliation

\* connect() has registered the front and waits for it.
Init ==
    /\ main = "front" /\ connecting = TRUE
    /\ connected = FALSE /\ authenticated = FALSE /\ loggedIn = FALSE /\ settled = FALSE
    /\ fault = "none" /\ needsReconciliation = TRUE
    /\ ready = {} /\ inflight = {}
    /\ session = 0 /\ reconciledIn = 0
    /\ serviceReady = FALSE /\ sessionLostLogged = FALSE /\ routerFaulted = FALSE
    /\ raced = FALSE
    /\ frontEvents = 0 /\ errors = 0 /\ slow = 0

-------------------------------------------------------------------------------
(* The callback thread: CtpTraderGateway._on_notification *)

FrontEvent == frontEvents < MaxFrontEvents /\ frontEvents' = frontEvents + 1

\* Whatever was asked over the former connection stays unanswered.
FrontConnected ==
    /\ IF connected THEN UnusualCallbacks /\ FrontEvent ELSE UNCHANGED frontEvents
    /\ connected' = TRUE
    /\ fault' = "none"
    /\ ready' = ready \union {"front"}
    /\ loggedIn' = FALSE
    /\ settled' = (settled /\ ~loggedIn)
    /\ needsReconciliation' = (needsReconciliation \/ loggedIn)
    /\ inflight' = {}
    /\ raced' = (raced \/ At("marked"))
    /\ UNCHANGED <<main, connecting, authenticated, session, reconciledIn, serviceVars, routerFaulted,
                   errors, slow>>

\* Mutant of FrontDisconnected: the session flags go, the reconciliation stays.
ForgetfulDisconnect ==
    /\ connected /\ FrontEvent
    /\ connected' = FALSE /\ authenticated' = FALSE /\ loggedIn' = FALSE /\ settled' = FALSE
    /\ ready' = {} /\ inflight' = {}
    /\ raced' = (raced \/ At("marked"))
    /\ UNCHANGED <<main, connecting, session, fault, needsReconciliation, reconciledIn,
                   serviceVars, routerFaulted, errors, slow>>

FrontDisconnected ==
    /\ connected /\ FrontEvent
    /\ connected' = FALSE /\ authenticated' = FALSE /\ loggedIn' = FALSE /\ settled' = FALSE
    /\ ready' = {} /\ inflight' = {}
    /\ needsReconciliation' = TRUE
    /\ raced' = (raced \/ At("marked"))
    /\ UNCHANGED <<main, connecting, session, fault, reconciledIn, serviceVars, routerFaulted, errors, slow>>

LoggedOut ==
    /\ UnusualCallbacks /\ connected /\ loggedIn /\ FrontEvent
    /\ loggedIn' = FALSE /\ settled' = FALSE /\ inflight' = {}
    /\ needsReconciliation' = TRUE
    /\ raced' = (raced \/ At("marked"))
    /\ UNCHANGED <<main, connecting, connected, authenticated, session, fault, ready, reconciledIn,
                   serviceVars, routerFaulted, errors, slow>>

Answered(step) ==
    /\ connected /\ step \in inflight
    /\ inflight' = inflight \ {step}
    /\ ready' = ready \union {step}
    /\ UNCHANGED <<main, connecting, connected, needsReconciliation, reconciledIn, serviceVars,
                   routerFaulted, raced, frontEvents, slow>>

AnswerOk(step) ==
    /\ Answered(step)
    /\ authenticated' = (authenticated \/ step = "authenticate")
    /\ loggedIn' = (loggedIn \/ step = "login")
    /\ settled' = (settled \/ step = "settlement")
    /\ session' = session + (IF step = "login" THEN 1 ELSE 0)
    /\ UNCHANGED <<fault, errors>>

\* An error answer, or a login without a trading day.
AnswerError(step) ==
    /\ Answered(step)
    /\ errors < MaxErrors /\ errors' = errors + 1
    /\ fault' = step
    /\ UNCHANGED <<authenticated, loggedIn, settled, session>>

\* A report that cannot be converted goes to the service as a dead letter,
\* which closes its gate.
ConversionFailure ==
    /\ loggedIn /\ ~routerFaulted
    /\ routerFaulted' = TRUE
    /\ serviceReady' = FALSE
    /\ UNCHANGED <<main, connecting, sessionVars, gateVars, ready, inflight, reconciledIn,
                   sessionLostLogged, raced, boundVars>>

-------------------------------------------------------------------------------
(* The handshake: connect, maintain, _authenticate, _login, _confirm_settlement *)

unchangedByMain == <<sessionVars, reconciledIn, serviceVars, routerFaulted, raced,
                     frontEvents, errors>>

\* Clear the event, send the request, wait.
Ask(step) ==
    /\ GoTo(step)
    /\ ready' = ready \ {step}
    /\ inflight' = IF connected THEN inflight \union {step} ELSE inflight

FrontArrived ==
    /\ At("front") /\ "front" \in ready
    /\ Ask(IF Authenticated THEN "authenticate" ELSE "login")
    /\ UNCHANGED <<unchangedByMain, connecting, gateVars, slow>>

FrontTimeout ==
    /\ At("front") /\ "front" \notin ready
    /\ fault' = "front_not_connected" /\ GoTo("stopped")
    /\ UNCHANGED <<unchangedByMain, connecting, needsReconciliation, ready, inflight, slow>>

Achieved(step) ==
    CASE step = "authenticate" -> authenticated
      [] step = "login"        -> loggedIn
      [] step = "settlement"   -> settled

Following(step) == IF step = "authenticate" THEN "login" ELSE "settlement"

HandshakeFailed ==
    /\ GoTo(IF connecting THEN "stopped" ELSE "check")
    /\ needsReconciliation' = TRUE
    /\ UNCHANGED <<connecting, ready, inflight>>

\* _wait: the event is set and the step achieved, the step was refused, or
\* nothing came in time (an answer that got lost, or is late).
HandshakeStep(step) ==
    /\ At(step) /\ step \in ready /\ Achieved(step)
    /\ IF step = "settlement"
       THEN /\ GoTo(IF connecting THEN "connected" ELSE "check") /\ connecting' = FALSE
            /\ UNCHANGED <<ready, inflight>>
       ELSE Ask(Following(step)) /\ UNCHANGED connecting
    /\ UNCHANGED <<unchangedByMain, gateVars, slow>>

HandshakeRefused(step) ==
    /\ At(step) /\ step \in ready /\ ~Achieved(step)
    /\ fault' = IF fault = "none" THEN step ELSE fault
    /\ HandshakeFailed
    /\ UNCHANGED <<unchangedByMain, slow>>

HandshakeTimeout(step) ==
    /\ At(step) /\ step \notin ready
    /\ IF step \in inflight THEN slow < MaxSlow /\ slow' = slow + 1 ELSE UNCHANGED slow
    /\ fault' = step
    /\ HandshakeFailed
    /\ UNCHANGED unchangedByMain

-------------------------------------------------------------------------------
(* AssembledExecution.reconcile_and_enable, once, before the loop *)

BeginQueries ==
    /\ At("connected") /\ GoTo("querying")
    /\ reconciledIn' = session
    /\ UNCHANGED <<connecting, sessionVars, gateVars, ready, inflight, serviceVars, routerFaulted, raced,
                   boundVars>>

FinishQueries(ok) ==
    /\ At("querying") /\ GoTo(IF ok THEN "marking" ELSE "stopped")
    /\ UNCHANGED <<unchangedByMain, connecting, gateVars, ready, inflight, slow>>

\* mark_reconciled reads the session flags, and writes afterwards.
TestSession ==
    /\ At("marking")
    /\ GoTo(IF fault = "none" /\ SessionUp THEN "marked" ELSE "stopped")
    /\ UNCHANGED <<unchangedByMain, connecting, gateVars, ready, inflight, slow>>

WriteReconciled ==
    /\ At("marked") /\ GoTo("enabling")
    /\ needsReconciliation' = FALSE
    /\ UNCHANGED <<unchangedByMain, connecting, fault, ready, inflight, slow>>

EnableService(ok) ==
    /\ At("enabling") /\ GoTo(IF ok THEN "maintain" ELSE "stopped")
    /\ ok => ~routerFaulted
    /\ serviceReady' = ok
    /\ UNCHANGED <<connecting, sessionVars, gateVars, ready, inflight, reconciledIn, sessionLostLogged,
                   routerFaulted, raced, boundVars>>

-------------------------------------------------------------------------------
(* AssembledExecution.step: maintain_counter_session, then one command *)

NeedsLogin == ~ReadyToSend /\ fault = "none" /\ connected /\ ~(loggedIn /\ settled)

Maintain ==
    /\ At("maintain")
    /\ IF NeedsLogin
       THEN Ask(IF Authenticated /\ ~authenticated THEN "authenticate" ELSE "login")
       ELSE GoTo("check") /\ UNCHANGED <<ready, inflight>>
    /\ UNCHANGED <<unchangedByMain, connecting, gateVars, slow>>

\* Mutant of CheckSession: the loss is logged, the service's gate stays open.
CheckSessionLogsOnly ==
    /\ At("check") /\ GoTo("command")
    /\ sessionLostLogged' = (sessionLostLogged \/ (serviceReady /\ ~ReadyToSend))
    /\ UNCHANGED <<connecting, sessionVars, gateVars, ready, inflight, reconciledIn,
                   serviceReady, routerFaulted, raced, boundVars>>

CheckSession ==
    /\ At("check") /\ GoTo("command")
    /\ IF serviceReady /\ ~ReadyToSend /\ ~sessionLostLogged
       THEN serviceReady' = FALSE /\ sessionLostLogged' = TRUE
       ELSE UNCHANGED serviceVars
    /\ UNCHANGED <<connecting, sessionVars, gateVars, ready, inflight, reconciledIn, routerFaulted, raced,
                   boundVars>>

\* submit: _dispatchable is tested here, ReqOrderInsert is a later step.
NoOrder ==
    /\ At("command") /\ GoTo("maintain")
    /\ UNCHANGED <<unchangedByMain, connecting, gateVars, ready, inflight, slow>>

TestDispatchable ==
    /\ At("command") /\ serviceReady /\ ReadyToSend
    /\ GoTo("inserting")
    /\ UNCHANGED <<unchangedByMain, connecting, gateVars, ready, inflight, slow>>

InsertOrder ==
    /\ At("inserting") /\ GoTo("maintain")
    /\ UNCHANGED <<unchangedByMain, connecting, gateVars, ready, inflight, slow>>

-------------------------------------------------------------------------------
Callback ==
    \/ FrontConnected \/ FrontDisconnected \/ LoggedOut \/ ConversionFailure
    \/ \E step \in Handshakes : AnswerOk(step) \/ AnswerError(step)

AccountThread ==
    \/ FrontArrived \/ FrontTimeout
    \/ \E step \in Handshakes :
          HandshakeStep(step) \/ HandshakeRefused(step) \/ HandshakeTimeout(step)
    \/ BeginQueries \/ TestSession \/ WriteReconciled
    \/ \E ok \in BOOLEAN : FinishQueries(ok) \/ EnableService(ok)
    \/ Maintain \/ CheckSession \/ NoOrder \/ TestDispatchable \/ InsertOrder

Next == Callback \/ AccountThread

Spec == Init /\ [][Next]_vars

\* The account thread keeps running, and the counter answers what it was asked
\* over a connection that stays up.  Nothing obliges the front to come back.
FairSpec ==
    /\ Spec /\ WF_vars(AccountThread)
    /\ \A step \in Handshakes : WF_vars(AnswerOk(step) \/ AnswerError(step))

-------------------------------------------------------------------------------
(* Properties *)

\* An order is handed to a session that is up only if the reconciliation that
\* opened the gate was made in that same session: logging in again opens
\* nothing.  (live_assembly.py, maintain_counter_session.)
OrdersNeedReconciledSession ==
    [][(main = "inserting" /\ main' = "maintain" /\ SessionUp) => reconciledIn = session]_vars

\* The one way around it: the session went while mark_reconciled was between
\* its test and its write.
OnlyTheRaceReopens ==
    [][(main = "inserting" /\ main' = "maintain" /\ SessionUp)
          => reconciledIn = session \/ raced]_vars

\* The service's gate does not stay open over a session that must be
\* reconciled: the next turn of the loop closes it.
SessionLossClosesService ==
    (serviceReady /\ needsReconciliation)
        ~> (~serviceReady \/ ~needsReconciliation \/ main = "stopped")

\* Over a front that stays up and a gateway without a fault, the session is
\* logged in again in the end, however often the front went before.
ReloginUnlessFaulted ==
    <>[](connected /\ fault = "none") => <>[](SessionUp \/ main = "stopped")

\* A session that is lost closes the service, and comes back unless a fault forbids it.
SessionRecovers == SessionLossClosesService /\ ReloginUnlessFaulted
===============================================================================
