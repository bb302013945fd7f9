---------------------------- MODULE Gateways_proofs ----------------------------
(*****************************************************************************)
(* The trading gateway's session and the market gateway's feed.              *)
(*                                                                           *)
(* The session: no order reaches a session of the counter that was not       *)
(* reconciled, whatever the front, the counter and the two threads do in     *)
(* between, and however often: but for the race of mark_reconciled.  A       *)
(* session begins with the answer to a login.  Unless the race has happened, *)
(* a login is on its way only while the gate asks for a reconciliation, and  *)
(* never while the account thread is between the queries and the mark, nor   *)
(* while it holds an order it has tested.                                    *)
(*                                                                           *)
(* The feed: a bar that the strategy was given is what the exchange traded   *)
(* in its interval.  While nothing is counted as lost and the feed is not    *)
(* paused, what is on the wire and in the queue is what the exchange made    *)
(* after the last snapshot taken, in order and without a hole (PipeInv), and *)
(* the open bucket is what was traded from its first to its last snapshot    *)
(* (TakenInv).  A bucket that the next snapshot closes is therefore whole;   *)
(* one that the clock closes is whole or some of it is under way, and then   *)
(* it stays so: what is closed lies on the grid of a session (GridInv), a    *)
(* snapshot of a closed interval pauses the feed, and every later trade is   *)
(* after the bar.  Each step and each part has its lemma below.              *)
(*****************************************************************************)
EXTENDS MCGateways, FiniteSetTheorems, SequenceTheorems, TLAPS

-------------------------------------------------------------------------------
(* The session of the trading gateway *)

\* An answer that is awaited is not announced.
AnswersInv == \A step \in Handshakes : step \in ready => step \notin inflight

\* Where the account thread is when the counter may still answer a login.
LoginInv ==
    "login" \in inflight =>
        \/ main \in {"login", "stopped"}
        \/ main \in {"maintain", "check", "command"} /\ fault # "none"

\* From the queries to the order: what was reconciled is the session.
MarkInv ==
    /\ main \in {"querying", "marking", "marked"} => reconciledIn = session
    /\ main = "marked" => SessionUp
    /\ main \in Handshakes \union {"front"} \/ "login" \in inflight => needsReconciliation
    /\ ~needsReconciliation => SessionUp /\ reconciledIn = session
    /\ main = "inserting" => reconciledIn = session

SessionInv == AnswersInv /\ LoginInv /\ (MarkInv \/ raced)

-------------------------------------------------------------------------------
(* Every step keeps it *)

LEMMA TypeStep ==
    ASSUME TypeOK, [Next]_vars
    PROVE  TypeOK'
<1>. USE DEF sessionVars, gateVars, serviceVars, boundVars, unchangedByMain, At, GoTo, FrontEvent
<1>1. ASSUME FrontConnected
      PROVE  TypeOK'
  <2>. USE <1>1 DEF FrontConnected
  <2>1. (main \in Phases \union Handshakes /\ connecting \in BOOLEAN)'
    BY DEF TypeOK, Phases, Handshakes
  <2>2. (connected \in BOOLEAN /\ authenticated \in BOOLEAN /\ loggedIn \in BOOLEAN /\ settled \in BOOLEAN)'
    BY DEF TypeOK
  <2>3. (fault \in Faults /\ needsReconciliation \in BOOLEAN /\ raced \in BOOLEAN)'
    BY DEF TypeOK, Faults
  <2>4. (ready \subseteq Handshakes \union {"front"} /\ inflight \subseteq Handshakes)'
    BY DEF TypeOK, Handshakes
  <2>5. (session \in Nat /\ reconciledIn \in Nat)'
    BY DEF TypeOK
  <2>6. (serviceReady \in BOOLEAN /\ sessionLostLogged \in BOOLEAN /\ routerFaulted \in BOOLEAN)'
    BY DEF TypeOK
  <2>7. (frontEvents \in Nat /\ errors \in Nat /\ slow \in Nat)'
    BY DEF TypeOK
  <2>. QED
    BY <2>1, <2>2, <2>3, <2>4, <2>5, <2>6, <2>7 DEF TypeOK
<1>2. ASSUME FrontDisconnected
      PROVE  TypeOK'
  <2>. USE <1>2 DEF FrontDisconnected
  <2>1. (main \in Phases \union Handshakes /\ connecting \in BOOLEAN)'
    BY DEF TypeOK, Phases, Handshakes
  <2>2. (connected \in BOOLEAN /\ authenticated \in BOOLEAN /\ loggedIn \in BOOLEAN /\ settled \in BOOLEAN)'
    BY DEF TypeOK
  <2>3. (fault \in Faults /\ needsReconciliation \in BOOLEAN /\ raced \in BOOLEAN)'
    BY DEF TypeOK, Faults
  <2>4. (ready \subseteq Handshakes \union {"front"} /\ inflight \subseteq Handshakes)'
    BY DEF TypeOK, Handshakes
  <2>5. (session \in Nat /\ reconciledIn \in Nat)'
    BY DEF TypeOK
  <2>6. (serviceReady \in BOOLEAN /\ sessionLostLogged \in BOOLEAN /\ routerFaulted \in BOOLEAN)'
    BY DEF TypeOK
  <2>7. (frontEvents \in Nat /\ errors \in Nat /\ slow \in Nat)'
    BY DEF TypeOK
  <2>. QED
    BY <2>1, <2>2, <2>3, <2>4, <2>5, <2>6, <2>7 DEF TypeOK
<1>3. ASSUME LoggedOut
      PROVE  TypeOK'
  <2>. USE <1>3 DEF LoggedOut
  <2>1. (main \in Phases \union Handshakes /\ connecting \in BOOLEAN)'
    BY DEF TypeOK, Phases, Handshakes
  <2>2. (connected \in BOOLEAN /\ authenticated \in BOOLEAN /\ loggedIn \in BOOLEAN /\ settled \in BOOLEAN)'
    BY DEF TypeOK
  <2>3. (fault \in Faults /\ needsReconciliation \in BOOLEAN /\ raced \in BOOLEAN)'
    BY DEF TypeOK, Faults
  <2>4. (ready \subseteq Handshakes \union {"front"} /\ inflight \subseteq Handshakes)'
    BY DEF TypeOK, Handshakes
  <2>5. (session \in Nat /\ reconciledIn \in Nat)'
    BY DEF TypeOK
  <2>6. (serviceReady \in BOOLEAN /\ sessionLostLogged \in BOOLEAN /\ routerFaulted \in BOOLEAN)'
    BY DEF TypeOK
  <2>7. (frontEvents \in Nat /\ errors \in Nat /\ slow \in Nat)'
    BY DEF TypeOK
  <2>. QED
    BY <2>1, <2>2, <2>3, <2>4, <2>5, <2>6, <2>7 DEF TypeOK
<1>4. ASSUME ConversionFailure
      PROVE  TypeOK'
  <2>. USE <1>4 DEF ConversionFailure
  <2>1. (main \in Phases \union Handshakes /\ connecting \in BOOLEAN)'
    BY DEF TypeOK, Phases, Handshakes
  <2>2. (connected \in BOOLEAN /\ authenticated \in BOOLEAN /\ loggedIn \in BOOLEAN /\ settled \in BOOLEAN)'
    BY DEF TypeOK
  <2>3. (fault \in Faults /\ needsReconciliation \in BOOLEAN /\ raced \in BOOLEAN)'
    BY DEF TypeOK, Faults
  <2>4. (ready \subseteq Handshakes \union {"front"} /\ inflight \subseteq Handshakes)'
    BY DEF TypeOK, Handshakes
  <2>5. (session \in Nat /\ reconciledIn \in Nat)'
    BY DEF TypeOK
  <2>6. (serviceReady \in BOOLEAN /\ sessionLostLogged \in BOOLEAN /\ routerFaulted \in BOOLEAN)'
    BY DEF TypeOK
  <2>7. (frontEvents \in Nat /\ errors \in Nat /\ slow \in Nat)'
    BY DEF TypeOK
  <2>. QED
    BY <2>1, <2>2, <2>3, <2>4, <2>5, <2>6, <2>7 DEF TypeOK
<1>5. ASSUME NEW step \in Handshakes, AnswerOk(step)
      PROVE  TypeOK'
  BY <1>5
  DEF AnswerOk, Answered, TypeOK, Phases, Handshakes, Faults
<1>6. ASSUME NEW step \in Handshakes, AnswerError(step)
      PROVE  TypeOK'
  BY <1>6
  DEF AnswerError, Answered, TypeOK, Phases, Handshakes, Faults
<1>7. ASSUME FrontArrived
      PROVE  TypeOK'
  BY <1>7
  DEF FrontArrived, Ask, TypeOK, Phases, Handshakes, Faults
<1>8. ASSUME FrontTimeout
      PROVE  TypeOK'
  BY <1>8
  DEF FrontTimeout, TypeOK, Phases, Handshakes, Faults
<1>9. ASSUME NEW step \in Handshakes, HandshakeStep(step)
      PROVE  TypeOK'
  <2>. USE <1>9 DEF HandshakeStep, Ask, Following, Achieved
  <2>1. (main \in Phases \union Handshakes /\ connecting \in BOOLEAN)'
    BY DEF TypeOK, Phases, Handshakes
  <2>2. (connected \in BOOLEAN /\ authenticated \in BOOLEAN /\ loggedIn \in BOOLEAN /\ settled \in BOOLEAN)'
    BY DEF TypeOK
  <2>3. (fault \in Faults /\ needsReconciliation \in BOOLEAN /\ raced \in BOOLEAN)'
    BY DEF TypeOK, Faults
  <2>4. (ready \subseteq Handshakes \union {"front"} /\ inflight \subseteq Handshakes)'
    BY DEF TypeOK, Handshakes
  <2>5. (session \in Nat /\ reconciledIn \in Nat)'
    BY DEF TypeOK
  <2>6. (serviceReady \in BOOLEAN /\ sessionLostLogged \in BOOLEAN /\ routerFaulted \in BOOLEAN)'
    BY DEF TypeOK
  <2>7. (frontEvents \in Nat /\ errors \in Nat /\ slow \in Nat)'
    BY DEF TypeOK
  <2>. QED
    BY <2>1, <2>2, <2>3, <2>4, <2>5, <2>6, <2>7 DEF TypeOK
<1>10. ASSUME NEW step \in Handshakes, HandshakeRefused(step)
       PROVE  TypeOK'
  BY <1>10
  DEF HandshakeRefused, HandshakeFailed, TypeOK, Phases, Handshakes, Faults
<1>11. ASSUME NEW step \in Handshakes, HandshakeTimeout(step)
       PROVE  TypeOK'
  BY <1>11
  DEF HandshakeTimeout, HandshakeFailed, TypeOK, Phases, Handshakes, Faults
<1>12. ASSUME BeginQueries
       PROVE  TypeOK'
  BY <1>12
  DEF BeginQueries, TypeOK, Phases, Handshakes, Faults
<1>13. ASSUME TestSession
       PROVE  TypeOK'
  BY <1>13
  DEF TestSession, TypeOK, Phases, Handshakes, Faults
<1>14. ASSUME WriteReconciled
       PROVE  TypeOK'
  <2>. USE <1>14 DEF WriteReconciled
  <2>1. (main \in Phases \union Handshakes /\ connecting \in BOOLEAN)'
    BY DEF TypeOK, Phases, Handshakes
  <2>2. (connected \in BOOLEAN /\ authenticated \in BOOLEAN /\ loggedIn \in BOOLEAN /\ settled \in BOOLEAN)'
    BY DEF TypeOK
  <2>3. (fault \in Faults /\ needsReconciliation \in BOOLEAN /\ raced \in BOOLEAN)'
    BY DEF TypeOK, Faults
  <2>4. (ready \subseteq Handshakes \union {"front"} /\ inflight \subseteq Handshakes)'
    BY DEF TypeOK, Handshakes
  <2>5. (session \in Nat /\ reconciledIn \in Nat)'
    BY DEF TypeOK
  <2>6. (serviceReady \in BOOLEAN /\ sessionLostLogged \in BOOLEAN /\ routerFaulted \in BOOLEAN)'
    BY DEF TypeOK
  <2>7. (frontEvents \in Nat /\ errors \in Nat /\ slow \in Nat)'
    BY DEF TypeOK
  <2>. QED
    BY <2>1, <2>2, <2>3, <2>4, <2>5, <2>6, <2>7 DEF TypeOK
<1>15. ASSUME NEW ok \in BOOLEAN, FinishQueries(ok)
       PROVE  TypeOK'
  BY <1>15
  DEF FinishQueries, TypeOK, Phases, Handshakes, Faults
<1>16. ASSUME NEW ok \in BOOLEAN, EnableService(ok)
       PROVE  TypeOK'
  BY <1>16
  DEF EnableService, TypeOK, Phases, Handshakes, Faults
<1>17. ASSUME Maintain
       PROVE  TypeOK'
  <2>. USE <1>17 DEF Maintain, Ask, NeedsLogin, ReadyToSend
  <2>1. (main \in Phases \union Handshakes /\ connecting \in BOOLEAN)'
    BY DEF TypeOK, Phases, Handshakes
  <2>2. (connected \in BOOLEAN /\ authenticated \in BOOLEAN /\ loggedIn \in BOOLEAN /\ settled \in BOOLEAN)'
    BY DEF TypeOK
  <2>3. (fault \in Faults /\ needsReconciliation \in BOOLEAN /\ raced \in BOOLEAN)'
    BY DEF TypeOK, Faults
  <2>4. (ready \subseteq Handshakes \union {"front"} /\ inflight \subseteq Handshakes)'
    BY DEF TypeOK, Handshakes
  <2>5. (session \in Nat /\ reconciledIn \in Nat)'
    BY DEF TypeOK
  <2>6. (serviceReady \in BOOLEAN /\ sessionLostLogged \in BOOLEAN /\ routerFaulted \in BOOLEAN)'
    BY DEF TypeOK
  <2>7. (frontEvents \in Nat /\ errors \in Nat /\ slow \in Nat)'
    BY DEF TypeOK
  <2>. QED
    BY <2>1, <2>2, <2>3, <2>4, <2>5, <2>6, <2>7 DEF TypeOK
<1>18. ASSUME CheckSession
       PROVE  TypeOK'
  <2>. USE <1>18 DEF CheckSession
  <2>1. (main \in Phases \union Handshakes /\ connecting \in BOOLEAN)'
    BY DEF TypeOK, Phases, Handshakes
  <2>2. (connected \in BOOLEAN /\ authenticated \in BOOLEAN /\ loggedIn \in BOOLEAN /\ settled \in BOOLEAN)'
    BY DEF TypeOK
  <2>3. (fault \in Faults /\ needsReconciliation \in BOOLEAN /\ raced \in BOOLEAN)'
    BY DEF TypeOK, Faults
  <2>4. (ready \subseteq Handshakes \union {"front"} /\ inflight \subseteq Handshakes)'
    BY DEF TypeOK, Handshakes
  <2>5. (session \in Nat /\ reconciledIn \in Nat)'
    BY DEF TypeOK
  <2>6. (serviceReady \in BOOLEAN /\ sessionLostLogged \in BOOLEAN /\ routerFaulted \in BOOLEAN)'
    BY DEF TypeOK
  <2>7. (frontEvents \in Nat /\ errors \in Nat /\ slow \in Nat)'
    BY DEF TypeOK
  <2>. QED
    BY <2>1, <2>2, <2>3, <2>4, <2>5, <2>6, <2>7 DEF TypeOK
<1>19. ASSUME NoOrder
       PROVE  TypeOK'
  BY <1>19
  DEF NoOrder, TypeOK, Phases, Handshakes, Faults
<1>20. ASSUME TestDispatchable
       PROVE  TypeOK'
  BY <1>20
  DEF TestDispatchable, TypeOK, Phases, Handshakes, Faults
<1>21. ASSUME InsertOrder
       PROVE  TypeOK'
  BY <1>21
  DEF InsertOrder, TypeOK, Phases, Handshakes, Faults
<1>22. CASE UNCHANGED vars
  BY <1>22 DEF vars, TypeOK, Phases, Handshakes, Faults
<1>. QED
  BY <1>1, <1>2, <1>3, <1>4, <1>5, <1>6, <1>7, <1>8, <1>9, <1>10, <1>11, <1>12, <1>13,
     <1>14, <1>15, <1>16, <1>17, <1>18, <1>19, <1>20, <1>21, <1>22
  DEF Next, Callback, AccountThread

LEMMA AnswersStep ==
    ASSUME TypeOK, AnswersInv, [Next]_vars
    PROVE  AnswersInv'
<1>. USE DEF sessionVars, gateVars, serviceVars, boundVars, unchangedByMain, At, GoTo, FrontEvent
<1>1. ASSUME FrontConnected
      PROVE  AnswersInv'
  BY <1>1
  DEF FrontConnected, AnswersInv, Handshakes, TypeOK
<1>2. ASSUME FrontDisconnected
      PROVE  AnswersInv'
  BY <1>2
  DEF FrontDisconnected, AnswersInv, Handshakes, TypeOK
<1>3. ASSUME LoggedOut
      PROVE  AnswersInv'
  BY <1>3
  DEF LoggedOut, AnswersInv, Handshakes, TypeOK
<1>4. ASSUME ConversionFailure
      PROVE  AnswersInv'
  BY <1>4
  DEF ConversionFailure, AnswersInv, Handshakes, TypeOK
<1>5. ASSUME NEW step \in Handshakes, AnswerOk(step)
      PROVE  AnswersInv'
  BY <1>5
  DEF AnswerOk, Answered, AnswersInv, Handshakes, TypeOK
<1>6. ASSUME NEW step \in Handshakes, AnswerError(step)
      PROVE  AnswersInv'
  BY <1>6
  DEF AnswerError, Answered, AnswersInv, Handshakes, TypeOK
<1>7. ASSUME FrontArrived
      PROVE  AnswersInv'
  BY <1>7
  DEF FrontArrived, Ask, AnswersInv, Handshakes, TypeOK
<1>8. ASSUME FrontTimeout
      PROVE  AnswersInv'
  BY <1>8
  DEF FrontTimeout, AnswersInv, Handshakes, TypeOK
<1>9. ASSUME NEW step \in Handshakes, HandshakeStep(step)
      PROVE  AnswersInv'
  BY <1>9
  DEF HandshakeStep, Ask, Following, Achieved, AnswersInv, Handshakes, TypeOK
<1>10. ASSUME NEW step \in Handshakes, HandshakeRefused(step)
       PROVE  AnswersInv'
  BY <1>10
  DEF HandshakeRefused, HandshakeFailed, AnswersInv, Handshakes, TypeOK
<1>11. ASSUME NEW step \in Handshakes, HandshakeTimeout(step)
       PROVE  AnswersInv'
  BY <1>11
  DEF HandshakeTimeout, HandshakeFailed, AnswersInv, Handshakes, TypeOK
<1>12. ASSUME BeginQueries
       PROVE  AnswersInv'
  BY <1>12
  DEF BeginQueries, AnswersInv, Handshakes, TypeOK
<1>13. ASSUME TestSession
       PROVE  AnswersInv'
  BY <1>13
  DEF TestSession, AnswersInv, Handshakes, TypeOK
<1>14. ASSUME WriteReconciled
       PROVE  AnswersInv'
  BY <1>14
  DEF WriteReconciled, AnswersInv, Handshakes, TypeOK
<1>15. ASSUME NEW ok \in BOOLEAN, FinishQueries(ok)
       PROVE  AnswersInv'
  BY <1>15
  DEF FinishQueries, AnswersInv, Handshakes, TypeOK
<1>16. ASSUME NEW ok \in BOOLEAN, EnableService(ok)
       PROVE  AnswersInv'
  BY <1>16
  DEF EnableService, AnswersInv, Handshakes, TypeOK
<1>17. ASSUME Maintain
       PROVE  AnswersInv'
  BY <1>17
  DEF Maintain, Ask, NeedsLogin, ReadyToSend, AnswersInv, Handshakes, TypeOK
<1>18. ASSUME CheckSession
       PROVE  AnswersInv'
  BY <1>18
  DEF CheckSession, AnswersInv, Handshakes, TypeOK
<1>19. ASSUME NoOrder
       PROVE  AnswersInv'
  BY <1>19
  DEF NoOrder, AnswersInv, Handshakes, TypeOK
<1>20. ASSUME TestDispatchable
       PROVE  AnswersInv'
  BY <1>20
  DEF TestDispatchable, AnswersInv, Handshakes, TypeOK
<1>21. ASSUME InsertOrder
       PROVE  AnswersInv'
  BY <1>21
  DEF InsertOrder, AnswersInv, Handshakes, TypeOK
<1>22. CASE UNCHANGED vars
  BY <1>22 DEF vars, AnswersInv, Handshakes, TypeOK
<1>. QED
  BY <1>1, <1>2, <1>3, <1>4, <1>5, <1>6, <1>7, <1>8, <1>9, <1>10, <1>11, <1>12, <1>13,
     <1>14, <1>15, <1>16, <1>17, <1>18, <1>19, <1>20, <1>21, <1>22
  DEF Next, Callback, AccountThread

LEMMA LoginStep ==
    ASSUME TypeOK, AnswersInv, LoginInv, [Next]_vars
    PROVE  LoginInv'
<1>. USE DEF sessionVars, gateVars, serviceVars, boundVars, unchangedByMain, At, GoTo, FrontEvent
<1>1. ASSUME FrontConnected
      PROVE  LoginInv'
  BY <1>1
  DEF FrontConnected, LoginInv, AnswersInv, Handshakes, TypeOK, ReadyToSend
<1>2. ASSUME FrontDisconnected
      PROVE  LoginInv'
  BY <1>2
  DEF FrontDisconnected, LoginInv, AnswersInv, Handshakes, TypeOK, ReadyToSend
<1>3. ASSUME LoggedOut
      PROVE  LoginInv'
  BY <1>3
  DEF LoggedOut, LoginInv, AnswersInv, Handshakes, TypeOK, ReadyToSend
<1>4. ASSUME ConversionFailure
      PROVE  LoginInv'
  BY <1>4
  DEF ConversionFailure, LoginInv, AnswersInv, Handshakes, TypeOK, ReadyToSend
<1>5. ASSUME NEW step \in Handshakes, AnswerOk(step)
      PROVE  LoginInv'
  BY <1>5
  DEF AnswerOk, Answered, LoginInv, AnswersInv, Handshakes, TypeOK, ReadyToSend
<1>6. ASSUME NEW step \in Handshakes, AnswerError(step)
      PROVE  LoginInv'
  BY <1>6
  DEF AnswerError, Answered, LoginInv, AnswersInv, Handshakes, TypeOK, ReadyToSend
<1>7. ASSUME FrontArrived
      PROVE  LoginInv'
  BY <1>7
  DEF FrontArrived, Ask, LoginInv, AnswersInv, Handshakes, TypeOK, ReadyToSend
<1>8. ASSUME FrontTimeout
      PROVE  LoginInv'
  BY <1>8
  DEF FrontTimeout, LoginInv, AnswersInv, Handshakes, TypeOK, ReadyToSend
<1>9. ASSUME NEW step \in Handshakes, HandshakeStep(step)
      PROVE  LoginInv'
  BY <1>9
  DEF HandshakeStep, Ask, Following, Achieved, LoginInv, AnswersInv, Handshakes, TypeOK,
      ReadyToSend
<1>10. ASSUME NEW step \in Handshakes, HandshakeRefused(step)
       PROVE  LoginInv'
  BY <1>10
  DEF HandshakeRefused, HandshakeFailed, LoginInv, AnswersInv, Handshakes, TypeOK, ReadyToSend
<1>11. ASSUME NEW step \in Handshakes, HandshakeTimeout(step)
       PROVE  LoginInv'
  BY <1>11
  DEF HandshakeTimeout, HandshakeFailed, LoginInv, AnswersInv, Handshakes, TypeOK, ReadyToSend
<1>12. ASSUME BeginQueries
       PROVE  LoginInv'
  BY <1>12
  DEF BeginQueries, LoginInv, AnswersInv, Handshakes, TypeOK, ReadyToSend
<1>13. ASSUME TestSession
       PROVE  LoginInv'
  BY <1>13
  DEF TestSession, LoginInv, AnswersInv, Handshakes, TypeOK, ReadyToSend
<1>14. ASSUME WriteReconciled
       PROVE  LoginInv'
  BY <1>14
  DEF WriteReconciled, LoginInv, AnswersInv, Handshakes, TypeOK, ReadyToSend
<1>15. ASSUME NEW ok \in BOOLEAN, FinishQueries(ok)
       PROVE  LoginInv'
  BY <1>15
  DEF FinishQueries, LoginInv, AnswersInv, Handshakes, TypeOK, ReadyToSend
<1>16. ASSUME NEW ok \in BOOLEAN, EnableService(ok)
       PROVE  LoginInv'
  BY <1>16
  DEF EnableService, LoginInv, AnswersInv, Handshakes, TypeOK, ReadyToSend
<1>17. ASSUME Maintain
       PROVE  LoginInv'
  BY <1>17
  DEF Maintain, Ask, NeedsLogin, ReadyToSend, LoginInv, AnswersInv, Handshakes, TypeOK,
      ReadyToSend
<1>18. ASSUME CheckSession
       PROVE  LoginInv'
  BY <1>18
  DEF CheckSession, LoginInv, AnswersInv, Handshakes, TypeOK, ReadyToSend
<1>19. ASSUME NoOrder
       PROVE  LoginInv'
  BY <1>19
  DEF NoOrder, LoginInv, AnswersInv, Handshakes, TypeOK, ReadyToSend
<1>20. ASSUME TestDispatchable
       PROVE  LoginInv'
  BY <1>20
  DEF TestDispatchable, LoginInv, AnswersInv, Handshakes, TypeOK, ReadyToSend
<1>21. ASSUME InsertOrder
       PROVE  LoginInv'
  BY <1>21
  DEF InsertOrder, LoginInv, AnswersInv, Handshakes, TypeOK, ReadyToSend
<1>22. CASE UNCHANGED vars
  BY <1>22 DEF vars, LoginInv, AnswersInv, Handshakes, TypeOK, ReadyToSend
<1>. QED
  BY <1>1, <1>2, <1>3, <1>4, <1>5, <1>6, <1>7, <1>8, <1>9, <1>10, <1>11, <1>12, <1>13,
     <1>14, <1>15, <1>16, <1>17, <1>18, <1>19, <1>20, <1>21, <1>22
  DEF Next, Callback, AccountThread

LEMMA MarkStep ==
    ASSUME TypeOK, AnswersInv, LoginInv, MarkInv \/ raced, [Next]_vars
    PROVE  (MarkInv \/ raced)'
<1>. USE DEF sessionVars, gateVars, serviceVars, boundVars, unchangedByMain, At, GoTo, FrontEvent
<1>1. ASSUME FrontConnected
      PROVE  (MarkInv \/ raced)'
  BY <1>1
  DEF FrontConnected, MarkInv, LoginInv, AnswersInv, Handshakes, TypeOK, SessionUp,
      ReadyToSend, Phases
<1>2. ASSUME FrontDisconnected
      PROVE  (MarkInv \/ raced)'
  BY <1>2
  DEF FrontDisconnected, MarkInv, LoginInv, AnswersInv, Handshakes, TypeOK, SessionUp,
      ReadyToSend, Phases
<1>3. ASSUME LoggedOut
      PROVE  (MarkInv \/ raced)'
  BY <1>3
  DEF LoggedOut, MarkInv, LoginInv, AnswersInv, Handshakes, TypeOK, SessionUp, ReadyToSend,
      Phases
<1>4. ASSUME ConversionFailure
      PROVE  (MarkInv \/ raced)'
  BY <1>4
  DEF ConversionFailure, MarkInv, LoginInv, AnswersInv, Handshakes, TypeOK, SessionUp,
      ReadyToSend, Phases
<1>5. ASSUME NEW step \in Handshakes, AnswerOk(step)
      PROVE  (MarkInv \/ raced)'
  BY <1>5
  DEF AnswerOk, Answered, MarkInv, LoginInv, AnswersInv, Handshakes, TypeOK, SessionUp,
      ReadyToSend, Phases
<1>6. ASSUME NEW step \in Handshakes, AnswerError(step)
      PROVE  (MarkInv \/ raced)'
  BY <1>6
  DEF AnswerError, Answered, MarkInv, LoginInv, AnswersInv, Handshakes, TypeOK, SessionUp,
      ReadyToSend, Phases
<1>7. ASSUME FrontArrived
      PROVE  (MarkInv \/ raced)'
  BY <1>7
  DEF FrontArrived, Ask, MarkInv, LoginInv, AnswersInv, Handshakes, TypeOK, SessionUp,
      ReadyToSend, Phases
<1>8. ASSUME FrontTimeout
      PROVE  (MarkInv \/ raced)'
  BY <1>8
  DEF FrontTimeout, MarkInv, LoginInv, AnswersInv, Handshakes, TypeOK, SessionUp, ReadyToSend,
      Phases
<1>9. ASSUME NEW step \in Handshakes, HandshakeStep(step)
      PROVE  (MarkInv \/ raced)'
  BY <1>9
  DEF HandshakeStep, Ask, Following, Achieved, MarkInv, LoginInv, AnswersInv, Handshakes,
      TypeOK, SessionUp, ReadyToSend, Phases
<1>10. ASSUME NEW step \in Handshakes, HandshakeRefused(step)
       PROVE  (MarkInv \/ raced)'
  BY <1>10
  DEF HandshakeRefused, HandshakeFailed, MarkInv, LoginInv, AnswersInv, Handshakes, TypeOK,
      SessionUp, ReadyToSend, Phases
<1>11. ASSUME NEW step \in Handshakes, HandshakeTimeout(step)
       PROVE  (MarkInv \/ raced)'
  BY <1>11
  DEF HandshakeTimeout, HandshakeFailed, MarkInv, LoginInv, AnswersInv, Handshakes, TypeOK,
      SessionUp, ReadyToSend, Phases
<1>12. ASSUME BeginQueries
       PROVE  (MarkInv \/ raced)'
  BY <1>12
  DEF BeginQueries, MarkInv, LoginInv, AnswersInv, Handshakes, TypeOK, SessionUp, ReadyToSend,
      Phases
<1>13. ASSUME TestSession
       PROVE  (MarkInv \/ raced)'
  BY <1>13
  DEF TestSession, MarkInv, LoginInv, AnswersInv, Handshakes, TypeOK, SessionUp, ReadyToSend,
      Phases
<1>14. ASSUME WriteReconciled
       PROVE  (MarkInv \/ raced)'
  BY <1>14
  DEF WriteReconciled, MarkInv, LoginInv, AnswersInv, Handshakes, TypeOK, SessionUp,
      ReadyToSend, Phases
<1>15. ASSUME NEW ok \in BOOLEAN, FinishQueries(ok)
       PROVE  (MarkInv \/ raced)'
  BY <1>15
  DEF FinishQueries, MarkInv, LoginInv, AnswersInv, Handshakes, TypeOK, SessionUp,
      ReadyToSend, Phases
<1>16. ASSUME NEW ok \in BOOLEAN, EnableService(ok)
       PROVE  (MarkInv \/ raced)'
  BY <1>16
  DEF EnableService, MarkInv, LoginInv, AnswersInv, Handshakes, TypeOK, SessionUp,
      ReadyToSend, Phases
<1>17. ASSUME Maintain
       PROVE  (MarkInv \/ raced)'
  BY <1>17
  DEF Maintain, Ask, NeedsLogin, ReadyToSend, MarkInv, LoginInv, AnswersInv, Handshakes,
      TypeOK, SessionUp, ReadyToSend, Phases
<1>18. ASSUME CheckSession
       PROVE  (MarkInv \/ raced)'
  BY <1>18
  DEF CheckSession, MarkInv, LoginInv, AnswersInv, Handshakes, TypeOK, SessionUp, ReadyToSend,
      Phases
<1>19. ASSUME NoOrder
       PROVE  (MarkInv \/ raced)'
  BY <1>19
  DEF NoOrder, MarkInv, LoginInv, AnswersInv, Handshakes, TypeOK, SessionUp, ReadyToSend,
      Phases
<1>20. ASSUME TestDispatchable
       PROVE  (MarkInv \/ raced)'
  BY <1>20
  DEF TestDispatchable, MarkInv, LoginInv, AnswersInv, Handshakes, TypeOK, SessionUp,
      ReadyToSend, Phases
<1>21. ASSUME InsertOrder
       PROVE  (MarkInv \/ raced)'
  BY <1>21
  DEF InsertOrder, MarkInv, LoginInv, AnswersInv, Handshakes, TypeOK, SessionUp, ReadyToSend,
      Phases
<1>22. CASE UNCHANGED vars
  BY <1>22 DEF vars, MarkInv, LoginInv, AnswersInv, Handshakes, TypeOK, SessionUp, ReadyToSend, Phases
<1>. QED
  BY <1>1, <1>2, <1>3, <1>4, <1>5, <1>6, <1>7, <1>8, <1>9, <1>10, <1>11, <1>12, <1>13,
     <1>14, <1>15, <1>16, <1>17, <1>18, <1>19, <1>20, <1>21, <1>22
  DEF Next, Callback, AccountThread

-------------------------------------------------------------------------------
\* Types, and the invariant, for any number of disconnects, errors and late answers.
THEOREM SessionCorrect == Spec => [](TypeOK /\ SessionInv)
<1>1. Init => TypeOK /\ SessionInv
  <2>. SUFFICES ASSUME Init
                PROVE  TypeOK /\ SessionInv
    OBVIOUS
  <2>1. TypeOK
    BY DEF Init, TypeOK, Phases, Handshakes, Faults
  <2>2. AnswersInv /\ LoginInv
    BY DEF Init, AnswersInv, LoginInv
  <2>3. MarkInv
    BY DEF Init, MarkInv
  <2>. QED
    BY <2>1, <2>2, <2>3 DEF SessionInv
<1>2. TypeOK /\ SessionInv /\ [Next]_vars => (TypeOK /\ SessionInv)'
  BY TypeStep, AnswersStep, LoginStep, MarkStep DEF SessionInv
<1>. QED
  BY <1>1, <1>2, PTL DEF Spec

\* An order is handed to a session that is up only if the reconciliation that opened
\* the gate was made in that session, or the session went while mark_reconciled was
\* between its test and its write (ctp_gateway.py, live_assembly.py).
THEOREM OnlyTheRace == Spec => OnlyTheRaceReopens
<1>1. TypeOK /\ SessionInv /\ [Next]_vars
         => [(main = "inserting" /\ main' = "maintain" /\ SessionUp) => reconciledIn = session \/ raced]_vars
  BY DEF SessionInv, MarkInv
<1>. QED
  BY <1>1, SessionCorrect, PTL DEF Spec, OnlyTheRaceReopens

-------------------------------------------------------------------------------
(* The feed of the market gateway *)

\* A snapshot that is a price; empty ones are dropped before the queue.
Priced(t) == t.kind # "empty"
InQueue == Feed!ToSet(queue)
OnWire == Feed!ToSet(wire)
Flying == {t \in OnWire \union InQueue : Priced(t)}
InOrder(s) ==
    \A i, j \in DOMAIN s : i < j /\ Priced(s[i]) /\ Priced(s[j]) => s[i].time < s[j].time

\* The bar of a bucket.
Bars == [start : Nat, end : Nat, open : Int, high : Int, low : Int, close : Int, volume : Int]
BarOf(b) ==
    [start |-> b.start, end |-> b.end, open |-> b.first.price, high |-> b.high,
     low |-> b.low, close |-> b.last.price, volume |-> b.volume]

\* The types, also of what a bar is made from.
FeedTypes ==
    /\ Feed!FeedTypeOK
    /\ emitted \subseteq Snapshots /\ IsFiniteSet(emitted)
    /\ wire \in Seq(Snapshots) /\ queue \in Seq(Snapshots)
    /\ agg.last \in Snapshots \union {None} /\ agg.bucket \in Buckets \union {None}
    /\ agg = [bucket |-> agg.bucket, last |-> agg.last, session |-> agg.session,
              event |-> agg.event, closed |-> agg.closed]
    /\ bars \in Seq(Bars) /\ agg.event \in Int /\ agg.closed \in Nat

\* The exchange: one trade an instant, none ahead of the clock.
ExchangeInv ==
    /\ \A t \in emitted : t.kind = "ok" /\ t.time <= clock
    /\ \A t, u \in emitted : t.time = u.time => t = u

\* The aggregator is as it was made until the loop runs; while nothing was lost,
\* the loop runs on a subscription.
InLoop == loop \in {"health", "drain", "advance"}
Untouched == agg.last = None /\ agg.bucket = None /\ agg.event = -1 /\ bars = <<>>
LoopInv ==
    /\ loop \in {"front", "login"} =>
           wire = <<>> /\ queue = <<>> /\ ~link.subscribed /\ link.asked # "market"
    /\ loop \in {"front", "login", "subscribed"} => Untouched
    /\ InLoop \/ ~Untouched => link.subscribed
    /\ link.subscribed => link.asked = "market" \/ counts # {}

\* Times at which a bucket may begin or end.
OnGrid(x) ==
    \E s \in Sessions :
        s.start < x /\ (x = s.end \/ (x < s.end /\ \E k \in Nat : x = s.start + k * Interval))

\* A bucket lies in a session and after what is closed, bars follow one another.
BucketPlaced(b, c) ==
    /\ c <= b.start /\ b.start < b.end /\ OnGrid(b.end)
    /\ \E s \in Sessions : s.start <= b.start /\ b.end <= s.end
    /\ b.start <= b.first.time /\ b.last.time < b.end
BarsPlaced(s, c, now) ==
    /\ \A i \in DOMAIN s : s[i].end <= c /\ s[i].end <= now
    /\ \A i \in 1..(Len(s) - 1) : s[i].end <= s[i + 1].start
GridInv ==
    /\ agg.closed = 0 \/ OnGrid(agg.closed)
    /\ agg.bucket # None => BucketPlaced(agg.bucket, agg.closed)
    /\ BarsPlaced(bars, agg.closed, clock)

\* Nothing is lost yet, as far as the process can know.
Live == counts = {} /\ ~paused /\ link.asked = "market"

\* Later than the last snapshot taken, or than one that is still to come.
Later(e) == (agg.last # None /\ agg.event < e.time) \/ \E t \in Flying : t.time < e.time

\* What comes is what the exchange sent, in order and without a hole.
PipeInv ==
    /\ InQueue \subseteq emitted
    /\ \A t \in OnWire : Priced(t) => \E e \in emitted : e.time = t.time /\ (t.kind = "ok" => e = t)
    /\ InOrder(wire) /\ InOrder(queue)
    /\ \A t \in InQueue, u \in OnWire : Priced(u) => t.time < u.time
    /\ \A t \in Flying : agg.event < t.time
    /\ \A e \in emitted : Later(e) => \E t \in Flying : t.time = e.time

\* What has been taken, and the bar that it makes so far.
TakenFrom(b) == {e \in emitted : b.first.time <= e.time /\ e.time <= b.last.time}
VolumeInv(b) ==
    \/ b.first.time = b.start /\ b.volume = b.last.volume - b.first.volume
    \/ \E p \in emitted :
           /\ p.time < b.start /\ Feed!SessionAt(p.time) = Feed!SessionAt(b.start)
           /\ \A e \in emitted : e.time < b.start => e.time <= p.time
           /\ b.volume = b.last.volume - p.volume

BucketInv(b) ==
    /\ b.last = agg.last /\ b.first \in emitted /\ b.first.time <= b.last.time
    /\ b.count >= 2 => b.first.time < b.last.time
    /\ \A e \in TakenFrom(b) : b.low <= e.price /\ e.price <= b.high
    /\ \E e \in TakenFrom(b) : e.price = b.low
    /\ \E e \in TakenFrom(b) : e.price = b.high
    /\ b.complete => /\ \A e \in emitted : b.start <= e.time => b.first.time <= e.time
                     /\ VolumeInv(b)

TakenInv ==
    /\ agg.last = None => agg.bucket = None /\ agg.event = -1
    /\ agg.last # None =>
           /\ agg.last \in emitted /\ agg.event = agg.last.time
           /\ agg.session = Feed!SessionAt(agg.last.time) /\ agg.session \in Sessions
    /\ agg.bucket # None => BucketInv(agg.bucket)
    /\ agg.bucket = None /\ agg.last # None => agg.last.time < agg.closed

TrueBars == \A i \in DOMAIN bars : Feed!TrueBar(bars[i]) \/ Feed!InFlight(bars[i])

FeedInv ==
    /\ FeedTypes /\ ExchangeInv /\ LoopInv /\ GridInv
    /\ Live => PipeInv /\ TakenInv
    /\ counts = {} /\ ~paused => TrueBars

-------------------------------------------------------------------------------
(* Sequences: what is put in at the end and taken from the front. *)

LEMMA Entered ==
  ASSUME NEW S, NEW s \in Seq(S), NEW e \in S
  PROVE  /\ Append(s, e) \in Seq(S) /\ Len(Append(s, e)) = Len(s) + 1
         /\ Feed!ToSet(Append(s, e)) = Feed!ToSet(s) \union {e}
<1>1. /\ Append(s, e) \in Seq(S) /\ Len(Append(s, e)) = Len(s) + 1 /\ Len(s) \in Nat
      /\ \A i \in 1..Len(s) : Append(s, e)[i] = s[i]
      /\ Append(s, e)[Len(s) + 1] = e
      /\ DOMAIN s = 1..Len(s) /\ DOMAIN Append(s, e) = 1..(Len(s) + 1)
  OBVIOUS
<1>2. \A i \in 1..(Len(s) + 1) : i \in 1..Len(s) \/ i = Len(s) + 1
  BY <1>1
<1>. QED BY <1>1, <1>2 DEF Feed!ToSet

LEMMA LeftFirst ==
  ASSUME NEW S, NEW s \in Seq(S), s # <<>>
  PROVE  /\ Head(s) \in S /\ Tail(s) \in Seq(S) /\ Len(Tail(s)) = Len(s) - 1
         /\ Feed!ToSet(s) = Feed!ToSet(Tail(s)) \union {Head(s)}
<1>1. /\ Head(s) \in S /\ Tail(s) \in Seq(S) /\ Len(Tail(s)) = Len(s) - 1 /\ Len(s) \in Nat /\ Len(s) >= 1
      /\ Head(s) = s[1] /\ \A i \in 1..(Len(s) - 1) : Tail(s)[i] = s[i + 1]
      /\ DOMAIN s = 1..Len(s) /\ DOMAIN Tail(s) = 1..(Len(s) - 1)
  OBVIOUS
<1>2. \A i \in 1..Len(s) : i = 1 \/ (i - 1 \in 1..(Len(s) - 1) /\ s[i] = Tail(s)[i - 1])
  BY <1>1
<1>3. \A i \in 1..(Len(s) - 1) : i + 1 \in 1..Len(s) /\ Tail(s)[i] = s[i + 1]
  BY <1>1
<1>4. 1 \in 1..Len(s)
  BY <1>1
<1>5. \A x : x \in Feed!ToSet(s) <=> \E i \in 1..Len(s) : x = s[i]
  BY <1>1 DEF Feed!ToSet
<1>6. \A x : x \in Feed!ToSet(Tail(s)) <=> \E i \in 1..(Len(s) - 1) : x = Tail(s)[i]
  BY <1>1 DEF Feed!ToSet
<1>7. ASSUME NEW x \in Feed!ToSet(s) PROVE x \in Feed!ToSet(Tail(s)) \/ x = Head(s)
  <2>1. PICK i \in 1..Len(s) : x = s[i]
    BY <1>5, <1>7
  <2>2. CASE i = 1
    BY <1>1, <2>1, <2>2
  <2>3. CASE i - 1 \in 1..(Len(s) - 1) /\ s[i] = Tail(s)[i - 1]
    BY <1>6, <2>1, <2>3
  <2>. QED BY <1>2, <2>2, <2>3
<1>8. ASSUME NEW x \in Feed!ToSet(Tail(s)) PROVE x \in Feed!ToSet(s)
  BY <1>3, <1>5, <1>6, <1>8
<1>9. Head(s) \in Feed!ToSet(s)
  BY <1>1, <1>4, <1>5
<1>. QED BY <1>1, <1>7, <1>8, <1>9

LEMMA Within ==
  ASSUME NEW S, NEW s \in Seq(S)
  PROVE  /\ Feed!ToSet(s) \subseteq S /\ Feed!ToSet(<<>>) = {}
BY DEF Feed!ToSet

LEMMA OrderedAppend ==
  ASSUME NEW s \in Seq(Snapshots), NEW e \in Snapshots, InOrder(s),
         \A t \in Feed!ToSet(s) : Priced(t) /\ Priced(e) => t.time < e.time
  PROVE  InOrder(Append(s, e))
<1>1. /\ Len(s) \in Nat /\ DOMAIN s = 1..Len(s) /\ DOMAIN Append(s, e) = 1..(Len(s) + 1)
      /\ \A i \in 1..Len(s) : Append(s, e)[i] = s[i]
      /\ Append(s, e)[Len(s) + 1] = e
  OBVIOUS
<1>. SUFFICES ASSUME NEW i \in 1..(Len(s) + 1), NEW j \in 1..(Len(s) + 1), i < j,
                     Priced(Append(s, e)[i]), Priced(Append(s, e)[j])
              PROVE  Append(s, e)[i].time < Append(s, e)[j].time
  BY <1>1 DEF InOrder
<1>2. i \in 1..Len(s)
  BY <1>1
<1>3. CASE j \in 1..Len(s)
  BY <1>1, <1>2, <1>3 DEF InOrder
<1>4. CASE j = Len(s) + 1
  <2>1. s[i] \in Feed!ToSet(s)
    BY <1>1, <1>2 DEF Feed!ToSet
  <2>. QED BY <1>1, <1>2, <1>4, <2>1
<1>. QED BY <1>1, <1>3, <1>4

LEMMA OrderedTail ==
  ASSUME NEW s \in Seq(Snapshots), s # <<>>, InOrder(s)
  PROVE  /\ InOrder(Tail(s))
         /\ \A t \in Feed!ToSet(Tail(s)) : Priced(Head(s)) /\ Priced(t) => Head(s).time < t.time
<1>1. /\ Len(s) \in Nat /\ Len(s) >= 1
      /\ Head(s) = s[1] /\ \A i \in 1..(Len(s) - 1) : Tail(s)[i] = s[i + 1]
      /\ DOMAIN s = 1..Len(s) /\ DOMAIN Tail(s) = 1..(Len(s) - 1)
  OBVIOUS
<1>2. \A i \in 1..(Len(s) - 1) : i + 1 \in 1..Len(s) /\ 1 < i + 1 /\ Tail(s)[i] = s[i + 1]
  BY <1>1
<1>3. 1 \in 1..Len(s)
  BY <1>1
<1>4. \A i, j \in 1..(Len(s) - 1) : i < j => i + 1 < j + 1
  BY <1>1
<1>5. InOrder(Tail(s))
  BY <1>1, <1>2, <1>4 DEF InOrder
<1>6. \A t \in Feed!ToSet(Tail(s)) : Priced(Head(s)) /\ Priced(t) => Head(s).time < t.time
  BY <1>1, <1>2, <1>3 DEF InOrder, Feed!ToSet
<1>. QED BY <1>5, <1>6

LEMMA EmptyOrdered == InOrder(<<>>)
BY DEF InOrder

LEMMA CountedFeed == \A S : Feed!Cardinality(S) = Cardinality(S)
BY DEF Feed!Cardinality, Cardinality

-------------------------------------------------------------------------------
(* Sessions, and the grid of the bars in them. *)

LEMMA SessionOf ==
  ASSUME NEW s \in Sessions, NEW x \in Int, s.start <= x, x < s.end
  PROVE  Feed!SessionAt(x) = s
<1>1. \A u \in Sessions : u.start \in Nat /\ u.end \in Nat
  BY FeedAssumption
<1>2. \A u \in Sessions : u.start <= x /\ x < u.end => u = s
  <2>. SUFFICES ASSUME NEW u \in Sessions, u.start <= x, x < u.end PROVE u = s
    OBVIOUS
  <2>1. s = u \/ s.end <= u.start \/ u.end <= s.start
    BY FeedAssumption
  <2>. QED BY <1>1, <2>1
<1>. QED BY <1>2 DEF Feed!SessionAt

LEMMA InSession ==
  ASSUME NEW x \in Int, Feed!SessionAt(x) # None
  PROVE  LET s == Feed!SessionAt(x)
         IN s \in Sessions /\ s.start \in Nat /\ s.end \in Nat /\ s.start <= x /\ x < s.end
<1>1. PICK s \in Sessions : s.start <= x /\ x < s.end
  BY DEF Feed!SessionAt
<1>2. Feed!SessionAt(x) = s
  BY <1>1, SessionOf
<1>3. s.start \in Nat /\ s.end \in Nat
  BY FeedAssumption
<1>. QED BY <1>1, <1>2, <1>3

\* The last point of a grid that is not after x is not before any other such.
LEMMA LastPoint ==
  ASSUME NEW x \in Nat, NEW d \in Nat \ {0}
  PROVE  /\ (x \div d) \in Nat /\ (x \div d) * d \in Nat
         /\ (x \div d) * d <= x /\ x < (x \div d) * d + d
         /\ \A k \in Nat : k * d <= x => k * d <= (x \div d) * d
<1>1. (x \div d) \in Nat /\ x = d * (x \div d) + (x % d) /\ x % d \in Nat /\ x % d < d
  OBVIOUS
<1>. DEFINE q == x \div d
<1>2. q \in Nat /\ x = d * q + (x % d)
  BY <1>1
<1>3. \A k \in Nat : q + 1 <= k => q * d + d <= k * d
  OBVIOUS
<1>4. q * d \in Nat /\ d * q = q * d
  BY <1>2
<1>. HIDE DEF q
<1>5. q * d <= x /\ x < q * d + d
  BY <1>1, <1>2, <1>4
<1>6. ASSUME NEW k \in Nat, k * d <= x PROVE k * d <= q * d
  <2>1. CASE k <= q
    BY <1>2, <2>1, <1>4
  <2>2. CASE q + 1 <= k
    <3>1. q * d + d <= k * d
      BY <1>3, <2>2
    <3>2. k * d \in Nat /\ q * d \in Nat /\ d \in Nat
      BY <1>2, <1>4
    <3>. QED BY ONLY <3>1, <3>2, <1>5, <1>6, x \in Nat
  <2>. QED BY <1>2, <2>1, <2>2
<1>. QED BY <1>2, <1>4, <1>5, <1>6 DEF q

-------------------------------------------------------------------------------
(* What the aggregator makes of a snapshot and of the clock. *)

LEMMA NoneIsNothing ==
  /\ \A s \in Sessions : s # None
  /\ \A t \in Snapshots : t # None
  /\ \A b \in Buckets : b # None
BY FeedAssumption

LEMMA NewBucketIs ==
  ASSUME NEW a, NEW t \in Snapshots, NEW traded \in Int,
         Feed!SessionAt(t.time) # None,
         NEW c \in Nat, c = 0 \/ OnGrid(c), c <= t.time,
         NEW b, b = Feed!NewBucket(a, t, traded)
  PROVE  /\ BucketPlaced(b, c) /\ b.start \in Nat /\ b.end \in Nat /\ b.start <= t.time
         /\ Feed!SessionAt(b.start) = Feed!SessionAt(t.time)
<1>. DEFINE s == Feed!SessionAt(t.time)
            k == (t.time - s.start) \div Interval
            start == s.start + k * Interval
<1>1. t.time \in Nat
  BY FeedAssumption DEF Snapshots
<1>2. s \in Sessions /\ s.start \in Nat /\ s.end \in Nat /\ s.start <= t.time /\ t.time < s.end
  BY <1>1, InSession
<1>3. Interval \in Nat \ {0}
  BY FeedAssumption
<1>. HIDE DEF s
<1>4. /\ k \in Nat /\ k * Interval \in Nat
      /\ k * Interval <= t.time - s.start /\ t.time - s.start < k * Interval + Interval
      /\ \A m \in Nat : m * Interval <= t.time - s.start => m * Interval <= k * Interval
  <2>1. t.time - s.start \in Nat
    BY <1>1, <1>2
  <2>. QED BY <2>1, <1>3, LastPoint
<1>. HIDE DEF k
<1>5. start \in Nat /\ start <= t.time /\ t.time < start + Interval /\ s.start <= start /\ start < s.end
  BY <1>1, <1>2, <1>3, <1>4
<1>6. /\ b.start = start /\ b.first = t /\ b.last = t
      /\ b.end = IF start + Interval < s.end THEN start + Interval ELSE s.end
  BY DEF Feed!NewBucket, k, s
<1>7. t.time < b.end /\ start < b.end /\ b.end <= s.end /\ b.end \in Nat
  BY <1>1, <1>2, <1>3, <1>5, <1>6
<1>8. OnGrid(b.end)
  <2>1. CASE b.end = s.end
    BY <1>1, <1>2, <2>1 DEF OnGrid
  <2>2. CASE start + Interval < s.end
    <3>1. b.end = s.start + (k + 1) * Interval
      <4>1. (k + 1) * Interval = k * Interval + Interval
        BY <1>3, <1>4
      <4>. QED BY <1>2, <1>3, <1>4, <1>6, <2>2, <4>1
    <3>2. k + 1 \in Nat /\ s.start < b.end /\ b.end < s.end
      BY <1>2, <1>3, <1>4, <1>5, <1>6, <1>7, <2>2
    <3>. QED BY <1>2, <3>1, <3>2 DEF OnGrid
  <2>. QED BY <1>6, <2>1, <2>2
<1>9. c <= start
  <2>1. CASE c <= s.start
    BY <1>2, <1>5, <2>1
  <2>2. CASE s.start < c
    <3>1. PICK u \in Sessions : u.start < c /\ (c = u.end \/ (c < u.end /\ \E m \in Nat : c = u.start + m * Interval))
      BY <1>2, <2>2 DEF OnGrid
    <3>2. u.start \in Nat /\ u.end \in Nat
      BY FeedAssumption
    <3>3. u = s
      <4>1. u = s \/ u.end <= s.start \/ s.end <= u.start
        BY <1>2, FeedAssumption
      <4>. QED BY <1>1, <1>2, <2>2, <3>1, <3>2, <4>1
    <3>4. c < s.end
      BY <1>1, <1>2
    <3>5. PICK m \in Nat : c = s.start + m * Interval
      BY <1>2, <3>1, <3>3, <3>4
    <3>6. m * Interval \in Nat
      BY <1>3
    <3>7. m * Interval <= t.time - s.start
      BY <1>1, <1>2, <3>5, <3>6
    <3>8. m * Interval <= k * Interval
      BY <1>4, <3>7
    <3>. QED BY <1>2, <1>4, <3>5, <3>6, <3>8
  <2>. QED BY <1>2, <2>1, <2>2
<1>10. BucketPlaced(b, c)
  BY <1>2, <1>5, <1>6, <1>7, <1>8, <1>9 DEF BucketPlaced
<1>11. Feed!SessionAt(start) = s
  BY <1>2, <1>5, SessionOf
<1>. QED BY <1>5, <1>6, <1>7, <1>10, <1>11 DEF s

\* What was traded since the last snapshot of the session.
Traded(a, t) == IF Feed!SameSession(a, t) THEN t.volume - a.last.volume ELSE 0

LEMMA TradedType ==
  ASSUME NEW t \in Snapshots, agg.last \in Snapshots \union {None}
  PROVE  Traded(agg, t) \in Int
BY DEF Traded, Feed!SameSession, Snapshots

LEMMA NewBucketType ==
  ASSUME NEW a, NEW t \in Snapshots, NEW traded \in Int, NEW b, b = Feed!NewBucket(a, t, traded),
         b.start \in Nat, b.end \in Nat
  PROVE  /\ b \in Buckets /\ b.first = t /\ b.last = t /\ b.high = t.price /\ b.low = t.price
         /\ b.volume = traded /\ b.count = 1 /\ b.complete = Feed!SeenFromStart(a, t, b.start)
<1>1. t.price \in Int
  BY DEF Snapshots
<1>2. Feed!SeenFromStart(a, t, b.start) \in BOOLEAN
  BY DEF Feed!SeenFromStart
<1>3. b = [start |-> b.start, end |-> b.end, first |-> t, last |-> t, high |-> t.price, low |-> t.price,
           volume |-> traded, complete |-> Feed!SeenFromStart(a, t, b.start), count |-> 1]
  BY DEF Feed!NewBucket
<1>. DEFINE whole == Feed!SeenFromStart(a, t, b.start)
<1>4. whole \in BOOLEAN
  BY <1>2
<1>. HIDE DEF whole
<1>5. b = [start |-> b.start, end |-> b.end, first |-> t, last |-> t, high |-> t.price, low |-> t.price,
           volume |-> traded, complete |-> whole, count |-> 1]
  BY <1>3 DEF whole
<1>6. /\ b \in Buckets /\ b.first = t /\ b.last = t /\ b.high = t.price /\ b.low = t.price
      /\ b.volume = traded /\ b.count = 1 /\ b.complete = whole
  BY <1>1, <1>4, <1>5 DEF Buckets
<1>. QED BY <1>6 DEF whole

LEMMA ExtendedIs ==
  ASSUME NEW b \in Buckets, NEW t \in Snapshots, NEW traded \in Int, NEW x, x = Feed!Extended(b, t, traded)
  PROVE  /\ x \in Buckets /\ x.start = b.start /\ x.end = b.end /\ x.first = b.first /\ x.last = t
         /\ x.high \in {b.high, t.price} /\ b.high <= x.high /\ t.price <= x.high
         /\ x.low \in {b.low, t.price} /\ x.low <= b.low /\ x.low <= t.price
         /\ x.volume = b.volume + traded /\ x.complete = b.complete /\ x.count = b.count + 1
<1>. DEFINE high == IF t.price > b.high THEN t.price ELSE b.high
            low == IF t.price < b.low THEN t.price ELSE b.low
<1>1. t.price \in Int /\ b.high \in Int /\ b.low \in Int /\ b.volume \in Int /\ b.count \in Nat
  BY DEF Snapshots, Buckets
<1>2. /\ high \in {b.high, t.price} /\ b.high <= high /\ t.price <= high
      /\ low \in {b.low, t.price} /\ low <= b.low /\ low <= t.price
      /\ high \in Int /\ low \in Int
  BY <1>1
<1>3. x = [b EXCEPT !.last = t, !.count = b.count + 1, !.volume = b.volume + traded, !.high = high, !.low = low]
  BY DEF Feed!Extended
<1>. HIDE DEF high, low
<1>. DEFINE volume == b.volume + traded
            count == b.count + 1
<1>4. volume \in Int /\ count \in Nat /\ x = [b EXCEPT !.last = t, !.count = count, !.volume = volume, !.high = high, !.low = low]
  BY <1>1, <1>3
<1>5. volume = b.volume + traded /\ count = b.count + 1
  OBVIOUS
<1>. HIDE DEF volume, count
<1>6. /\ x \in Buckets /\ x.start = b.start /\ x.end = b.end /\ x.first = b.first /\ x.last = t
      /\ x.high = high /\ x.low = low /\ x.volume = volume /\ x.complete = b.complete /\ x.count = count
  BY <1>2, <1>4 DEF Buckets
<1>. QED BY <1>2, <1>5, <1>6

\* The aggregator with another bucket, last snapshot and end of what is closed.
Aggregator(bucket, last, at, event, closed) ==
    [bucket |-> bucket, last |-> last, session |-> at, event |-> event, closed |-> closed]
AggregatorIs == agg = Aggregator(agg.bucket, agg.last, agg.session, agg.event, agg.closed)

\* The bar that an end of a bucket gives, if it gives one.
Given(b, out) == out = <<>> \/ (b.complete /\ b.count >= 2 /\ out = <<BarOf(b)>>)

LEMMA FinishIs ==
  ASSUME AggregatorIs, NEW at, NEW r, r = Feed!Finish(agg, at)
  PROVE  /\ r.agg = Aggregator(None, agg.last, agg.session, agg.event, agg.bucket.end)
         /\ Given(agg.bucket, r.bars)
<1>1. r.agg = [agg EXCEPT !.bucket = None, !.closed = agg.bucket.end]
  BY DEF Feed!Finish, Feed!Result
<1>2. r.agg = Aggregator(None, agg.last, agg.session, agg.event, agg.bucket.end)
  BY ONLY <1>1, AggregatorIs DEF AggregatorIs, Aggregator
<1>3. r.bars = <<>> \/ (agg.bucket.complete /\ agg.bucket.count >= 2 /\ r.bars = <<BarOf(agg.bucket)>>)
  BY DEF Feed!Finish, Feed!Result, BarOf
<1>. QED BY <1>2, <1>3 DEF Given

\* A snapshot ends a bucket and begins the next, begins a first one, or goes on with one.
LEMMA TakenIs ==
  ASSUME AggregatorIs, agg.bucket \in Buckets \union {None}, NEW t \in Snapshots, NEW at, NEW r,
         r = Feed!Taken(agg, t, at)
  PROVE  LET place == Feed!SessionAt(t.time)
             begun == Feed!NewBucket(agg, t, Traded(agg, t))
         IN  \/ /\ agg.bucket # None /\ t.time >= agg.bucket.end /\ Given(agg.bucket, r.bars)
                /\ r.agg = Aggregator(begun, t, place, t.time, agg.bucket.end)
             \/ /\ agg.bucket = None /\ r.bars = <<>>
                /\ r.agg = Aggregator(begun, t, place, t.time, agg.closed)
             \/ /\ agg.bucket # None /\ ~(t.time >= agg.bucket.end) /\ r.bars = <<>>
                /\ r.agg = Aggregator(Feed!Extended(agg.bucket, t, Traded(agg, t)), t, place, t.time, agg.closed)
<1>. DEFINE done == IF agg.bucket # None /\ t.time >= agg.bucket.end THEN Feed!Finish(agg, at)
                    ELSE Feed!Result(agg, <<>>, FALSE)
            place == Feed!SessionAt(t.time)
            begun == Feed!NewBucket(agg, t, Traded(agg, t))
            more == Feed!Extended(agg.bucket, t, Traded(agg, t))
<1>1. r = [done EXCEPT !.agg = [done.agg EXCEPT
              !.bucket = IF done.agg.bucket = None THEN begun
                         ELSE Feed!Extended(done.agg.bucket, t, Traded(agg, t)),
              !.last = t, !.session = place, !.event = t.time]]
  BY DEF Feed!Taken, Traded
<1>2. CASE agg.bucket # None /\ t.time >= agg.bucket.end
  <2>1. done = Feed!Finish(agg, at) /\ done = [agg |-> done.agg, bars |-> done.bars, gap |-> done.gap]
    BY <1>2 DEF Feed!Finish, Feed!Result
  <2>2. r.bars = done.bars /\ r.gap = done.gap
    <3>. HIDE DEF done, begun, place
    <3>. QED BY <1>1, <2>1
  <2>3. /\ done.agg = Aggregator(None, agg.last, agg.session, agg.event, agg.bucket.end)
        /\ Given(agg.bucket, done.bars)
    <3>. HIDE DEF done
    <3>. QED BY <2>1, FinishIs
  <2>4. r.agg = Aggregator(begun, t, place, t.time, agg.bucket.end)
    <3>. HIDE DEF done, begun, place
    <3>1. done.agg.bucket = None
      BY <2>3 DEF Aggregator
    <3>2. r.agg = [done.agg EXCEPT !.bucket = begun, !.last = t, !.session = place, !.event = t.time]
      BY <1>1, <2>1, <3>1
    <3>3. done.agg = Aggregator(None, agg.last, agg.session, agg.event, agg.bucket.end)
      BY <2>3
    <3>. DEFINE was == done.agg
    <3>4. /\ was = Aggregator(None, agg.last, agg.session, agg.event, agg.bucket.end)
          /\ r.agg = [was EXCEPT !.bucket = begun, !.last = t, !.session = place, !.event = t.time]
      BY <3>2, <3>3
    <3>. HIDE DEF was
    <3>. QED BY ONLY <3>4 DEF Aggregator
  <2>. QED BY <1>2, <2>2, <2>3, <2>4
<1>3. CASE agg.bucket = None
  <2>1. done = [agg |-> agg, bars |-> <<>>, gap |-> FALSE]
    BY <1>3 DEF Feed!Result
  <2>. HIDE DEF done, begun, place
  <2>2. r.bars = <<>> /\ r.agg = [agg EXCEPT !.bucket = begun, !.last = t, !.session = place, !.event = t.time]
    BY <1>1, <1>3, <2>1
  <2>3. r.agg = Aggregator(begun, t, place, t.time, agg.closed)
    BY ONLY <2>2, AggregatorIs DEF AggregatorIs, Aggregator
  <2>. QED BY <1>3, <2>2, <2>3 DEF begun, place
<1>4. CASE agg.bucket # None /\ ~(t.time >= agg.bucket.end)
  <2>1. done = [agg |-> agg, bars |-> <<>>, gap |-> FALSE]
    BY <1>4 DEF Feed!Result
  <2>. HIDE DEF begun, place
  <2>0. r = [done EXCEPT !.agg = [done.agg EXCEPT
              !.bucket = IF done.agg.bucket = None THEN begun
                         ELSE Feed!Extended(done.agg.bucket, t, Traded(agg, t)),
              !.last = t, !.session = place, !.event = t.time]]
    BY <1>1
  <2>5. done.agg = agg
    <3>. HIDE DEF done
    <3>. QED BY <2>1
  <2>6. r = [done EXCEPT !.agg = [agg EXCEPT !.bucket = more, !.last = t, !.session = place, !.event = t.time]]
    <3>. HIDE DEF done
    <3>. QED BY <2>0, <2>5, <1>4
  <2>. HIDE DEF done, more
  <2>2. r.bars = <<>> /\ r.agg = [agg EXCEPT !.bucket = more, !.last = t, !.session = place, !.event = t.time]
    BY ONLY <2>6, <2>1
  <2>3. r.agg = Aggregator(more, t, place, t.time, agg.closed)
    BY ONLY <2>2, AggregatorIs DEF AggregatorIs, Aggregator
  <2>. QED BY <1>4, <2>2, <2>3 DEF more, place
<1>. QED BY <1>2, <1>3, <1>4

LEMMA AdvancedIs ==
  ASSUME AggregatorIs, NEW at, NEW r, r = Feed!Advanced(agg, at)
  PROVE  \/ r.agg = agg /\ r.bars = <<>>
         \/ r.agg = Feed!MarkGap(agg) /\ r.bars = <<>> /\ r.gap
         \/ /\ agg.bucket # None /\ at >= agg.bucket.end /\ Given(agg.bucket, r.bars)
            /\ r.agg = Aggregator(None, agg.last, agg.session, agg.event, agg.bucket.end)
<1>1. CASE agg.bucket = None
  BY <1>1 DEF Feed!Advanced, Feed!Result
<1>2. CASE agg.bucket # None /\ at >= agg.bucket.end
  <2>1. r = Feed!Finish(agg, at)
    BY <1>2 DEF Feed!Advanced
  <2>. QED BY <1>2, <2>1, FinishIs
<1>3. CASE agg.bucket # None /\ ~(at >= agg.bucket.end)
  <2>1. r = IF at - agg.bucket.last.time > MaxGap THEN Feed!Result(Feed!MarkGap(agg), <<>>, TRUE)
            ELSE Feed!Result(agg, <<>>, FALSE)
    BY <1>3 DEF Feed!Advanced
  <2>. QED BY <2>1 DEF Feed!Result
<1>. QED BY <1>1, <1>2, <1>3

LEMMA GapIs ==
  ASSUME NEW a, NEW b, NEW l, NEW p, NEW e, NEW c, a = Aggregator(b, l, p, e, c)
  PROVE  Feed!MarkGap(a) = Aggregator(None, None, None, e, c)
<1>1. Feed!MarkGap(a) = [a EXCEPT !.bucket = None, !.last = None, !.session = None]
  BY DEF Feed!MarkGap
<1>. QED BY ONLY <1>1, a = Aggregator(b, l, p, e, c) DEF Aggregator

LEMMA BarType ==
  ASSUME NEW b \in Buckets
  PROVE  BarOf(b) \in Bars /\ BarOf(b).start = b.start /\ BarOf(b).end = b.end
<1>1. /\ b.first \in Snapshots /\ b.last \in Snapshots /\ b.start \in Nat /\ b.end \in Nat
      /\ b.high \in Int /\ b.low \in Int /\ b.volume \in Int
  BY DEF Buckets
<1>2. b.first.price \in Int /\ b.last.price \in Int
  BY <1>1 DEF Snapshots
<1>. QED BY <1>1, <1>2 DEF BarOf, Bars

\* A bar more, behind those that were given.
LEMMA BarAdded ==
  ASSUME NEW s \in Seq(Bars), NEW b \in Buckets, NEW c \in Nat, NEW now \in Nat,
         BarsPlaced(s, c, now), c <= b.start, b.start < b.end, b.end <= now,
         NEW out, Given(b, out)
  PROVE  /\ s \o out \in Seq(Bars) /\ BarsPlaced(s \o out, b.end, now)
         /\ \A i \in DOMAIN (s \o out) :
                (i \in DOMAIN s /\ (s \o out)[i] = s[i])
                \/ (out = <<BarOf(b)>> /\ (s \o out)[i] = BarOf(b))
<1>0. b.start \in Nat /\ b.end \in Nat
  BY DEF Buckets
<1>1. /\ Len(s) \in Nat /\ DOMAIN s = 1..Len(s)
      /\ \A i \in 1..Len(s) : s[i] \in Bars /\ s[i].end \in Nat /\ s[i].start \in Nat
  <2>1. /\ Len(s) \in Nat /\ DOMAIN s = 1..Len(s) /\ \A i \in 1..Len(s) : s[i] \in Bars
    OBVIOUS
  <2>2. \A x \in Bars : x.end \in Nat /\ x.start \in Nat
    BY DEF Bars
  <2>. QED BY <2>1, <2>2
<1>2. CASE out = <<>>
  <2>1. s \o out = s
    BY <1>2
  <2>2. \A i \in DOMAIN s : s[i].end <= b.end
    BY <1>0, <1>1 DEF BarsPlaced
  <2>. QED BY <1>2, <2>1, <2>2 DEF BarsPlaced
<1>3. CASE b.complete /\ b.count >= 2 /\ out = <<BarOf(b)>>
  <2>. DEFINE bar == BarOf(b)
              all == s \o out
  <2>1. bar \in Bars /\ bar.start = b.start /\ bar.end = b.end
    BY BarType
  <2>. HIDE DEF bar
  <2>2. out = <<bar>>
    BY <1>3 DEF bar
  <2>3. /\ all \in Seq(Bars) /\ Len(all) = Len(s) + 1 /\ DOMAIN all = 1..(Len(s) + 1)
        /\ \A i \in 1..Len(s) : all[i] = s[i]
        /\ all[Len(s) + 1] = bar
    BY <1>1, <2>1, <2>2
  <2>. HIDE DEF all
  <2>4. \A i \in 1..(Len(s) + 1) : i \in 1..Len(s) \/ i = Len(s) + 1
    BY <1>1
  <2>5. \A i \in DOMAIN all : all[i].end <= b.end /\ all[i].end <= now
    BY <1>0, <1>1, <2>1, <2>3, <2>4 DEF BarsPlaced
  <2>6. ASSUME NEW i \in 1..(Len(all) - 1) PROVE all[i].end <= all[i + 1].start
    <3>1. i \in 1..Len(s) /\ all[i] = s[i]
      BY <1>1, <2>3
    <3>2. CASE i = Len(s)
      BY <1>0, <1>1, <2>1, <2>3, <3>1, <3>2 DEF BarsPlaced
    <3>3. CASE i \in 1..(Len(s) - 1)
      <4>1. i + 1 \in 1..Len(s) /\ all[i + 1] = s[i + 1]
        BY <1>1, <2>3, <3>3
      <4>. QED BY <3>1, <3>3, <4>1 DEF BarsPlaced
    <3>4. i = Len(s) \/ i \in 1..(Len(s) - 1)
      <4>1. \A m \in Nat : \A n \in 1..m : n = m \/ n \in 1..(m - 1)
        OBVIOUS
      <4>. QED BY ONLY <1>1, <3>1, <4>1
    <3>. QED BY <3>2, <3>3, <3>4
  <2>7. BarsPlaced(all, b.end, now)
    BY <2>5, <2>6 DEF BarsPlaced
  <2>8. \A i \in DOMAIN all : (i \in DOMAIN s /\ all[i] = s[i]) \/ (out = <<bar>> /\ all[i] = bar)
    BY <1>1, <2>2, <2>3, <2>4
  <2>. QED BY <2>3, <2>7, <2>8 DEF bar, all
<1>. QED BY <1>2, <1>3 DEF Given

-------------------------------------------------------------------------------
(* What the exchange traded is the bar. *)

TradedIn(E, b) == {t \in E : b.start <= t.time /\ t.time < b.end}
TradedBefore(E, b) == {t \in E : t.time < b.start /\ Feed!SessionAt(t.time) = Feed!SessionAt(b.start)}
First(S) == CHOOSE t \in S : \A u \in S : t.time <= u.time
Last(S) == CHOOSE t \in S : \A u \in S : t.time >= u.time
TrueIn(E, b) ==
    LET S == TradedIn(E, b)
    IN  /\ Cardinality(S) >= 2
        /\ b.open = First(S).price /\ b.close = Last(S).price
        /\ \A t \in S : b.low <= t.price /\ t.price <= b.high
        /\ \E t, u \in S : t.price = b.low /\ u.price = b.high
        /\ \/ First(S).time = b.start /\ b.volume = Last(S).volume - First(S).volume
           \/ TradedBefore(E, b) # {} /\ b.volume = Last(S).volume - Last(TradedBefore(E, b)).volume

LEMMA TrueIs ==
  /\ \A b : Feed!TrueBar(b) <=> TrueIn(emitted, b)
  /\ \A b : Feed!TrueBar(b)' <=> TrueIn(emitted', b)
<1>1. ASSUME NEW b PROVE Feed!TrueBar(b) <=> TrueIn(emitted, b)
  <2>1. Feed!Within(b) = TradedIn(emitted, b) /\ Feed!Before(b) = TradedBefore(emitted, b)
    BY DEF Feed!Within, Feed!Before, TradedIn, TradedBefore
  <2>2. \A S : Feed!Earliest(S) = First(S) /\ Feed!Latest(S) = Last(S)
    BY DEF Feed!Earliest, Feed!Latest, First, Last
  <2>. QED BY <2>1, <2>2, CountedFeed DEF Feed!TrueBar, TrueIn
<1>2. ASSUME NEW b PROVE Feed!TrueBar(b)' <=> TrueIn(emitted', b)
  <2>1. Feed!Within(b)' = TradedIn(emitted', b) /\ Feed!Before(b)' = TradedBefore(emitted', b)
    BY DEF Feed!Within, Feed!Before, TradedIn, TradedBefore, Feed!SessionAt
  <2>2. \A S : Feed!Earliest(S)' = First(S) /\ Feed!Latest(S)' = Last(S)
    BY DEF Feed!Earliest, Feed!Latest, First, Last
  <2>3. Feed!TrueBar(b)' <=> LET S == Feed!Within(b)' IN
              /\ Cardinality(S) >= 2 /\ b.open = Feed!Earliest(S).price /\ b.close = Feed!Latest(S).price
              /\ \A t \in S : b.low <= t.price /\ t.price <= b.high
              /\ \E t, u \in S : t.price = b.low /\ u.price = b.high
              /\ \/ Feed!Earliest(S).time = b.start /\ b.volume = Feed!Latest(S).volume - Feed!Earliest(S).volume
                 \/ Feed!Before(b)' # {} /\ b.volume = Feed!Latest(S).volume - Feed!Latest(Feed!Before(b))'.volume
    BY CountedFeed DEF Feed!TrueBar
  <2>. QED BY <2>1, <2>2, <2>3 DEF TrueIn
<1>. QED BY <1>1, <1>2

\* What is traded after a bar changes nothing in it.
LEMMA TrueKept ==
  ASSUME NEW E, NEW F, NEW bar \in Bars,
         \A t \in E : t \in F, \A t \in F : t \in E \/ ~(t.time < bar.end),
         \A t \in F : t.time \in Nat, TrueIn(E, bar)
  PROVE  TrueIn(F, bar)
<1>1. bar.start \in Nat /\ bar.end \in Nat /\ bar.start < bar.end
  <2>1. PICK t \in E : bar.start <= t.time /\ t.time < bar.end
    BY DEF TrueIn, TradedIn
  <2>. QED BY <2>1 DEF Bars
<1>2. TradedIn(E, bar) = TradedIn(F, bar)
  BY DEF TradedIn
<1>3. TradedBefore(E, bar) = TradedBefore(F, bar)
  BY <1>1 DEF TradedBefore
<1>. QED BY <1>2, <1>3 DEF TrueIn

LEMMA TwoAtLeast ==
  ASSUME NEW S, IsFiniteSet(S), NEW x \in S, NEW y \in S, x # y
  PROVE  Cardinality(S) >= 2
<1>1. IsFiniteSet(S \ {x}) /\ Cardinality(S \ {x}) = Cardinality(S) - 1
  BY FS_RemoveElement
<1>2. S \ {x} # {}
  OBVIOUS
<1>3. Cardinality(S \ {x}) # 0
  BY <1>1, <1>2, FS_EmptySet
<1>4. Cardinality(S) \in Nat /\ Cardinality(S \ {x}) \in Nat
  BY <1>1, FS_CardinalityType
<1>. QED BY <1>1, <1>3, <1>4

LEMMA FirstIs ==
  ASSUME NEW S \in SUBSET emitted, ExchangeInv, FeedTypes, NEW x \in S
  PROVE  /\ (\A u \in S : x.time <= u.time) => First(S) = x
         /\ (\A u \in S : u.time <= x.time) => Last(S) = x
<1>1. \A t \in S : t.time \in Int
  BY FeedAssumption DEF FeedTypes, Snapshots
<1>2. \A t, u \in S : t.time = u.time => t = u
  BY DEF ExchangeInv
<1>3. ASSUME \A u \in S : x.time <= u.time PROVE First(S) = x
  <2>1. /\ First(S) \in S /\ \A u \in S : First(S).time <= u.time
    BY <1>3 DEF First
  <2>2. First(S).time = x.time
    BY <1>1, <1>3, <2>1
  <2>. QED BY <1>2, <2>1, <2>2
<1>4. ASSUME \A u \in S : u.time <= x.time PROVE Last(S) = x
  <2>0. \A u \in S : x.time >= u.time
    BY <1>1, <1>4
  <2>1. /\ Last(S) \in S /\ \A u \in S : Last(S).time >= u.time
    BY <2>0 DEF Last
  <2>2. Last(S).time = x.time
    BY <1>1, <1>4, <2>1
  <2>. QED BY <1>2, <2>1, <2>2
<1>. QED BY <1>3, <1>4

\* A whole bucket, of two snapshots or more, behind which nothing was traded before its end.
LEMMA BucketIsTrue ==
  ASSUME FeedTypes, ExchangeInv, NEW b \in Buckets, NEW c, BucketPlaced(b, c), BucketInv(b),
         b.last \in emitted, b.complete, b.count >= 2,
         \A e \in emitted : b.last.time < e.time => ~(e.time < b.end)
  PROVE  TrueIn(emitted, BarOf(b))
<1>. DEFINE bar == BarOf(b)
            S == TradedIn(emitted, bar)
<1>1. /\ bar.start = b.start /\ bar.end = b.end /\ bar.open = b.first.price /\ bar.high = b.high
      /\ bar.low = b.low /\ bar.close = b.last.price /\ bar.volume = b.volume
  BY DEF BarOf
<1>2. \A t \in emitted : t \in Snapshots /\ t.time \in Nat
  BY FeedAssumption DEF FeedTypes, Snapshots
<1>3. b.first \in emitted /\ b.first.time < b.last.time /\ b.start <= b.first.time /\ b.last.time < b.end
  BY DEF BucketInv, BucketPlaced
<1>4. b.start \in Nat /\ b.end \in Nat
  BY DEF Buckets
<1>. HIDE DEF bar
<1>5. b.first \in S /\ b.last \in S
  BY <1>1, <1>2, <1>3, <1>4 DEF TradedIn
<1>6. \A e \in S : b.first.time <= e.time /\ e.time <= b.last.time
  BY <1>1, <1>2, <1>3 DEF TradedIn, BucketInv
<1>7. S = TakenFrom(b)
  BY <1>1, <1>2, <1>3, <1>4, <1>6 DEF TradedIn, TakenFrom
<1>8. First(S) = b.first /\ Last(S) = b.last
  <2>1. S \in SUBSET emitted
    BY DEF TradedIn
  <2>. HIDE DEF S
  <2>. QED BY <1>5, <1>6, <2>1, FirstIs
<1>9. Cardinality(S) >= 2
  <2>1. IsFiniteSet(S)
    <3>1. IsFiniteSet(emitted) /\ S \in SUBSET emitted
      BY DEF FeedTypes, TradedIn
    <3>. HIDE DEF S
    <3>. QED BY <3>1, FS_Subset
  <2>2. b.first # b.last
    BY <1>2, <1>3
  <2>. HIDE DEF S
  <2>. QED BY <1>5, <2>1, <2>2, TwoAtLeast
<1>10. /\ \A t \in S : bar.low <= t.price /\ t.price <= bar.high
       /\ \E t, u \in S : t.price = bar.low /\ u.price = bar.high
  BY <1>1, <1>7 DEF BucketInv
<1>11. \/ First(S).time = bar.start /\ bar.volume = Last(S).volume - First(S).volume
       \/ /\ TradedBefore(emitted, bar) # {}
          /\ bar.volume = Last(S).volume - Last(TradedBefore(emitted, bar)).volume
  <2>. HIDE DEF S
  <2>1. CASE b.first.time = b.start /\ b.volume = b.last.volume - b.first.volume
    BY <1>1, <1>8, <2>1
  <2>2. ASSUME NEW p \in emitted, p.time < b.start, Feed!SessionAt(p.time) = Feed!SessionAt(b.start),
               \A e \in emitted : e.time < b.start => e.time <= p.time,
               b.volume = b.last.volume - p.volume
        PROVE  /\ TradedBefore(emitted, bar) # {}
               /\ bar.volume = Last(S).volume - Last(TradedBefore(emitted, bar)).volume
    <3>. DEFINE B == TradedBefore(emitted, bar)
    <3>1. p \in B /\ B \in SUBSET emitted /\ \A u \in B : u.time <= p.time
      BY <1>1, <2>2 DEF TradedBefore
    <3>. HIDE DEF B
    <3>2. Last(B) = p
      BY <3>1, FirstIs
    <3>. QED BY <1>1, <1>8, <2>2, <3>1, <3>2 DEF B
  <2>. QED BY <2>1, <2>2 DEF BucketInv, VolumeInv
<1>. QED BY <1>1, <1>8, <1>9, <1>10, <1>11 DEF TrueIn, bar

-------------------------------------------------------------------------------
(* Every step keeps the types *)

FeedStep == Feed!FeedNext \/ UNCHANGED feedVars

\* What only a few steps touch.
LEMMA WhoMoves ==
  ASSUME FeedStep
  PROVE  /\ \/ (\E k \in {"ok", "empty", "bad", "ahead"} : Feed!Trades(k)) \/ Feed!FrontDown
            \/ Feed!OnMarketData \/ Feed!AcceptTick \/ UNCHANGED <<emitted, wire, queue>>
         /\ Feed!CheckHealth \/ Feed!AcceptTick \/ Feed!Advance \/ UNCHANGED <<agg, bars>>
         /\ Feed!ClockTicks \/ UNCHANGED clock
<1>. USE DEF Feed!market
<1>1. CASE Feed!ClockTicks
  BY <1>1 DEF Feed!ClockTicks
<1>2. CASE Feed!FrontUp
  BY <1>2 DEF Feed!FrontUp
<1>3. CASE Feed!FrontDown
  BY <1>3 DEF Feed!FrontDown
<1>4. ASSUME NEW k \in {"ok", "empty", "bad", "ahead"}, Feed!Trades(k)
      PROVE  UNCHANGED <<agg, bars, clock>>
  BY <1>4 DEF Feed!Trades
<1>5. ASSUME NEW ok \in BOOLEAN, Feed!LoginReply(ok) \/ Feed!SubscribeReply(ok)
      PROVE  UNCHANGED <<emitted, wire, queue, agg, bars, clock>>
  BY <1>5 DEF Feed!LoginReply, Feed!SubscribeReply
<1>6. CASE Feed!OnMarketData
  BY <1>6 DEF Feed!OnMarketData
<1>7. CASE Feed!RequestLogin \/ Feed!Subscribe \/ Feed!StartLoop \/ Feed!End
  BY <1>7 DEF Feed!RequestLogin, Feed!Subscribe, Feed!StartLoop, Feed!End
<1>8. CASE Feed!CheckHealth
  BY <1>8 DEF Feed!CheckHealth
<1>9. CASE Feed!AcceptTick
  BY <1>9 DEF Feed!AcceptTick
<1>10. CASE Feed!Drained
  BY <1>10 DEF Feed!Drained
<1>11. CASE Feed!Advance
  BY <1>11 DEF Feed!Advance
<1>12. CASE UNCHANGED feedVars
  BY <1>12 DEF feedVars
<1>. QED
  BY <1>1, <1>2, <1>3, <1>4, <1>5, <1>6, <1>7, <1>8, <1>9, <1>10, <1>11, <1>12
  DEF FeedStep, Feed!FeedNext, Feed!Loop

\* What is counted or paused stays so, and who is subscribed for market data was it before.
LEMMA LiveBefore ==
  ASSUME FeedStep
  PROVE  /\ counts' = {} => counts = {} /\ ~Feed!FrontDown
         /\ ~paused' => ~paused /\ ~(Feed!CheckHealth /\ Feed!Unhealthy)
         /\ link'.asked = "market" /\ FeedTypes => link.asked = "market" \/ Feed!Subscribe
<1>. USE DEF Feed!market
<1>1. CASE Feed!ClockTicks
  BY <1>1 DEF Feed!ClockTicks, Feed!FrontDown, Feed!CheckHealth
<1>2. CASE Feed!FrontUp
  BY <1>2 DEF Feed!FrontUp, Feed!FrontDown, Feed!CheckHealth, FeedTypes, Feed!FeedTypeOK
<1>3. CASE Feed!FrontDown
  BY <1>3 DEF Feed!FrontDown, Feed!CheckHealth, FeedTypes, Feed!FeedTypeOK, Feed!Followed
<1>4. ASSUME NEW k \in {"ok", "empty", "bad", "ahead"}, Feed!Trades(k)
      PROVE  UNCHANGED <<counts, paused, link, loop>>
  BY <1>4 DEF Feed!Trades
<1>5. ASSUME NEW ok \in BOOLEAN, Feed!LoginReply(ok) \/ Feed!SubscribeReply(ok)
      PROVE  UNCHANGED <<counts, paused, loop>> /\ (link'.asked = "market" /\ FeedTypes => link.asked = "market")
  BY <1>5 DEF Feed!LoginReply, Feed!SubscribeReply, FeedTypes, Feed!FeedTypeOK
<1>6. CASE Feed!OnMarketData
  BY <1>6 DEF Feed!OnMarketData, Feed!FrontDown, Feed!CheckHealth, Feed!Dropped, Feed!Followed
<1>7. CASE Feed!RequestLogin \/ Feed!StartLoop \/ Feed!End
  BY <1>7 DEF Feed!RequestLogin, Feed!StartLoop, Feed!End, FeedTypes, Feed!FeedTypeOK, Feed!FrontDown, Feed!CheckHealth
<1>13. CASE Feed!Subscribe
  BY <1>13 DEF Feed!Subscribe, Feed!FrontDown, Feed!CheckHealth
<1>8. CASE Feed!CheckHealth
  BY <1>8 DEF Feed!CheckHealth, Feed!Pause, Feed!FrontDown, Feed!Followed
<1>9. CASE Feed!AcceptTick
  BY <1>9 DEF Feed!AcceptTick, Feed!FrontDown, Feed!CheckHealth, Feed!Followed
<1>10. CASE Feed!Drained
  BY <1>10 DEF Feed!Drained, Feed!FrontDown, Feed!CheckHealth
<1>11. CASE Feed!Advance
  BY <1>11 DEF Feed!Advance, Feed!FrontDown, Feed!CheckHealth, Feed!Followed
<1>12. CASE UNCHANGED feedVars
  BY <1>12 DEF feedVars, Feed!FrontDown, Feed!CheckHealth
<1>. QED
  BY <1>1, <1>2, <1>3, <1>4, <1>5, <1>6, <1>7, <1>8, <1>9, <1>10, <1>11, <1>12, <1>13
  DEF FeedStep, Feed!FeedNext, Feed!Loop, Feed!FrontDown, Feed!CheckHealth

SmallTypes ==
    /\ clock \in 0..Horizon /\ odd \in 0..MaxOdd
    /\ link \in [up : BOOLEAN, loggedIn : BOOLEAN, answered : BOOLEAN, subscribed : BOOLEAN,
                 asked : {"nothing", "login", "market"}]
    /\ counts \subseteq {"disconnected", "conversion_failures", "timestamp_anomalies", "dropped"}
    /\ paused \in BOOLEAN
    /\ loop \in {"front", "login", "subscribed", "health", "drain", "advance", "ended"}

PipeTypes ==
    /\ emitted \subseteq Snapshots /\ IsFiniteSet(emitted)
    /\ wire \in Seq(Snapshots) /\ queue \in Seq(Snapshots) /\ Len(queue) <= QueueSize

AggTypes ==
    /\ agg.last \in Snapshots \union {None} /\ agg.bucket \in Buckets \union {None}
    /\ AggregatorIs
    /\ bars \in Seq(Bars) /\ agg.event \in Int /\ agg.closed \in Nat

LEMMA TypesSplit ==
  /\ FeedTypes => SmallTypes /\ PipeTypes /\ AggTypes
  /\ SmallTypes /\ PipeTypes /\ AggTypes => FeedTypes
<1>1. FeedTypes => SmallTypes /\ PipeTypes /\ AggTypes
  BY DEF FeedTypes, Feed!FeedTypeOK, SmallTypes, PipeTypes, AggTypes, AggregatorIs, Aggregator
<1>2. ASSUME SmallTypes, PipeTypes, AggTypes PROVE FeedTypes
  <2>1. \A t \in emitted \union Feed!ToSet(wire) \union Feed!ToSet(queue) : t \in Snapshots
    BY <1>2, Within DEF PipeTypes
  <2>2. \A t \in Snapshots : t.time \in 0..Horizon
    BY DEF Snapshots
  <2>. QED BY <1>2, <2>1, <2>2
    DEF FeedTypes, Feed!FeedTypeOK, SmallTypes, PipeTypes, AggTypes, AggregatorIs, Aggregator
<1>. QED BY <1>1, <1>2

LEMMA SmallStep ==
  ASSUME FeedTypes, FeedStep
  PROVE  SmallTypes'
<1>0. SmallTypes
  BY TypesSplit
<1>1. CASE Feed!ClockTicks
  BY <1>0, <1>1, FeedAssumption DEF Feed!ClockTicks, SmallTypes
<1>2. CASE Feed!FrontUp
  BY <1>0, <1>2 DEF Feed!FrontUp, Feed!market, SmallTypes
<1>3. CASE Feed!FrontDown
  BY <1>0, <1>3 DEF Feed!FrontDown, Feed!market, SmallTypes
<1>4. ASSUME NEW k \in {"ok", "empty", "bad", "ahead"}, Feed!Trades(k)
      PROVE  SmallTypes'
  <2>1. odd' \in 0..MaxOdd
    BY <1>0, <1>4, FeedAssumption DEF Feed!Trades, SmallTypes
  <2>. QED BY <1>0, <1>4, <2>1 DEF Feed!Trades, SmallTypes
<1>5. ASSUME NEW ok \in BOOLEAN, Feed!LoginReply(ok) \/ Feed!SubscribeReply(ok)
      PROVE  SmallTypes'
  BY <1>0, <1>5 DEF Feed!LoginReply, Feed!SubscribeReply, Feed!market, SmallTypes
<1>6. CASE Feed!OnMarketData
  <2>. DEFINE late == IF Head(wire).kind = "ahead" THEN {"timestamp_anomalies"} ELSE {}
  <2>3. late \subseteq {"timestamp_anomalies"}
    OBVIOUS
  <2>1. \/ counts' = counts \/ counts' = counts \union {"conversion_failures"}
        \/ counts' = (counts \union {"dropped"}) \union late \/ counts' = counts \union late
    BY <1>6 DEF Feed!OnMarketData, Feed!Dropped
  <2>. HIDE DEF late
  <2>2. counts' \subseteq {"disconnected", "conversion_failures", "timestamp_anomalies", "dropped"}
    BY <1>0, <2>1, <2>3 DEF SmallTypes
  <2>. QED BY <1>0, <1>6, <2>2 DEF Feed!OnMarketData, Feed!market, SmallTypes
<1>7. CASE Feed!RequestLogin \/ Feed!Subscribe \/ Feed!StartLoop \/ Feed!End
  BY <1>0, <1>7 DEF Feed!RequestLogin, Feed!Subscribe, Feed!StartLoop, Feed!End, Feed!market, SmallTypes
<1>8. CASE Feed!CheckHealth
  BY <1>0, <1>8 DEF Feed!CheckHealth, Feed!Pause, Feed!market, SmallTypes
<1>9. CASE Feed!AcceptTick
  <2>1. paused' \in BOOLEAN
    BY <1>0, <1>9 DEF Feed!AcceptTick, Feed!Pause, SmallTypes
  <2>. QED BY <1>0, <1>9, <2>1 DEF Feed!AcceptTick, Feed!market, SmallTypes
<1>10. CASE Feed!Drained
  BY <1>0, <1>10 DEF Feed!Drained, Feed!market, SmallTypes
<1>11. CASE Feed!Advance
  <2>1. paused' \in BOOLEAN
    BY <1>0, <1>11 DEF Feed!Advance, Feed!Pause, SmallTypes
  <2>. QED BY <1>0, <1>11, <2>1 DEF Feed!Advance, Feed!market, SmallTypes
<1>12. CASE UNCHANGED feedVars
  BY <1>0, <1>12 DEF feedVars, SmallTypes
<1>. QED
  BY <1>1, <1>2, <1>3, <1>4, <1>5, <1>6, <1>7, <1>8, <1>9, <1>10, <1>11, <1>12
  DEF FeedStep, Feed!FeedNext, Feed!Loop

\* A snapshot that is sent now, and one that arrives now.
LEMMA SnapshotIs ==
  ASSUME FeedTypes, NEW k \in {"ok", "empty", "bad", "ahead"}
  PROVE  /\ Feed!Snapshot(k) \in Snapshots
         /\ Feed!Snapshot(k).kind = k /\ Feed!Snapshot(k).time = clock
<1>1. Cardinality(emitted) \in Nat /\ clock \in 0..Horizon
  BY FS_CardinalityType DEF FeedTypes, Feed!FeedTypeOK
<1>2. PriceAt[clock] \in Int
  BY <1>1, FeedAssumption
<1>3. Feed!Snapshot(k) = [kind |-> k, time |-> clock, price |-> PriceAt[clock], volume |-> Cardinality(emitted) + 1]
  BY CountedFeed DEF Feed!Snapshot
<1>. QED BY <1>1, <1>2, <1>3 DEF Snapshots

LEMMA StampedIs ==
  ASSUME FeedTypes, NEW t \in Snapshots
  PROVE  /\ Feed!Stamped(t) \in Snapshots
         /\ t.kind # "ahead" => Feed!Stamped(t) = t
         /\ Feed!Stamped(t).kind \in {t.kind, "ok"}
<1>1. clock \in 0..Horizon
  BY DEF FeedTypes, Feed!FeedTypeOK
<1>. QED BY <1>1 DEF Feed!Stamped, Snapshots

LEMMA PipeTypesStep ==
  ASSUME FeedTypes, FeedStep
  PROVE  PipeTypes'
<1>0. PipeTypes
  BY TypesSplit
<1>1. ASSUME NEW k \in {"ok", "empty", "bad", "ahead"}, Feed!Trades(k)
      PROVE  PipeTypes'
  <2>1. emitted' \subseteq Snapshots /\ IsFiniteSet(emitted')
    <3>1. emitted' \in {emitted, emitted \union {Feed!Snapshot("ok")}}
      BY <1>1 DEF Feed!Trades
    <3>. QED BY <1>0, <3>1, SnapshotIs, FS_AddElement DEF PipeTypes
  <2>2. wire' \in Seq(Snapshots)
    <3>1. wire' \in {wire, Append(wire, Feed!Snapshot(k))}
      BY <1>1 DEF Feed!Trades
    <3>2. Feed!Snapshot(k) \in Snapshots
      BY SnapshotIs
    <3>. QED BY <1>0, <3>1, <3>2, Entered DEF PipeTypes
  <2>. QED BY <1>0, <1>1, <2>1, <2>2 DEF PipeTypes, Feed!Trades
<1>2. CASE Feed!FrontDown
  BY <1>0, <1>2 DEF Feed!FrontDown, Feed!market, PipeTypes
<1>3. CASE Feed!OnMarketData
  <2>1. wire' \in Seq(Snapshots) /\ Head(wire) \in Snapshots /\ UNCHANGED emitted
    BY <1>0, <1>3, LeftFirst DEF Feed!OnMarketData, Feed!market, PipeTypes
  <2>2. \/ queue' = queue
        \/ ~(Len(queue) >= QueueSize) /\ queue' = Append(queue, Feed!Stamped(Head(wire)))
    BY <1>3 DEF Feed!OnMarketData
  <2>3. queue' \in Seq(Snapshots) /\ Len(queue') <= QueueSize
    <3>1. Feed!Stamped(Head(wire)) \in Snapshots
      BY <2>1, StampedIs
    <3>2. Len(queue) \in Nat /\ QueueSize \in Nat
      BY <1>0, FeedAssumption DEF PipeTypes
    <3>. QED BY <1>0, <2>2, <3>1, <3>2, Entered DEF PipeTypes
  <2>. QED BY <1>0, <2>1, <2>3 DEF PipeTypes
<1>4. CASE Feed!AcceptTick
  <2>1. queue # <<>> /\ queue' = Tail(queue) /\ UNCHANGED <<emitted, wire>>
    BY <1>4 DEF Feed!AcceptTick, Feed!market
  <2>2. Len(queue) \in Nat /\ QueueSize \in Nat
    BY <1>0, FeedAssumption DEF PipeTypes
  <2>. QED BY <1>0, <2>1, <2>2, LeftFirst DEF PipeTypes
<1>5. CASE UNCHANGED <<emitted, wire, queue>>
  BY <1>0, <1>5 DEF PipeTypes
<1>. QED BY <1>1, <1>2, <1>3, <1>4, <1>5, WhoMoves

-------------------------------------------------------------------------------
(* The aggregator: types, and where buckets and bars lie *)

AggOK(a, s, now) ==
    /\ a.last \in Snapshots \union {None} /\ a.bucket \in Buckets \union {None}
    /\ a = Aggregator(a.bucket, a.last, a.session, a.event, a.closed)
    /\ s \in Seq(Bars) /\ a.event \in Int /\ a.closed \in Nat
    /\ a.closed = 0 \/ OnGrid(a.closed)
    /\ a.bucket # None => BucketPlaced(a.bucket, a.closed)
    /\ BarsPlaced(s, a.closed, now)

LEMMA AggMade ==
  ASSUME NEW b \in Buckets \union {None}, NEW l \in Snapshots \union {None}, NEW p, NEW e \in Int, NEW c \in Nat,
         c = 0 \/ OnGrid(c), b # None => BucketPlaced(b, c), NEW s \in Seq(Bars), NEW now, BarsPlaced(s, c, now)
  PROVE  AggOK(Aggregator(b, l, p, e, c), s, now)
<1>. DEFINE a == Aggregator(b, l, p, e, c)
<1>1. a.bucket = b /\ a.last = l /\ a.session = p /\ a.event = e /\ a.closed = c
  BY DEF Aggregator
<1>. HIDE DEF a
<1>2. AggOK(a, s, now)
  BY <1>1 DEF AggOK, a
<1>. QED BY <1>2 DEF a

LEMMA GapKeeps ==
  ASSUME NEW a, NEW s, NEW now, AggOK(a, s, now)
  PROVE  AggOK(Feed!MarkGap(a), s, now)
<1>1. Feed!MarkGap(a) = Aggregator(None, None, None, a.event, a.closed)
  BY GapIs DEF AggOK
<1>2. AggOK(Aggregator(None, None, None, a.event, a.closed), s, now)
  BY AggMade DEF AggOK
<1>. QED BY <1>1, <1>2

\* Time goes on.
LEMMA LaterKeeps ==
  ASSUME NEW a, NEW s, NEW now \in Int, NEW then \in Int, now <= then, AggOK(a, s, now)
  PROVE  AggOK(a, s, then)
<1>1. \A i \in DOMAIN s : s[i].end \in Nat
  <2>1. \A i \in DOMAIN s : s[i] \in Bars
    BY DEF AggOK
  <2>. QED BY <2>1 DEF Bars
<1>2. \A i \in DOMAIN s : s[i].end <= then
  BY <1>1 DEF AggOK, BarsPlaced
<1>. QED BY <1>2 DEF AggOK, BarsPlaced

\* A snapshot that is trusted is taken on the grid.
LEMMA TakenOnGrid ==
  ASSUME FeedTypes, AggOK(agg, bars, clock), NEW t \in Snapshots, ~Feed!Untrusted(agg, t, clock),
         NEW r, r = Feed!Taken(agg, t, clock)
  PROVE  AggOK(r.agg, bars \o r.bars, clock)
<1>. DEFINE p == Feed!SessionAt(t.time)
            begun == Feed!NewBucket(agg, t, Traded(agg, t))
            more == Feed!Extended(agg.bucket, t, Traded(agg, t))
<1>1. /\ agg.last \in Snapshots \union {None} /\ agg.bucket \in Buckets \union {None}
      /\ AggregatorIs /\ bars \in Seq(Bars) /\ agg.event \in Int /\ agg.closed \in Nat
      /\ agg.closed = 0 \/ OnGrid(agg.closed)
      /\ agg.bucket # None => BucketPlaced(agg.bucket, agg.closed)
      /\ BarsPlaced(bars, agg.closed, clock)
  BY DEF AggOK, AggregatorIs
<1>2. t.time \in Nat /\ clock \in Nat
  BY FeedAssumption DEF Snapshots, FeedTypes, Feed!FeedTypeOK
<1>3. p # None /\ ~(t.time < agg.closed) /\ ~(t.time > clock)
  BY DEF Feed!Untrusted
<1>4. Traded(agg, t) \in Int
  BY <1>1, TradedType
<1>5. ASSUME NEW c \in Nat, c = 0 \/ OnGrid(c), c <= t.time
      PROVE  begun \in Buckets /\ BucketPlaced(begun, c)
  <2>. HIDE DEF begun
  <2>1. BucketPlaced(begun, c) /\ begun.start \in Nat /\ begun.end \in Nat
    BY <1>3, <1>4, <1>5, NewBucketIs DEF begun, p
  <2>2. begun \in Buckets
    BY <1>4, <2>1, NewBucketType DEF begun
  <2>. QED BY <2>1, <2>2
<1>6. t.time \in Int
  BY <1>2
<1>7. CASE /\ agg.bucket # None /\ t.time >= agg.bucket.end /\ Given(agg.bucket, r.bars)
           /\ r.agg = Aggregator(begun, t, p, t.time, agg.bucket.end)
  <2>. HIDE DEF begun, p
  <2>1. agg.bucket \in Buckets /\ BucketPlaced(agg.bucket, agg.closed)
    BY <1>1, <1>7
  <2>2. agg.bucket.end \in Nat /\ agg.bucket.start \in Nat
    BY <2>1 DEF Buckets
  <2>3. agg.bucket.end <= t.time /\ agg.bucket.end <= clock
    BY <1>2, <1>3, <1>7, <2>2
  <2>4. bars \o r.bars \in Seq(Bars) /\ BarsPlaced(bars \o r.bars, agg.bucket.end, clock)
    <3>1. agg.closed <= agg.bucket.start /\ agg.bucket.start < agg.bucket.end
      BY <2>1 DEF BucketPlaced
    <3>. QED BY <1>1, <1>2, <1>7, <2>1, <2>3, <3>1, BarAdded
  <2>5. OnGrid(agg.bucket.end)
    BY <2>1 DEF BucketPlaced
  <2>6. begun \in Buckets /\ BucketPlaced(begun, agg.bucket.end)
    BY <1>5, <2>2, <2>3, <2>5
  <2>. QED BY <1>6, <1>7, <2>2, <2>4, <2>5, <2>6, AggMade
<1>8. CASE /\ agg.bucket = None /\ r.bars = <<>>
           /\ r.agg = Aggregator(begun, t, p, t.time, agg.closed)
  <2>1. bars \o r.bars = bars
    BY <1>1, <1>8
  <2>2. agg.closed <= t.time
    BY <1>1, <1>2, <1>3
  <2>3. begun \in Buckets /\ BucketPlaced(begun, agg.closed)
    BY <1>1, <1>5, <2>2
  <2>. HIDE DEF begun, p
  <2>. QED BY <1>1, <1>6, <1>8, <2>1, <2>3, AggMade
<1>9. CASE /\ agg.bucket # None /\ ~(t.time >= agg.bucket.end) /\ r.bars = <<>>
           /\ r.agg = Aggregator(more, t, p, t.time, agg.closed)
  <2>1. bars \o r.bars = bars
    BY <1>1, <1>9
  <2>. HIDE DEF more, p
  <2>2. agg.bucket \in Buckets
    BY <1>1, <1>9
  <2>3. more \in Buckets /\ more.start = agg.bucket.start /\ more.end = agg.bucket.end
        /\ more.first = agg.bucket.first /\ more.last = t
    BY <1>4, <2>2, ExtendedIs DEF more
  <2>4. agg.bucket.end \in Nat
    BY <2>2 DEF Buckets
  <2>5. t.time < agg.bucket.end
    BY <1>2, <1>9, <2>4
  <2>6. BucketPlaced(more, agg.closed)
    BY <1>1, <1>9, <2>3, <2>5 DEF BucketPlaced
  <2>. QED BY <1>1, <1>6, <1>9, <2>1, <2>3, <2>6, AggMade
<1>. HIDE DEF begun, more, p
<1>. QED BY <1>1, <1>7, <1>8, <1>9, TakenIs DEF begun, more, p

LEMMA AdvancedOnGrid ==
  ASSUME FeedTypes, AggOK(agg, bars, clock), NEW r, r = Feed!Advanced(agg, clock)
  PROVE  AggOK(r.agg, bars \o r.bars, clock)
<1>1. /\ agg.last \in Snapshots \union {None} /\ agg.bucket \in Buckets \union {None}
      /\ AggregatorIs /\ bars \in Seq(Bars) /\ agg.event \in Int /\ agg.closed \in Nat
      /\ agg.bucket # None => BucketPlaced(agg.bucket, agg.closed)
      /\ BarsPlaced(bars, agg.closed, clock)
  BY DEF AggOK, AggregatorIs
<1>2. clock \in Nat
  BY FeedAssumption DEF FeedTypes, Feed!FeedTypeOK
<1>3. CASE r.agg = agg /\ r.bars = <<>>
  <2>1. bars \o r.bars = bars
    BY <1>1, <1>3
  <2>. QED BY <1>3, <2>1
<1>4. CASE r.agg = Feed!MarkGap(agg) /\ r.bars = <<>>
  <2>1. bars \o r.bars = bars
    BY <1>1, <1>4
  <2>. QED BY <1>4, <2>1, GapKeeps
<1>5. CASE /\ agg.bucket # None /\ clock >= agg.bucket.end /\ Given(agg.bucket, r.bars)
           /\ r.agg = Aggregator(None, agg.last, agg.session, agg.event, agg.bucket.end)
  <2>1. agg.bucket \in Buckets /\ BucketPlaced(agg.bucket, agg.closed)
    BY <1>1, <1>5
  <2>2. agg.bucket.end \in Nat /\ agg.bucket.start \in Nat
    BY <2>1 DEF Buckets
  <2>3. agg.bucket.end <= clock
    BY <1>2, <1>5, <2>2
  <2>4. bars \o r.bars \in Seq(Bars) /\ BarsPlaced(bars \o r.bars, agg.bucket.end, clock)
    <3>1. agg.closed <= agg.bucket.start /\ agg.bucket.start < agg.bucket.end
      BY <2>1 DEF BucketPlaced
    <3>. QED BY <1>1, <1>2, <1>5, <2>1, <2>3, <3>1, BarAdded
  <2>5. OnGrid(agg.bucket.end)
    BY <2>1 DEF BucketPlaced
  <2>. QED BY <1>1, <1>5, <2>2, <2>4, <2>5, AggMade
<1>. QED BY <1>1, <1>3, <1>4, <1>5, AdvancedIs

LEMMA AggIs ==
  /\ AggTypes /\ GridInv => AggOK(agg, bars, clock)
  /\ AggOK(agg, bars, clock) => AggTypes /\ GridInv
BY DEF AggTypes, GridInv, AggOK, AggregatorIs

LEMMA AggStep ==
  ASSUME FeedTypes, GridInv, FeedStep
  PROVE  AggTypes' /\ GridInv'
<1>0. AggOK(agg, bars, clock) /\ clock \in 0..Horizon
  BY TypesSplit, AggIs DEF SmallTypes
<1>1. AggOK(agg', bars', clock')
  <2>1. CASE Feed!CheckHealth
    <3>1. agg' \in {agg, Feed!MarkGap(agg)} /\ UNCHANGED <<bars, clock>>
      BY <2>1 DEF Feed!CheckHealth, Feed!Pause, Feed!market
    <3>. QED BY <1>0, <3>1, GapKeeps
  <2>2. CASE Feed!AcceptTick
    <3>. DEFINE t == Head(queue)
                r == Feed!Taken(agg, t, clock)
    <3>1. \/ agg' = Feed!MarkGap(agg) /\ bars' = bars
          \/ ~Feed!Untrusted(agg, t, clock) /\ r.gap /\ agg' = Feed!MarkGap(r.agg) /\ bars' = bars
          \/ ~Feed!Untrusted(agg, t, clock) /\ agg' = r.agg /\ bars' = bars \o r.bars
      <4>. HIDE DEF r
      <4>. QED BY <2>2 DEF Feed!AcceptTick, Feed!Pause, r
    <3>2. clock' = clock /\ queue # <<>>
      BY <2>2 DEF Feed!AcceptTick, Feed!market
    <3>3. t \in Snapshots
      BY <3>2, LeftFirst DEF FeedTypes
    <3>4. ~Feed!Untrusted(agg, t, clock) => AggOK(r.agg, bars \o r.bars, clock)
      BY <1>0, <3>3, TakenOnGrid
    <3>5. r.gap => r.bars = <<>>
      <4>1. r.gap => /\ agg.bucket # None /\ t.time >= agg.bucket.end
                     /\ r.gap = Feed!Finish(agg, clock).gap /\ r.bars = Feed!Finish(agg, clock).bars
        BY DEF Feed!Taken, Feed!Result, Feed!Finish
      <4>2. Feed!Finish(agg, clock).gap => Feed!Finish(agg, clock).bars = <<>>
        BY DEF Feed!Finish, Feed!Result
      <4>. HIDE DEF r
      <4>. QED BY <4>1, <4>2
    <3>. HIDE DEF r, t
    <3>6. r.gap => bars \o r.bars = bars
      BY <1>0, <3>5 DEF AggOK
    <3>. QED BY <1>0, <3>1, <3>2, <3>4, <3>6, GapKeeps
  <2>3. CASE Feed!Advance
    <3>. DEFINE r == Feed!Advanced(agg, clock)
    <3>1. /\ agg' \in {r.agg, Feed!MarkGap(r.agg)} /\ bars' = bars \o r.bars /\ clock' = clock
      <4>. HIDE DEF r
      <4>. QED BY <2>3 DEF Feed!Advance, Feed!Pause, Feed!market, r
    <3>2. AggOK(r.agg, bars \o r.bars, clock)
      BY <1>0, AdvancedOnGrid
    <3>. HIDE DEF r
    <3>. QED BY <3>1, <3>2, GapKeeps
  <2>4. CASE UNCHANGED <<agg, bars>>
    <3>1. clock' \in Int /\ clock <= clock'
      BY <1>0, WhoMoves DEF Feed!ClockTicks
    <3>. QED BY <1>0, <2>4, <3>1, LaterKeeps
  <2>. QED BY <2>1, <2>2, <2>3, <2>4, WhoMoves
<1>. QED BY <1>1 DEF AggTypes, GridInv, AggOK, AggregatorIs

-------------------------------------------------------------------------------
(* The exchange, and the loop over its subscription *)

\* A snapshot of now is the last one.
LEMMA ExchangeStep ==
  ASSUME FeedTypes, ExchangeInv, FeedStep
  PROVE  ExchangeInv'
<1>0. clock \in Int /\ \A t \in emitted : t.time \in Int /\ t \in Snapshots
  BY FeedAssumption DEF FeedTypes, Feed!FeedTypeOK, Snapshots
<1>1. ASSUME NEW k \in {"ok", "empty", "bad", "ahead"}, Feed!Trades(k)
      PROVE  ExchangeInv'
  <2>1. /\ emitted' = emitted \/ emitted' = emitted \union {Feed!Snapshot("ok")}
        /\ clock' = clock /\ \A t \in emitted : t.time < clock
    BY <1>1 DEF Feed!Trades
  <2>2. Feed!Snapshot("ok").kind = "ok" /\ Feed!Snapshot("ok").time = clock
    BY SnapshotIs
  <2>. DEFINE new == Feed!Snapshot("ok")
  <2>3. new.kind = "ok" /\ new.time = clock /\ (emitted' = emitted \/ emitted' = emitted \union {new})
    BY <2>1, <2>2
  <2>. HIDE DEF new
  <2>4. \A t \in emitted' : t.kind = "ok" /\ t.time <= clock'
    BY <1>0, <2>1, <2>3 DEF ExchangeInv
  <2>5. ASSUME NEW t \in emitted', NEW u \in emitted', t.time = u.time
        PROVE  t = u
    BY <1>0, <2>1, <2>3, <2>5 DEF ExchangeInv
  <2>. QED BY <2>4, <2>5 DEF ExchangeInv
<1>2. CASE emitted' = emitted /\ clock' = clock
  BY <1>2 DEF ExchangeInv
<1>3. CASE emitted' = emitted /\ Feed!ClockTicks
  <2>1. clock' = clock + 1
    BY <1>3 DEF Feed!ClockTicks
  <2>2. \A t \in emitted' : t.kind = "ok" /\ t.time <= clock'
    BY <1>0, <1>3, <2>1 DEF ExchangeInv
  <2>. QED BY <1>3, <2>2 DEF ExchangeInv
<1>4. (\E k \in {"ok", "empty", "bad", "ahead"} : Feed!Trades(k)) \/ emitted' = emitted
  BY WhoMoves DEF Feed!FrontDown, Feed!OnMarketData, Feed!AcceptTick, Feed!market
<1>5. Feed!ClockTicks \/ clock' = clock
  BY WhoMoves
<1>. QED BY <1>1, <1>2, <1>3, <1>4, <1>5

LEMMA LoopStep ==
  ASSUME FeedTypes, LoopInv, FeedStep
  PROVE  LoopInv'
<1>0. SmallTypes
  BY TypesSplit
<1>. USE DEF Feed!market
<1>1. CASE Feed!ClockTicks
  BY <1>1 DEF Feed!ClockTicks, LoopInv, InLoop, Untouched
<1>2. CASE Feed!FrontUp
  BY <1>0, <1>2 DEF Feed!FrontUp, LoopInv, InLoop, Untouched, SmallTypes
<1>3. CASE Feed!FrontDown
  BY <1>0, <1>3 DEF Feed!FrontDown, LoopInv, InLoop, Untouched, SmallTypes
<1>4. ASSUME NEW k \in {"ok", "empty", "bad", "ahead"}, Feed!Trades(k)
      PROVE  LoopInv'
  BY <1>4 DEF Feed!Trades, LoopInv, InLoop, Untouched
<1>5. ASSUME NEW ok \in BOOLEAN, Feed!LoginReply(ok)
      PROVE  LoopInv'
  BY <1>0, <1>5 DEF Feed!LoginReply, LoopInv, InLoop, Untouched, SmallTypes
<1>14. ASSUME NEW ok \in BOOLEAN, Feed!SubscribeReply(ok)
      PROVE  LoopInv'
  <2>1. /\ link.asked = "market" /\ ~link.subscribed /\ UNCHANGED <<wire, queue, counts, loop, agg, bars>>
        /\ link'.subscribed = ok /\ (ok => link'.asked = "market")
    BY <1>0, <1>14 DEF Feed!SubscribeReply, SmallTypes
  <2>2. loop \notin {"front", "login"}
    BY <2>1 DEF LoopInv
  <2>. QED BY <2>1, <2>2 DEF LoopInv, InLoop, Untouched
<1>6. CASE Feed!OnMarketData
  <2>1. UNCHANGED <<link, loop, agg, bars>> /\ (counts # {} => counts' # {}) /\ wire # <<>>
    BY <1>6 DEF Feed!OnMarketData, Feed!Dropped
  <2>. QED BY <2>1 DEF LoopInv, InLoop, Untouched
<1>7. CASE Feed!RequestLogin
  BY <1>0, <1>7 DEF Feed!RequestLogin, LoopInv, InLoop, Untouched, SmallTypes
<1>15. CASE Feed!Subscribe
  BY <1>0, <1>15 DEF Feed!Subscribe, LoopInv, InLoop, Untouched, SmallTypes
<1>16. CASE Feed!StartLoop
  BY <1>0, <1>16 DEF Feed!StartLoop, LoopInv, InLoop, Untouched, SmallTypes
<1>17. CASE Feed!End
  BY <1>0, <1>17 DEF Feed!End, LoopInv, InLoop, Untouched, SmallTypes
<1>8. CASE Feed!CheckHealth
  <2>1. loop = "health" /\ loop' = "drain" /\ UNCHANGED <<wire, link, counts, queue>>
    BY <1>8 DEF Feed!CheckHealth
  <2>. QED BY <2>1 DEF LoopInv, InLoop
<1>9. CASE Feed!AcceptTick
  <2>1. loop = "drain" /\ loop' = "drain" /\ UNCHANGED <<link, counts>>
    BY <1>9 DEF Feed!AcceptTick
  <2>. QED BY <2>1 DEF LoopInv, InLoop
<1>10. CASE Feed!Drained
  <2>1. loop = "drain" /\ loop' = "advance" /\ UNCHANGED <<link, counts>>
    BY <1>10 DEF Feed!Drained
  <2>. QED BY <2>1 DEF LoopInv, InLoop
<1>11. CASE Feed!Advance
  <2>1. loop = "advance" /\ loop' = "health" /\ UNCHANGED <<link, counts>>
    BY <1>11 DEF Feed!Advance
  <2>. QED BY <2>1 DEF LoopInv, InLoop
<1>12. CASE UNCHANGED feedVars
  BY <1>12 DEF feedVars, LoopInv, InLoop, Untouched
<1>. QED
  BY <1>1, <1>2, <1>3, <1>4, <1>5, <1>6, <1>7, <1>8, <1>9, <1>10, <1>11, <1>12, <1>14, <1>15, <1>16, <1>17
  DEF FeedStep, Feed!FeedNext, Feed!Loop

-------------------------------------------------------------------------------
(* What comes from the exchange comes in order and without a hole *)

\* A step without a pause that takes no snapshot leaves the aggregator, or ends its bucket.
LEMMA AggSame ==
  ASSUME FeedTypes, FeedStep, ~paused', ~Feed!AcceptTick
  PROVE  \/ UNCHANGED <<agg, bars>>
         \/ /\ Feed!Advance /\ agg.bucket # None /\ clock >= agg.bucket.end
            /\ \E out : Given(agg.bucket, out) /\ bars' = bars \o out
            /\ agg' = Aggregator(None, agg.last, agg.session, agg.event, agg.bucket.end)
<1>0. AggTypes
  BY TypesSplit
<1>1. CASE Feed!CheckHealth
  BY <1>1 DEF Feed!CheckHealth, Feed!Pause
<1>2. CASE Feed!Advance
  <2>. DEFINE r == Feed!Advanced(agg, clock)
  <2>1. ~r.gap /\ agg' = r.agg /\ bars' = bars \o r.bars
    <3>. HIDE DEF r
    <3>. QED BY <1>2 DEF Feed!Advance, Feed!Pause, r
  <2>2. \/ r.agg = agg /\ r.bars = <<>>
        \/ /\ agg.bucket # None /\ clock >= agg.bucket.end /\ Given(agg.bucket, r.bars)
           /\ r.agg = Aggregator(None, agg.last, agg.session, agg.event, agg.bucket.end)
    <3>1. AggregatorIs
      BY <1>0 DEF AggTypes
    <3>. QED BY <2>1, <3>1, AdvancedIs
  <2>. HIDE DEF r
  <2>3. r.bars = <<>> => bars \o r.bars = bars
    BY <1>0 DEF AggTypes
  <2>. QED BY <1>2, <2>1, <2>2, <2>3
<1>. QED BY <1>1, <1>2, WhoMoves

LEMMA PipeOfTrades ==
  ASSUME FeedTypes, ExchangeInv, Live, PipeInv, TakenInv, NEW k \in {"ok", "empty", "bad", "ahead"}, Feed!Trades(k)
  PROVE  PipeInv'
<1>. DEFINE new == Feed!Snapshot("ok")
            sent == Feed!Snapshot(k)
<1>1. /\ UNCHANGED <<queue, agg>> /\ \A t \in emitted : t.time < clock
      /\ emitted' = IF k = "empty" THEN emitted ELSE emitted \union {new}
      /\ wire' = Append(wire, sent)
  BY DEF Feed!Trades, Live
<1>2. /\ new \in Snapshots /\ sent \in Snapshots /\ new.time = clock /\ sent.time = clock
      /\ sent.kind = k /\ (k = "ok" => sent = new)
  BY SnapshotIs
<1>. HIDE DEF new, sent
<1>3. clock \in Nat /\ \A t \in Snapshots : t.time \in Nat
  BY FeedAssumption DEF FeedTypes, Feed!FeedTypeOK, Snapshots
<1>4. /\ emitted \subseteq Snapshots /\ wire \in Seq(Snapshots) /\ OnWire \subseteq Snapshots /\ InQueue \subseteq Snapshots
  BY Within DEF FeedTypes, OnWire, InQueue
<1>5. OnWire' = OnWire \union {sent} /\ InQueue' = InQueue
  BY <1>1, <1>2, <1>4, Entered DEF OnWire, InQueue
<1>6. \A t \in Flying : t.time < clock
  BY <1>1 DEF Flying, PipeInv
<1>7. agg.event < clock
  BY <1>1, <1>3 DEF TakenInv
<1>8. Flying' = IF k = "empty" THEN Flying ELSE Flying \union {sent}
  BY <1>2, <1>5 DEF Flying, Priced
<1>9. InQueue' \subseteq emitted'
  BY <1>1, <1>5 DEF PipeInv
<1>10. \A t \in OnWire' : Priced(t) => \E e \in emitted' : e.time = t.time /\ (t.kind = "ok" => e = t)
  <2>1. ASSUME NEW t \in OnWire, Priced(t) PROVE \E e \in emitted' : e.time = t.time /\ (t.kind = "ok" => e = t)
    BY <1>1, <2>1 DEF PipeInv
  <2>2. Priced(sent) => \E e \in emitted' : e.time = sent.time /\ (sent.kind = "ok" => e = sent)
    BY <1>1, <1>2 DEF Priced
  <2>. QED BY <1>5, <2>1, <2>2
<1>11. InOrder(wire') /\ InOrder(queue')
  <2>1. \A t \in Feed!ToSet(wire) : Priced(t) /\ Priced(sent) => t.time < sent.time
    BY <1>2, <1>6 DEF Flying, OnWire
  <2>. QED BY <1>1, <1>2, <1>4, <2>1, OrderedAppend DEF PipeInv
<1>12. \A t \in InQueue', u \in OnWire' : Priced(u) => t.time < u.time
  BY <1>1, <1>2, <1>5 DEF PipeInv
<1>13. \A t \in Flying' : agg'.event < t.time
  BY <1>1, <1>2, <1>7, <1>8 DEF PipeInv
<1>14. ASSUME NEW e \in emitted', Later(e)' PROVE \E t \in Flying' : t.time = e.time
  <2>1. CASE e = new /\ k # "empty"
    BY <1>2, <1>8, <2>1
  <2>2. CASE e \in emitted
    <3>1. Later(e)
      <4>1. e.time < clock /\ e.time \in Nat
        BY <1>1, <1>3, <1>4, <2>2
      <4>. QED BY <1>1, <1>2, <1>3, <1>8, <1>14, <4>1 DEF Later
    <3>. QED BY <1>8, <2>2, <3>1 DEF PipeInv
  <2>. QED BY <1>1, <2>1, <2>2
<1>. QED BY <1>9, <1>10, <1>11, <1>12, <1>13, <1>14 DEF PipeInv

LEMMA PipeOfCallback ==
  ASSUME FeedTypes, Live', PipeInv, Feed!OnMarketData
  PROVE  PipeInv' /\ Flying' = Flying
<1>. DEFINE h == Head(wire)
<1>1. /\ wire # <<>> /\ wire' = Tail(wire) /\ UNCHANGED <<emitted, agg>>
  BY DEF Feed!OnMarketData, Feed!market
<1>2. /\ wire \in Seq(Snapshots) /\ queue \in Seq(Snapshots) /\ InQueue \subseteq Snapshots
  BY Within DEF FeedTypes, InQueue
<1>3. h \in Snapshots /\ OnWire = OnWire' \union {h}
  BY <1>1, <1>2, LeftFirst DEF OnWire
<1>4. counts' = {}
  BY DEF Live
<1>5. h.kind \in {"empty", "ok"} /\ queue' = IF h.kind = "empty" THEN queue ELSE Append(queue, h)
  <2>0. h.kind \in {"ok", "empty", "bad", "ahead"}
    BY <1>3 DEF Snapshots
  <2>1. h.kind # "bad"
    BY <1>4 DEF Feed!OnMarketData
  <2>2. CASE h.kind = "empty"
    BY <2>2 DEF Feed!OnMarketData
  <2>3. CASE h.kind \in {"ok", "ahead"}
    <3>1. \/ \E late : counts' = Feed!Dropped(counts) \union late
          \/ /\ counts' = counts \union (IF h.kind = "ahead" THEN {"timestamp_anomalies"} ELSE {})
             /\ queue' = Append(queue, Feed!Stamped(h))
      BY <2>3 DEF Feed!OnMarketData
    <3>2. /\ counts' = counts \union (IF h.kind = "ahead" THEN {"timestamp_anomalies"} ELSE {})
          /\ queue' = Append(queue, Feed!Stamped(h))
      BY <1>4, <3>1 DEF Feed!Dropped
    <3>3. h.kind # "ahead"
      BY <1>4, <3>2
    <3>. QED BY <1>3, <2>3, <3>2, <3>3, StampedIs
  <2>. QED BY <2>0, <2>1, <2>2, <2>3
<1>. HIDE DEF h
<1>6. InQueue' = IF h.kind = "empty" THEN InQueue ELSE InQueue \union {h}
  <2>1. CASE h.kind = "empty"
    BY <1>5, <2>1 DEF InQueue
  <2>2. CASE h.kind # "empty"
    <3>1. queue' = Append(queue, h)
      BY <1>5, <2>2
    <3>. QED BY <1>2, <1>3, <2>2, <3>1, Entered DEF InQueue
  <2>. QED BY <2>1, <2>2
<1>7. Flying' = Flying
  BY <1>3, <1>5, <1>6 DEF Flying, Priced
<1>8. h.kind = "ok" => h \in emitted
  BY <1>3 DEF PipeInv, Priced
<1>9. InQueue' \subseteq emitted'
  BY <1>1, <1>5, <1>6, <1>8 DEF PipeInv
<1>10. \A t \in OnWire' : Priced(t) => \E e \in emitted' : e.time = t.time /\ (t.kind = "ok" => e = t)
  BY <1>1, <1>3 DEF PipeInv
<1>11. /\ InOrder(wire') /\ \A t \in OnWire' : Priced(h) /\ Priced(t) => h.time < t.time
  BY <1>1, <1>2, OrderedTail DEF PipeInv, OnWire, h
<1>12. InOrder(queue')
  <2>1. \A t \in Feed!ToSet(queue) : Priced(t) /\ Priced(h) => t.time < h.time
    BY <1>3 DEF PipeInv, InQueue
  <2>. QED BY <1>2, <1>3, <1>5, <2>1, OrderedAppend DEF PipeInv
<1>13. \A t \in InQueue', u \in OnWire' : Priced(u) => t.time < u.time
  BY <1>3, <1>5, <1>6, <1>11 DEF PipeInv, Priced
<1>14. \A t \in Flying' : agg'.event < t.time
  BY <1>1, <1>7 DEF PipeInv
<1>15. \A e \in emitted' : Later(e)' => \E t \in Flying' : t.time = e.time
  BY <1>1, <1>7 DEF PipeInv, Later
<1>. QED BY <1>7, <1>9, <1>10, <1>11, <1>12, <1>13, <1>14, <1>15 DEF PipeInv

\* A snapshot that is taken without a pause is trusted, and the earliest under way.
LEMMA PipeOfAccept ==
  ASSUME FeedTypes, ExchangeInv, GridInv, Live', PipeInv, Feed!AcceptTick
  PROVE  LET t == Head(queue)
             r == Feed!Taken(agg, t, clock)
         IN  /\ PipeInv' /\ t \in emitted /\ t \in Flying /\ ~Feed!Untrusted(agg, t, clock)
             /\ agg' = r.agg /\ bars' = bars \o r.bars /\ agg'.last = t /\ agg'.event = t.time
             /\ Flying = Flying' \union {t} /\ \A u \in Flying' : t.time < u.time
<1>. DEFINE t == Head(queue)
            r == Feed!Taken(agg, t, clock)
<1>1. /\ queue # <<>> /\ queue' = Tail(queue) /\ UNCHANGED <<emitted, wire, clock>>
  BY DEF Feed!AcceptTick, Feed!market
<1>2. ~Feed!Untrusted(agg, t, clock) /\ agg' = r.agg /\ bars' = bars \o r.bars
  <2>1. ~paused'
    BY DEF Live
  <2>. HIDE DEF r
  <2>. QED BY <2>1 DEF Feed!AcceptTick, Feed!Pause, r
<1>3. /\ wire \in Seq(Snapshots) /\ queue \in Seq(Snapshots)
  BY DEF FeedTypes
<1>4. /\ t \in Snapshots /\ InQueue = InQueue' \union {t} /\ OnWire' = OnWire
      /\ InOrder(queue') /\ \A u \in InQueue' : Priced(t) /\ Priced(u) => t.time < u.time
  BY <1>1, <1>3, LeftFirst, OrderedTail DEF InQueue, OnWire, PipeInv
<1>5. agg'.last = t /\ agg'.event = t.time
  <2>1. AggTypes
    BY TypesSplit
  <2>2. agg'.last = t /\ agg'.event = t.time
    <3>1. \A b, p, c : Aggregator(b, t, p, t.time, c).last = t /\ Aggregator(b, t, p, t.time, c).event = t.time
      BY DEF Aggregator
    <3>2. \E b, p, c : r.agg = Aggregator(b, t, p, t.time, c)
      <4>. HIDE DEF t
      <4>1. \/ r.agg = Aggregator(Feed!NewBucket(agg, t, Traded(agg, t)), t, Feed!SessionAt(t.time), t.time, agg.bucket.end)
            \/ r.agg = Aggregator(Feed!NewBucket(agg, t, Traded(agg, t)), t, Feed!SessionAt(t.time), t.time, agg.closed)
            \/ r.agg = Aggregator(Feed!Extended(agg.bucket, t, Traded(agg, t)), t, Feed!SessionAt(t.time), t.time, agg.closed)
        BY <1>4, <2>1, TakenIs DEF AggTypes
      <4>. HIDE DEF r
      <4>. QED BY <4>1
    <3>. HIDE DEF r, t
    <3>. QED BY <1>2, <3>1, <3>2
  <2>. QED BY <2>2
<1>. HIDE DEF t, r
<1>6. /\ InQueue \subseteq emitted /\ \A u \in InQueue : Priced(u) /\ u.time \in Nat
      /\ \A e \in emitted : e.time \in Nat /\ \A u \in Flying : u.time \in Nat
  <2>1. InQueue \subseteq emitted /\ \A u \in InQueue : Priced(u)
    BY DEF PipeInv, ExchangeInv, Priced
  <2>2. InQueue \subseteq Snapshots /\ OnWire \subseteq Snapshots /\ emitted \subseteq Snapshots
    BY Within DEF FeedTypes, InQueue, OnWire
  <2>3. \A u \in Snapshots : u.time \in Nat
    BY FeedAssumption DEF Snapshots
  <2>. QED BY <2>1, <2>2, <2>3 DEF Flying
<1>7. t \in emitted /\ Priced(t) /\ t \in Flying /\ Flying = Flying' \union {t}
  BY <1>4, <1>6 DEF Flying
<1>8. \A u \in Flying' : t.time < u.time /\ u \in Flying
  BY <1>4, <1>6, <1>7 DEF Flying, PipeInv
<1>9. ASSUME NEW e \in emitted', Later(e)' PROVE \E u \in Flying' : u.time = e.time
  <2>1. e \in emitted
    BY <1>1, <1>9
  <2>2. t.time < e.time
    BY <1>5, <1>6, <1>7, <1>8, <1>9, <2>1 DEF Later
  <2>3. PICK u \in Flying : u.time = e.time
    BY <1>7, <2>1, <2>2 DEF PipeInv, Later
  <2>4. u # t
    BY <1>6, <1>7, <2>2, <2>3
  <2>. QED BY <1>7, <2>3, <2>4
<1>10. PipeInv'
  <2>1. InQueue' \subseteq emitted'
    BY <1>1, <1>4 DEF PipeInv
  <2>2. \A u \in OnWire' : Priced(u) => \E e \in emitted' : e.time = u.time /\ (u.kind = "ok" => e = u)
    BY <1>1, <1>4 DEF PipeInv
  <2>3. InOrder(wire') /\ InOrder(queue')
    BY <1>1, <1>4 DEF PipeInv
  <2>4. \A x \in InQueue', u \in OnWire' : Priced(u) => x.time < u.time
    BY <1>4 DEF PipeInv
  <2>5. \A u \in Flying' : agg'.event < u.time
    BY <1>5, <1>8
  <2>. QED BY <1>9, <2>1, <2>2, <2>3, <2>4, <2>5 DEF PipeInv
<1>. QED BY <1>2, <1>5, <1>7, <1>8, <1>10 DEF t, r

LEMMA PipeStep ==
  ASSUME FeedTypes, ExchangeInv, LoopInv, GridInv, Live => PipeInv /\ TakenInv, FeedStep, Live'
  PROVE  PipeInv'
<1>0. Live \/ Feed!Subscribe
  BY LiveBefore DEF Live
<1>1. CASE Feed!Subscribe
  <2>1. UNCHANGED <<wire, queue, agg, emitted>> /\ loop = "login"
    BY <1>1 DEF Feed!Subscribe, Feed!market
  <2>2. wire' = <<>> /\ queue' = <<>> /\ agg'.last = None
    BY <2>1 DEF LoopInv, Untouched
  <2>3. OnWire' = {} /\ InQueue' = {}
    BY <2>2 DEF OnWire, InQueue, Feed!ToSet
  <2>4. Flying' = {}
    BY <2>3 DEF Flying
  <2>5. \A e : ~Later(e)'
    BY <2>2, <2>4 DEF Later
  <2>. QED BY <2>2, <2>3, <2>4, <2>5, EmptyOrdered DEF PipeInv
<1>2. ASSUME Live, PipeInv, TakenInv PROVE PipeInv'
  <2>1. CASE Feed!AcceptTick
    BY <1>2, <2>1, PipeOfAccept
  <2>2. ASSUME NEW k \in {"ok", "empty", "bad", "ahead"}, Feed!Trades(k) PROVE PipeInv'
    BY <1>2, <2>2, PipeOfTrades
  <2>3. CASE Feed!OnMarketData
    BY <1>2, <2>3, PipeOfCallback
  <2>4. CASE ~Feed!AcceptTick /\ UNCHANGED <<emitted, wire, queue>>
    <3>1. agg'.last = agg.last /\ agg'.event = agg.event
      BY <2>4, AggSame DEF Live, Aggregator
    <3>2. OnWire' = OnWire /\ InQueue' = InQueue
      BY <2>4 DEF OnWire, InQueue
    <3>3. Flying' = Flying
      BY <3>2 DEF Flying
    <3>4. \A e : Later(e)' <=> Later(e)
      BY <3>1, <3>3 DEF Later
    <3>. QED BY <1>2, <2>4, <3>1, <3>2, <3>3, <3>4 DEF PipeInv
  <2>5. ~Feed!FrontDown
    BY LiveBefore DEF Live
  <2>. QED BY <2>1, <2>2, <2>3, <2>4, <2>5, WhoMoves
<1>. QED BY <1>0, <1>1, <1>2

-------------------------------------------------------------------------------
(* What has been taken is what the exchange traded *)

\* The bucket of a first snapshot: nothing was traded since the last one taken.
LEMMA BegunHolds ==
  ASSUME FeedTypes, ExchangeInv, TakenInv, NEW t \in emitted,
         NEW c \in Nat, agg.last # None => agg.last.time < c /\ agg.event < t.time,
         agg.last # None => \A e \in emitted : agg.event < e.time => t.time <= e.time,
         NEW b, b = Feed!NewBucket(agg, t, Traded(agg, t)), BucketPlaced(b, c), b.start \in Nat, b.end \in Nat,
         b.start <= t.time, Feed!SessionAt(b.start) = Feed!SessionAt(t.time)
  PROVE  /\ b.last = t /\ b.first \in emitted /\ b.first.time <= b.last.time
         /\ b.count >= 2 => b.first.time < b.last.time
         /\ \A e \in TakenFrom(b) : b.low <= e.price /\ e.price <= b.high
         /\ \E e \in TakenFrom(b) : e.price = b.low
         /\ \E e \in TakenFrom(b) : e.price = b.high
         /\ b.complete => /\ \A e \in emitted : b.start <= e.time => b.first.time <= e.time
                          /\ VolumeInv(b)
<1>1. t \in Snapshots /\ agg.last \in Snapshots \union {None}
  BY DEF FeedTypes
<1>2. /\ b.first = t /\ b.last = t /\ b.high = t.price /\ b.low = t.price
      /\ b.volume = Traded(agg, t) /\ b.count = 1 /\ b.complete = Feed!SeenFromStart(agg, t, b.start)
  <2>1. Traded(agg, t) \in Int
    BY <1>1, TradedType
  <2>. QED BY <1>1, <2>1, NewBucketType
<1>3. /\ t.time \in Nat /\ t.price \in Int /\ t.volume \in Nat
      /\ \A e \in emitted : e.time \in Nat /\ e.volume \in Nat
  <2>1. emitted \subseteq Snapshots
    BY DEF FeedTypes
  <2>2. \A e \in Snapshots : e.time \in Nat /\ e.price \in Int /\ e.volume \in Nat
    BY FeedAssumption DEF Snapshots
  <2>. QED BY <1>1, <2>1, <2>2
<1>4. TakenFrom(b) = {t}
  BY <1>2, <1>3 DEF TakenFrom, ExchangeInv
<1>5. ASSUME b.complete
      PROVE  (\A e \in emitted : b.start <= e.time => b.first.time <= e.time) /\ VolumeInv(b)
  <2>0. t.time = b.start \/ (Feed!SameSession(agg, t) /\ agg.last.time < b.start)
    BY <1>2, <1>5 DEF Feed!SeenFromStart
  <2>1. CASE Feed!SameSession(agg, t)
    <3>1. /\ agg.last # None /\ agg.last \in emitted /\ agg.event = agg.last.time
          /\ agg.session = Feed!SessionAt(agg.last.time) /\ agg.session = Feed!SessionAt(t.time)
      BY <2>1 DEF Feed!SameSession, TakenInv
    <3>2. c <= b.start
      BY DEF BucketPlaced
    <3>3. agg.last.time < b.start
      BY <1>3, <3>1, <3>2
    <3>4. \A e \in emitted : agg.last.time < e.time => t.time <= e.time
      BY <3>1
    <3>5. \A e \in emitted : b.start <= e.time => b.first.time <= e.time
      BY <1>2, <1>3, <3>1, <3>3, <3>4
    <3>6. \A e \in emitted : e.time < b.start => e.time <= agg.last.time
      BY <1>3, <3>1, <3>4
    <3>7. b.volume = b.last.volume - agg.last.volume
      BY <1>2, <2>1 DEF Traded
    <3>. QED BY <3>1, <3>3, <3>5, <3>6, <3>7 DEF VolumeInv
  <2>2. CASE ~Feed!SameSession(agg, t)
    <3>1. t.time = b.start
      BY <2>0, <2>2
    <3>2. b.volume = 0
      BY <1>2, <2>2 DEF Traded
    <3>3. b.first.time = b.start /\ b.volume = b.last.volume - b.first.volume
      BY <1>2, <1>3, <3>1, <3>2
    <3>. QED BY <1>2, <3>1, <3>3 DEF VolumeInv
  <2>. QED BY <2>1, <2>2
<1>. QED BY <1>2, <1>3, <1>4, <1>5

\* A bucket that goes on with the next snapshot of the exchange.
LEMMA ExtendedHolds ==
  ASSUME FeedTypes, ExchangeInv, TakenInv, NEW t \in emitted, agg.bucket \in Buckets,
         BucketPlaced(agg.bucket, agg.closed), agg.event < t.time,
         \A e \in emitted : agg.event < e.time => t.time <= e.time, t.time < agg.bucket.end,
         NEW b, b = Feed!Extended(agg.bucket, t, Traded(agg, t))
  PROVE  /\ b.last = t /\ b.first \in emitted /\ b.first.time <= b.last.time
         /\ b.count >= 2 => b.first.time < b.last.time
         /\ \A e \in TakenFrom(b) : b.low <= e.price /\ e.price <= b.high
         /\ \E e \in TakenFrom(b) : e.price = b.low
         /\ \E e \in TakenFrom(b) : e.price = b.high
         /\ b.complete => /\ \A e \in emitted : b.start <= e.time => b.first.time <= e.time
                          /\ VolumeInv(b)
<1>. DEFINE o == agg.bucket
<1>0. o # None /\ BucketInv(o) /\ o.last = agg.last /\ agg.last # None
  BY NoneIsNothing DEF TakenInv, BucketInv
<1>1. /\ t \in Snapshots /\ agg.last \in emitted /\ agg.last \in Snapshots \union {None}
      /\ agg.event = agg.last.time /\ agg.session = Feed!SessionAt(agg.last.time)
  BY <1>0 DEF FeedTypes, TakenInv
<1>2. /\ t.time \in Nat /\ t.price \in Int /\ t.volume \in Nat
      /\ \A e \in emitted : e.time \in Nat /\ e.volume \in Nat /\ e.price \in Int
  <2>1. \A e \in Snapshots : e.time \in Nat /\ e.volume \in Nat /\ e.price \in Int
    BY FeedAssumption DEF Snapshots
  <2>2. emitted \subseteq Snapshots
    BY DEF FeedTypes
  <2>. QED BY <2>1, <2>2
<1>3. o \in Buckets /\ o.start \in Nat /\ o.end \in Nat /\ o.volume \in Int /\ o.high \in Int /\ o.low \in Int
  BY DEF Buckets
<1>4. /\ b.start = o.start /\ b.first = o.first /\ b.last = t
      /\ b.high \in {o.high, t.price} /\ o.high <= b.high /\ t.price <= b.high
      /\ b.low \in {o.low, t.price} /\ b.low <= o.low /\ b.low <= t.price
      /\ b.volume = o.volume + Traded(agg, t) /\ b.complete = o.complete
  <2>1. Traded(agg, t) \in Int
    BY <1>1, TradedType
  <2>2. b = Feed!Extended(o, t, Traded(agg, t)) /\ o \in Buckets
    BY <1>3
  <2>. HIDE DEF o
  <2>. QED BY <1>1, <2>1, <2>2, ExtendedIs
<1>5. PICK s \in Sessions : s.start <= o.start /\ o.end <= s.end
  BY DEF BucketPlaced
<1>6. /\ o.start <= o.first.time /\ o.first \in emitted /\ o.first.time <= agg.last.time
      /\ agg.last.time < t.time /\ o.start <= t.time /\ t.time < o.end
  <2>1. o.start <= o.first.time /\ o.first \in emitted /\ o.first.time <= agg.last.time
    BY <1>0 DEF BucketPlaced, BucketInv
  <2>. HIDE DEF o
  <2>2. agg.last.time < t.time
    BY <1>1
  <2>. QED BY <1>1, <1>2, <1>3, <2>1, <2>2 DEF o
<1>7. b.volume = o.volume + (t.volume - agg.last.volume)
  <2>1. s.start \in Nat /\ s.end \in Nat
    BY FeedAssumption
  <2>2. Feed!SessionAt(t.time) = s
    BY <1>2, <1>3, <1>5, <1>6, <2>1, SessionOf
  <2>3. Feed!SessionAt(agg.last.time) = s
    <3>1. agg.last.time \in Int /\ s.start <= agg.last.time /\ agg.last.time < s.end
      BY <1>1, <1>2, <1>3, <1>5, <1>6, <2>1
    <3>. QED BY <3>1, SessionOf
  <2>. QED BY <1>0, <1>1, <1>4, <2>2, <2>3 DEF Traded, Feed!SameSession
<1>. HIDE DEF o
<1>8. TakenFrom(b) = TakenFrom(o) \union {t}
  <2>1. ASSUME NEW e \in TakenFrom(b) PROVE e \in TakenFrom(o) \union {t}
    BY <1>0, <1>1, <1>2, <1>4, <2>1 DEF TakenFrom, ExchangeInv
  <2>2. ASSUME NEW e \in TakenFrom(o) PROVE e \in TakenFrom(b)
    BY <1>0, <1>1, <1>2, <1>4, <1>6, <2>2 DEF TakenFrom
  <2>3. t \in TakenFrom(b)
    BY <1>1, <1>2, <1>4, <1>6 DEF TakenFrom
  <2>. QED BY <2>1, <2>2, <2>3
<1>9. /\ \A e \in TakenFrom(o) : e.price \in Int /\ o.low <= e.price /\ e.price <= o.high
      /\ \E e \in TakenFrom(o) : e.price = o.low
      /\ \E e \in TakenFrom(o) : e.price = o.high
  BY <1>0, <1>2 DEF BucketInv, TakenFrom
<1>10. /\ \A e \in TakenFrom(b) : b.low <= e.price /\ e.price <= b.high
       /\ \E e \in TakenFrom(b) : e.price = b.low
       /\ \E e \in TakenFrom(b) : e.price = b.high
  BY <1>2, <1>3, <1>4, <1>8, <1>9
<1>11. b.first.time < b.last.time /\ b.first.time \in Nat /\ b.last.time \in Nat
  BY <1>1, <1>2, <1>4, <1>6
<1>12. ASSUME b.complete
       PROVE  (\A e \in emitted : b.start <= e.time => b.first.time <= e.time) /\ VolumeInv(b)
  <2>1. o.complete
    BY <1>4, <1>12
  <2>2. \A e \in emitted : o.start <= e.time => o.first.time <= e.time
    BY <1>0, <2>1 DEF BucketInv
  <2>3. VolumeInv(o)
    BY <1>0, <2>1 DEF BucketInv
  <2>4. CASE o.first.time = o.start /\ o.volume = o.last.volume - o.first.volume
    <3>1. b.volume = t.volume - o.first.volume
      BY <1>0, <1>1, <1>2, <1>3, <1>6, <1>7, <2>4
    <3>. QED BY <1>4, <2>2, <2>4, <3>1 DEF VolumeInv
  <2>5. ASSUME NEW p \in emitted, p.time < o.start, Feed!SessionAt(p.time) = Feed!SessionAt(o.start),
               \A e \in emitted : e.time < o.start => e.time <= p.time, o.volume = o.last.volume - p.volume
        PROVE  VolumeInv(b)
    <3>1. b.volume = t.volume - p.volume
      BY <1>0, <1>1, <1>2, <1>3, <1>7, <2>5
    <3>. QED BY <1>4, <2>5, <3>1 DEF VolumeInv
  <2>6. VolumeInv(b)
    BY <2>3, <2>4, <2>5 DEF VolumeInv
  <2>. QED BY <1>4, <2>2, <2>6
<1>. QED BY <1>4, <1>6, <1>10, <1>11, <1>12

\* A trade of now is after all that was taken.
LEMMA BucketKept ==
  ASSUME FeedTypes, ExchangeInv, GridInv, TakenInv, NEW k \in {"ok", "empty", "bad", "ahead"}, Feed!Trades(k)
  PROVE  TakenInv'
<1>. DEFINE new == Feed!Snapshot("ok")
            b == agg.bucket
<1>1. /\ UNCHANGED agg /\ \A t \in emitted : t.time < clock
      /\ emitted' = emitted \/ emitted' = emitted \union {new}
  BY DEF Feed!Trades
<1>2. new.time = clock /\ clock \in Nat /\ \A e \in emitted : e.time \in Nat
  <2>1. \A e \in emitted : e.time \in Nat
    BY FeedAssumption DEF FeedTypes, Snapshots
  <2>2. clock \in Nat
    BY FeedAssumption DEF FeedTypes, Feed!FeedTypeOK
  <2>. QED BY <2>1, <2>2, SnapshotIs
<1>. HIDE DEF new
<1>3. \A e \in emitted' : e \in emitted \/ e.time = clock
  BY <1>1, <1>2
<1>4. emitted \subseteq emitted'
  BY <1>1
<1>5. ASSUME b # None PROVE BucketInv(agg.bucket)'
  <2>0. BucketInv(b) /\ b \in Buckets /\ agg.last \in emitted
    BY <1>5, NoneIsNothing DEF TakenInv, BucketInv, FeedTypes
  <2>1. b.start \in Nat /\ b.start <= b.first.time
    BY <1>5, <2>0 DEF Buckets, GridInv, BucketPlaced
  <2>. HIDE DEF b
  <2>2. b.last \in emitted /\ b.first \in emitted /\ b.last.time < clock /\ b.first.time < clock
    BY <1>1, <2>0 DEF BucketInv
  <2>3. TakenFrom(b)' = TakenFrom(b) /\ b' = b
    BY <1>1, <1>2, <1>3, <1>4, <2>2 DEF TakenFrom, b
  <2>4. ASSUME b.complete
        PROVE  (\A e \in emitted' : b.start <= e.time => b.first.time <= e.time) /\ VolumeInv(b)'
    <3>1. \A e \in emitted' : b.start <= e.time => b.first.time <= e.time
      BY <1>2, <1>3, <2>0, <2>2, <2>4 DEF BucketInv
    <3>2. ASSUME NEW p \in emitted, \A e \in emitted : e.time < b.start => e.time <= p.time
          PROVE  \A e \in emitted' : e.time < b.start => e.time <= p.time
      <4>1. b.start < clock
        BY <1>2, <2>1, <2>2
      <4>. QED BY <1>2, <1>3, <2>1, <3>2, <4>1
    <3>3. VolumeInv(b)
      BY <2>0, <2>4 DEF BucketInv
    <3>4. VolumeInv(b)'
      BY <1>4, <2>3, <3>2, <3>3 DEF VolumeInv
    <3>. QED BY <3>1, <3>4
  <2>. QED BY <1>1, <1>4, <2>0, <2>3, <2>4 DEF BucketInv, b
<1>. QED BY <1>1, <1>4, <1>5 DEF TakenInv

\* The snapshot that is accepted is the next one that the exchange made.
LEMMA BucketOfAccept ==
  ASSUME FeedTypes, ExchangeInv, GridInv, Live', PipeInv, TakenInv, Feed!AcceptTick
  PROVE  /\ TakenInv'
         /\ bars' = bars \/ (/\ agg.bucket \in Buckets /\ BucketPlaced(agg.bucket, agg.closed)
                             /\ BucketInv(agg.bucket) /\ agg.bucket.last \in emitted
                             /\ Given(agg.bucket, Feed!Taken(agg, Head(queue), clock).bars)
                             /\ bars' = bars \o Feed!Taken(agg, Head(queue), clock).bars
                             /\ \A e \in emitted : agg.bucket.last.time < e.time => ~(e.time < agg.bucket.end))
<1>. DEFINE t == Head(queue)
            r == Feed!Taken(agg, t, clock)
            p == Feed!SessionAt(t.time)
            begun == Feed!NewBucket(agg, t, Traded(agg, t))
            more == Feed!Extended(agg.bucket, t, Traded(agg, t))
<1>1. /\ t \in emitted /\ t \in Flying /\ ~Feed!Untrusted(agg, t, clock)
      /\ agg' = r.agg /\ bars' = bars \o r.bars /\ emitted' = emitted
      /\ Flying = Flying' \union {t} /\ \A u \in Flying' : t.time < u.time
  BY PipeOfAccept DEF Feed!AcceptTick, Feed!market
<1>2. AggTypes /\ AggregatorIs
  BY TypesSplit DEF AggTypes
<1>. HIDE DEF t, r, p, begun, more
<1>3. /\ t \in Snapshots /\ t.time \in Nat /\ \A e \in emitted : e.time \in Nat
      /\ agg.bucket \in Buckets \union {None} /\ agg.closed \in Nat
  <2>1. emitted \subseteq Snapshots
    BY DEF FeedTypes
  <2>2. \A e \in Snapshots : e.time \in Nat
    BY FeedAssumption DEF Snapshots
  <2>3. agg.bucket \in Buckets \union {None} /\ agg.closed \in Nat
    BY <1>2 DEF AggTypes
  <2>. QED BY <1>1, <2>1, <2>2, <2>3
<1>4. p # None /\ ~(t.time < agg.closed) /\ ~(t.time <= agg.event)
  BY <1>1 DEF Feed!Untrusted, p
<1>5. agg.last # None => agg.event < t.time /\ \A e \in emitted : agg.event < e.time => t.time <= e.time
  <2>. SUFFICES ASSUME agg.last # None
                PROVE  agg.event < t.time /\ \A e \in emitted : agg.event < e.time => t.time <= e.time
    OBVIOUS
  <2>1. agg.event < t.time
    BY <1>1 DEF PipeInv
  <2>2. ASSUME NEW e \in emitted, agg.event < e.time PROVE t.time <= e.time
    <3>1. PICK u \in Flying : u.time = e.time
      BY <2>2 DEF PipeInv, Later
    <3>. QED BY <1>1, <1>3, <3>1
  <2>. QED BY <2>1, <2>2
<1>6. ASSUME NEW b, NEW c, agg' = Aggregator(b, t, p, t.time, c), b \in Buckets,
             /\ b.last = t /\ b.first \in emitted /\ b.first.time <= b.last.time
             /\ b.count >= 2 => b.first.time < b.last.time
             /\ \A e \in TakenFrom(b) : b.low <= e.price /\ e.price <= b.high
             /\ \E e \in TakenFrom(b) : e.price = b.low
             /\ \E e \in TakenFrom(b) : e.price = b.high
             /\ b.complete => /\ \A e \in emitted : b.start <= e.time => b.first.time <= e.time
                              /\ VolumeInv(b)
      PROVE  TakenInv'
  <2>1. agg'.bucket = b /\ agg'.last = t /\ agg'.session = p /\ agg'.event = t.time
    BY <1>6 DEF Aggregator
  <2>2. b # None /\ t # None
    BY <1>3, <1>6, NoneIsNothing
  <2>3. p \in Sessions
    <3>1. t.time \in Int
      BY <1>3
    <3>. QED BY <1>4, <3>1, InSession DEF p
  <2>4. TakenFrom(agg.bucket)' = TakenFrom(b)
    BY <1>1, <2>1 DEF TakenFrom
  <2>5. VolumeInv(agg.bucket)' <=> VolumeInv(b)
    BY <1>1, <2>1 DEF VolumeInv
  <2>6. BucketInv(agg.bucket)'
    BY <1>1, <1>6, <2>1, <2>4, <2>5 DEF BucketInv
  <2>7. p = Feed!SessionAt(t.time)
    BY DEF p
  <2>. QED BY <1>1, <2>1, <2>2, <2>3, <2>6, <2>7 DEF TakenInv
<1>7. ASSUME NEW c \in Nat, c = 0 \/ OnGrid(c), c <= t.time, agg.last # None => agg.last.time < c,
             agg' = Aggregator(begun, t, p, t.time, c)
      PROVE  TakenInv'
  <2>1. Traded(agg, t) \in Int
    BY <1>2, <1>3, TradedType DEF AggTypes
  <2>2. /\ BucketPlaced(begun, c) /\ begun.start \in Nat /\ begun.end \in Nat /\ begun.start <= t.time
        /\ Feed!SessionAt(begun.start) = Feed!SessionAt(t.time)
    BY <1>3, <1>4, <1>7, <2>1, NewBucketIs DEF begun, p
  <2>3. begun \in Buckets
    BY <1>3, <2>1, <2>2, NewBucketType DEF begun
  <2>. DEFINE b == begun
  <2>4. /\ b.last = t /\ b.first \in emitted /\ b.first.time <= b.last.time
        /\ b.count >= 2 => b.first.time < b.last.time
        /\ \A e \in TakenFrom(b) : b.low <= e.price /\ e.price <= b.high
        /\ \E e \in TakenFrom(b) : e.price = b.low
        /\ \E e \in TakenFrom(b) : e.price = b.high
        /\ b.complete => /\ \A e \in emitted : b.start <= e.time => b.first.time <= e.time
                         /\ VolumeInv(b)
    <3>1. begun = Feed!NewBucket(agg, t, Traded(agg, t))
      BY DEF begun
    <3>2. agg.last # None => agg.last.time < c /\ agg.event < t.time
      BY <1>5, <1>7
    <3>3. agg.last # None => \A e \in emitted : agg.event < e.time => t.time <= e.time
      BY <1>5
    <3>. QED BY <1>1, <1>7, <2>2, <3>1, <3>2, <3>3, BegunHolds
  <2>. QED BY <1>6, <1>7, <2>3, <2>4
<1>8. CASE /\ agg.bucket # None /\ t.time >= agg.bucket.end /\ Given(agg.bucket, r.bars)
           /\ r.agg = Aggregator(begun, t, p, t.time, agg.bucket.end)
  <2>1. /\ agg.bucket \in Buckets /\ BucketPlaced(agg.bucket, agg.closed) /\ BucketInv(agg.bucket)
        /\ agg.last \in emitted /\ agg.bucket.last = agg.last /\ agg.last # None /\ agg.event = agg.last.time
    BY <1>3, <1>8, NoneIsNothing DEF GridInv, TakenInv, BucketInv
  <2>2. agg.bucket.end \in Nat /\ OnGrid(agg.bucket.end) /\ agg.last.time < agg.bucket.end
    BY <2>1 DEF BucketPlaced, Buckets
  <2>3. TakenInv'
    <3>1. agg.bucket.end <= t.time
      BY <1>3, <1>8, <2>2
    <3>. QED BY <1>1, <1>7, <1>8, <2>2, <3>1
  <2>4. \A e \in emitted : agg.bucket.last.time < e.time => ~(e.time < agg.bucket.end)
    BY <1>3, <1>5, <1>8, <2>1, <2>2
  <2>. QED BY <1>1, <1>8, <2>1, <2>3, <2>4 DEF r, t
<1>9. CASE /\ agg.bucket = None /\ r.bars = <<>> /\ r.agg = Aggregator(begun, t, p, t.time, agg.closed)
  <2>1. TakenInv'
    <3>1. agg.closed <= t.time
      BY <1>3, <1>4
    <3>2. agg.last # None => agg.last.time < agg.closed
      BY <1>9 DEF TakenInv
    <3>3. agg.closed = 0 \/ OnGrid(agg.closed)
      BY DEF GridInv
    <3>. QED BY <1>1, <1>3, <1>7, <1>9, <3>1, <3>2, <3>3
  <2>2. bars' = bars
    BY <1>1, <1>2, <1>9 DEF AggTypes
  <2>. QED BY <2>1, <2>2
<1>10. CASE /\ agg.bucket # None /\ ~(t.time >= agg.bucket.end) /\ r.bars = <<>>
            /\ r.agg = Aggregator(more, t, p, t.time, agg.closed)
  <2>1. agg.bucket \in Buckets /\ BucketPlaced(agg.bucket, agg.closed) /\ agg.last # None
    BY <1>3, <1>10, NoneIsNothing DEF GridInv, TakenInv
  <2>2. agg.bucket.end \in Nat
    BY <2>1 DEF Buckets
  <2>3. t.time < agg.bucket.end
    BY <1>3, <1>10, <2>2
  <2>4. Traded(agg, t) \in Int
    BY <1>2, <1>3, TradedType DEF AggTypes
  <2>5. more \in Buckets
    BY <1>3, <2>1, <2>4, ExtendedIs DEF more
  <2>. DEFINE b == more
  <2>6. /\ b.last = t /\ b.first \in emitted /\ b.first.time <= b.last.time
        /\ b.count >= 2 => b.first.time < b.last.time
        /\ \A e \in TakenFrom(b) : b.low <= e.price /\ e.price <= b.high
        /\ \E e \in TakenFrom(b) : e.price = b.low
        /\ \E e \in TakenFrom(b) : e.price = b.high
        /\ b.complete => /\ \A e \in emitted : b.start <= e.time => b.first.time <= e.time
                         /\ VolumeInv(b)
    <3>1. more = Feed!Extended(agg.bucket, t, Traded(agg, t))
      BY DEF more
    <3>2. agg.event < t.time /\ \A e \in emitted : agg.event < e.time => t.time <= e.time
      BY <1>5, <2>1
    <3>. QED BY <1>1, <2>1, <2>3, <3>1, <3>2, ExtendedHolds
  <2>7. TakenInv'
    BY <1>1, <1>6, <1>10, <2>5, <2>6
  <2>8. bars' = bars
    BY <1>1, <1>2, <1>10 DEF AggTypes
  <2>. QED BY <2>7, <2>8
<1>11. \/ /\ agg.bucket # None /\ t.time >= agg.bucket.end /\ Given(agg.bucket, r.bars)
          /\ r.agg = Aggregator(begun, t, p, t.time, agg.bucket.end)
       \/ agg.bucket = None /\ r.bars = <<>> /\ r.agg = Aggregator(begun, t, p, t.time, agg.closed)
       \/ /\ agg.bucket # None /\ ~(t.time >= agg.bucket.end) /\ r.bars = <<>>
          /\ r.agg = Aggregator(more, t, p, t.time, agg.closed)
  BY <1>2, <1>3, TakenIs DEF r, p, begun, more
<1>. QED BY <1>8, <1>9, <1>10, <1>11

LEMMA TakenStep ==
  ASSUME FeedTypes, ExchangeInv, LoopInv, GridInv, Live => PipeInv /\ TakenInv, FeedStep, Live'
  PROVE  TakenInv'
<1>0. Live \/ Feed!Subscribe
  BY LiveBefore DEF Live
<1>1. CASE Feed!Subscribe
  <2>1. UNCHANGED agg /\ loop = "login"
    BY <1>1 DEF Feed!Subscribe
  <2>. QED BY <2>1 DEF LoopInv, Untouched, TakenInv
<1>2. ASSUME Live, PipeInv, TakenInv PROVE TakenInv'
  <2>1. CASE Feed!AcceptTick
    BY <1>2, <2>1, BucketOfAccept
  <2>2. ASSUME NEW k \in {"ok", "empty", "bad", "ahead"}, Feed!Trades(k) PROVE TakenInv'
    BY <1>2, <2>2, BucketKept
  <2>3. CASE ~Feed!AcceptTick /\ emitted' = emitted /\ agg' = agg
    <3>1. \A b : TakenFrom(b)' = TakenFrom(b') /\ (VolumeInv(b)' <=> VolumeInv(b'))
      BY <2>3 DEF TakenFrom, VolumeInv
    <3>. QED BY <1>2, <2>3 DEF TakenInv, BucketInv, TakenFrom, VolumeInv
  <2>4. CASE /\ agg.bucket # None /\ emitted' = emitted
             /\ agg' = Aggregator(None, agg.last, agg.session, agg.event, agg.bucket.end)
    <3>1. /\ agg'.bucket = None /\ agg'.last = agg.last /\ agg'.session = agg.session
          /\ agg'.event = agg.event /\ agg'.closed = agg.bucket.end
      BY <2>4 DEF Aggregator
    <3>2. agg.last = agg.bucket.last /\ agg.bucket.last.time < agg.bucket.end
      BY <1>2, <2>4 DEF TakenInv, BucketInv, GridInv, BucketPlaced
    <3>. QED BY <1>2, <2>4, <3>1, <3>2 DEF TakenInv
  <2>5. \/ \E k \in {"ok", "empty", "bad", "ahead"} : Feed!Trades(k)
        \/ Feed!AcceptTick \/ emitted' = emitted
    BY WhoMoves DEF Feed!FrontDown, Feed!OnMarketData, Feed!market
  <2>6. Feed!AcceptTick \/ agg' = agg
        \/ (agg.bucket # None /\ agg' = Aggregator(None, agg.last, agg.session, agg.event, agg.bucket.end))
    BY AggSame DEF Live
  <2>. QED BY <2>1, <2>2, <2>3, <2>4, <2>5, <2>6
<1>. QED BY <1>0, <1>1, <1>2

-------------------------------------------------------------------------------
(* A bar is true, or one of its snapshots is still under way *)

LEMMA FlightIs ==
  /\ \A b : Feed!InFlight(b) <=> \E t \in Flying : b.start <= t.time /\ t.time < b.end
  /\ \A b : Feed!InFlight(b)' <=> \E t \in Flying' : b.start <= t.time /\ t.time < b.end
BY DEF Feed!InFlight, Flying, Priced, OnWire, InQueue

\* Bars that were given stay true, or on their way: what comes after them is later.
LEMMA OldBar ==
  ASSUME FeedTypes, ExchangeInv, GridInv, Live, Live', PipeInv, FeedStep,
         NEW bar \in Bars, bar.end <= agg.closed, bar.end <= clock,
         TrueIn(emitted, bar) \/ \E t \in Flying : bar.start <= t.time /\ t.time < bar.end
  PROVE  TrueIn(emitted', bar) \/ \E t \in Flying' : bar.start <= t.time /\ t.time < bar.end
<1>1. bar.end \in Nat /\ bar.start \in Nat /\ clock \in Nat /\ agg.closed \in Nat
  BY FeedAssumption DEF Bars, FeedTypes, Feed!FeedTypeOK
<1>2. ASSUME NEW k \in {"ok", "empty", "bad", "ahead"}, Feed!Trades(k)
      PROVE  TrueIn(emitted', bar) \/ \E t \in Flying' : bar.start <= t.time /\ t.time < bar.end
  <2>1. emitted' = emitted \/ emitted' = emitted \union {Feed!Snapshot("ok")}
    BY <1>2 DEF Feed!Trades
  <2>2. Feed!Snapshot("ok").time = clock
    BY SnapshotIs
  <2>3. \A t \in emitted' : t.time \in Nat
    <3>1. \A t \in emitted : t.time \in Nat
      BY FeedAssumption DEF FeedTypes, Snapshots
    <3>. QED BY <1>1, <2>1, <2>2, <3>1
  <2>4. CASE TrueIn(emitted, bar)
    <3>1. \A t \in emitted : t \in emitted'
      BY <2>1
    <3>2. \A t \in emitted' : t \in emitted \/ ~(t.time < bar.end)
      BY <1>1, <2>1, <2>2
    <3>. QED BY <2>3, <2>4, <3>1, <3>2, TrueKept
  <2>5. Flying \subseteq Flying'
    <3>1. wire \in Seq(Snapshots) /\ queue' = queue /\ wire' \in {wire, Append(wire, Feed!Snapshot(k))}
      BY <1>2 DEF FeedTypes, Feed!Trades
    <3>2. Feed!Snapshot(k) \in Snapshots
      BY SnapshotIs
    <3>3. InQueue' = InQueue
      BY <3>1 DEF InQueue
    <3>4. CASE wire' = wire
      <4>1. OnWire' = OnWire
        BY <3>4 DEF OnWire
      <4>. QED BY <3>3, <4>1 DEF Flying
    <3>5. CASE wire' = Append(wire, Feed!Snapshot(k))
      <4>1. Feed!ToSet(Append(wire, Feed!Snapshot(k))) = Feed!ToSet(wire) \union {Feed!Snapshot(k)}
        BY <3>1, <3>2, Entered
      <4>2. OnWire' = Feed!ToSet(wire')
        BY DEF OnWire
      <4>3. OnWire' = OnWire \union {Feed!Snapshot(k)}
        BY <3>5, <4>1, <4>2 DEF OnWire
      <4>. QED BY <3>3, <4>3 DEF Flying
    <3>. QED BY <3>1, <3>4, <3>5
  <2>. QED BY <2>4, <2>5
<1>3. CASE Feed!OnMarketData
  <2>1. Flying' = Flying
    BY <1>3, PipeOfCallback
  <2>2. emitted' = emitted
    BY <1>3 DEF Feed!OnMarketData, Feed!market
  <2>. QED BY <2>1, <2>2
<1>4. CASE Feed!AcceptTick
  <2>. DEFINE t == Head(queue)
  <2>1. /\ ~Feed!Untrusted(agg, t, clock) /\ Flying = Flying' \union {t} /\ emitted' = emitted
        /\ t \in emitted
    BY <1>4, PipeOfAccept DEF Feed!AcceptTick, Feed!market
  <2>2. t.time \in Nat
    BY <2>1, FeedAssumption DEF FeedTypes, Snapshots
  <2>3. ~(t.time < agg.closed)
    BY <2>1 DEF Feed!Untrusted
  <2>. HIDE DEF t
  <2>4. ~(t.time < bar.end)
    BY <1>1, <2>2, <2>3
  <2>5. CASE TrueIn(emitted, bar)
    <3>1. TrueIn(emitted', bar)
      BY <2>1, <2>5
    <3>. QED BY <3>1
  <2>6. ASSUME NEW u \in Flying, bar.start <= u.time /\ u.time < bar.end
        PROVE  \E v \in Flying' : bar.start <= v.time /\ v.time < bar.end
    <3>1. u # t
      BY <2>4, <2>6
    <3>2. u \in Flying'
      BY <2>1, <3>1
    <3>. QED BY <2>6, <3>2
  <2>. QED BY <2>5, <2>6
<1>5. CASE UNCHANGED <<emitted, wire, queue>>
  <2>1. Flying' = Flying /\ emitted' = emitted
    BY <1>5 DEF Flying, OnWire, InQueue
  <2>. QED BY <2>1
<1>6. ~Feed!FrontDown
  BY LiveBefore DEF Live
<1>. QED BY <1>2, <1>3, <1>4, <1>5, <1>6, WhoMoves

LEMMA OldBars ==
  ASSUME FeedTypes, ExchangeInv, GridInv, Live, Live', PipeInv, TrueBars, FeedStep, NEW i \in DOMAIN bars
  PROVE  TrueIn(emitted', bars[i]) \/ \E t \in Flying' : bars[i].start <= t.time /\ t.time < bars[i].end
<1>1. bars[i] \in Bars /\ bars[i].end <= agg.closed /\ bars[i].end <= clock
  BY DEF FeedTypes, GridInv, BarsPlaced
<1>2. TrueIn(emitted, bars[i]) \/ \E t \in Flying : bars[i].start <= t.time /\ t.time < bars[i].end
  BY TrueIs, FlightIs DEF TrueBars
<1>. QED BY <1>1, <1>2, OldBar

LEMMA NewBar ==
  ASSUME FeedTypes, ExchangeInv, GridInv, Live, Live', PipeInv, TakenInv, FeedStep
  PROVE  bars' = bars
         \/ (/\ agg.bucket \in Buckets /\ BucketPlaced(agg.bucket, agg.closed)
             /\ \E out : Given(agg.bucket, out) /\ bars' = bars \o out
             /\ agg.bucket.complete /\ agg.bucket.count >= 2 =>
                    TrueIn(emitted', BarOf(agg.bucket))
                    \/ \E t \in Flying' : agg.bucket.start <= t.time /\ t.time < agg.bucket.end)
<1>1. CASE Feed!AcceptTick
  <2>1. emitted' = emitted
    BY <1>1 DEF Feed!AcceptTick, Feed!market
  <2>. QED BY <1>1, <2>1, BucketOfAccept, BucketIsTrue
<1>2. CASE ~Feed!AcceptTick
  <2>1. CASE /\ Feed!Advance /\ agg.bucket # None /\ clock >= agg.bucket.end
             /\ \E out : Given(agg.bucket, out) /\ bars' = bars \o out
    <3>. DEFINE b == agg.bucket
    <3>1. b \in Buckets /\ BucketPlaced(b, agg.closed) /\ BucketInv(b) /\ b.last = agg.last
          /\ agg.last \in emitted /\ agg.last # None /\ agg.event = agg.last.time
      BY <2>1, NoneIsNothing DEF FeedTypes, GridInv, TakenInv, BucketInv
    <3>2. UNCHANGED <<emitted, wire, queue>>
      BY <2>1 DEF Feed!Advance, Feed!market
    <3>3. Flying' = Flying
      BY <3>2 DEF Flying, OnWire, InQueue
    <3>4. ASSUME b.complete, b.count >= 2,
                 NEW e \in emitted, b.last.time < e.time, e.time < b.end
          PROVE  \E t \in Flying' : b.start <= t.time /\ t.time < b.end
      <4>1. PICK t \in Flying : t.time = e.time
        BY <3>1, <3>4 DEF PipeInv, Later
      <4>2. b.start <= b.first.time /\ b.first.time <= b.last.time /\ b.first \in emitted
        BY <3>1 DEF BucketPlaced, BucketInv
      <4>3. b.start \in Nat /\ e.time \in Nat /\ b.first.time \in Nat /\ b.last.time \in Nat
        <5>1. b.start \in Nat
          BY <3>1 DEF Buckets
        <5>2. \A u \in Snapshots : u.time \in Nat
          BY FeedAssumption DEF Snapshots
        <5>3. e \in Snapshots /\ b.first \in Snapshots /\ b.last \in Snapshots
          BY <3>1, <4>2 DEF FeedTypes
        <5>. QED BY <5>1, <5>2, <5>3
      <4>4. b.start <= e.time
        BY <3>1, <3>4, <4>2, <4>3
      <4>. QED BY <3>3, <3>4, <4>1, <4>4
    <3>5. ASSUME b.complete, b.count >= 2, \A e \in emitted : b.last.time < e.time => ~(e.time < b.end)
          PROVE  TrueIn(emitted', BarOf(b))
      BY <3>1, <3>2, <3>5, BucketIsTrue
    <3>. QED BY <2>1, <3>1, <3>4, <3>5
  <2>. QED BY <1>2, <2>1, AggSame DEF Live
<1>. QED BY <1>1, <1>2

LEMMA TrueStep ==
  ASSUME FeedTypes, ExchangeInv, LoopInv, LoopInv', GridInv, Live => PipeInv /\ TakenInv,
         counts = {} /\ ~paused => TrueBars, FeedStep, counts' = {}, ~paused'
  PROVE  TrueBars'
<1>1. CASE bars' = <<>>
  BY <1>1 DEF TrueBars
<1>2. CASE bars' # <<>>
  <2>1. Live'
    BY <1>2 DEF LoopInv, Untouched, Live
  <2>2. Live
    <3>1. ~Feed!Subscribe
      BY <1>2 DEF Feed!Subscribe, LoopInv, Untouched
    <3>. QED BY <2>1, <3>1, LiveBefore DEF Live
  <2>3. PipeInv /\ TakenInv /\ TrueBars
    BY <2>2 DEF Live
  <2>4. \A i \in DOMAIN bars :
            TrueIn(emitted', bars[i]) \/ \E t \in Flying' : bars[i].start <= t.time /\ t.time < bars[i].end
    BY <2>1, <2>2, <2>3, OldBars
  <2>5. \A i \in DOMAIN bars' :
            TrueIn(emitted', bars'[i]) \/ \E t \in Flying' : bars'[i].start <= t.time /\ t.time < bars'[i].end
    <3>1. CASE bars' = bars
      BY <2>4, <3>1
    <3>2. CASE /\ agg.bucket \in Buckets /\ BucketPlaced(agg.bucket, agg.closed)
               /\ \E out : Given(agg.bucket, out) /\ bars' = bars \o out
               /\ agg.bucket.complete /\ agg.bucket.count >= 2 =>
                      TrueIn(emitted', BarOf(agg.bucket))
                      \/ \E t \in Flying' : agg.bucket.start <= t.time /\ t.time < agg.bucket.end
      <4>1. PICK out : Given(agg.bucket, out) /\ bars' = bars \o out
        BY <3>2
      <4>. DEFINE b == agg.bucket
      <4>2. BarOf(b).start = b.start /\ BarOf(b).end = b.end
        BY DEF BarOf
      <4>3. bars \in Seq(Bars)
        BY DEF FeedTypes
      <4>4. CASE out = <<>>
        <5>1. bars' = bars
          BY <4>1, <4>3, <4>4
        <5>. QED BY <2>4, <5>1
      <4>5. CASE b.complete /\ b.count >= 2 /\ out = <<BarOf(b)>>
        <5>. DEFINE bar == BarOf(b)
        <5>1. bar \in Bars
          BY <3>2, BarType
        <5>. HIDE DEF bar
        <5>2. /\ Len(bars) \in Nat /\ DOMAIN bars = 1..Len(bars) /\ DOMAIN bars' = 1..(Len(bars) + 1)
              /\ \A i \in 1..Len(bars) : bars'[i] = bars[i]
              /\ bars'[Len(bars) + 1] = bar
          BY <4>1, <4>3, <4>5, <5>1 DEF bar
        <5>3. \A i \in 1..(Len(bars) + 1) : i \in 1..Len(bars) \/ i = Len(bars) + 1
          BY <5>2
        <5>4. TrueIn(emitted', bar) \/ \E t \in Flying' : bar.start <= t.time /\ t.time < bar.end
          BY <3>2, <4>2, <4>5 DEF bar
        <5>. QED BY <2>4, <5>2, <5>3, <5>4
      <4>. QED BY <4>1, <4>4, <4>5 DEF Given
    <3>. QED BY <2>1, <2>2, <2>3, <3>1, <3>2, NewBar
  <2>. QED BY <2>5, TrueIs, FlightIs DEF TrueBars
<1>. QED BY <1>1, <1>2

-------------------------------------------------------------------------------
LEMMA FeedStart ==
  ASSUME Feed!FeedInit
  PROVE  FeedInv
<1>. USE DEF Feed!FeedInit
<1>1. SmallTypes /\ PipeTypes
  <2>1. 0 \in 0..Horizon /\ 0 \in 0..MaxOdd /\ 0 <= QueueSize
    BY FeedAssumption
  <2>2. SmallTypes
    BY <2>1 DEF SmallTypes
  <2>3. emitted \subseteq Snapshots /\ IsFiniteSet(emitted)
    BY FS_EmptySet
  <2>4. <<>> \in Seq(Snapshots) /\ Len(<<>>) = 0
    OBVIOUS
  <2>5. PipeTypes
    BY <2>1, <2>3, <2>4 DEF PipeTypes
  <2>. QED BY <2>2, <2>5
<1>2. agg = Aggregator(None, None, None, -1, 0) /\ bars = <<>>
  BY DEF Aggregator
<1>3. AggTypes /\ GridInv
  <2>1. AggOK(Aggregator(None, None, None, -1, 0), <<>>, 0)
    <3>1. <<>> \in Seq(Bars) /\ BarsPlaced(<<>>, 0, 0)
      BY DEF BarsPlaced
    <3>2. -1 \in Int /\ 0 \in Nat
      OBVIOUS
    <3>. QED BY <3>1, <3>2, AggMade
  <2>2. clock = 0
    OBVIOUS
  <2>. QED BY <1>2, <2>1, <2>2, AggIs
<1>4. ExchangeInv /\ LoopInv
  BY <1>2 DEF ExchangeInv, LoopInv, InLoop, Untouched, Aggregator
<1>5. ~Live
  BY DEF Live
<1>6. TrueBars
  BY DEF TrueBars
<1>. QED BY <1>1, <1>3, <1>4, <1>5, <1>6, TypesSplit DEF FeedInv

\* The invariant of the market gateway, for any sessions, prices, bars, gaps, ages, queues and runs.
THEOREM FeedCorrect == GatewaysSpec => []FeedInv
<1>1. GatewaysInit => FeedInv
  BY FeedStart DEF GatewaysInit
<1>2. FeedInv /\ [GatewaysNext]_gatewaysVars => FeedInv'
  <2>. SUFFICES ASSUME FeedInv, [GatewaysNext]_gatewaysVars
                PROVE  FeedInv'
    OBVIOUS
  <2>1. FeedStep
    BY DEF GatewaysNext, Trading, Market, gatewaysVars, FeedStep
  <2>2. FeedTypes' /\ ExchangeInv' /\ LoopInv' /\ GridInv'
    <3>1. SmallTypes' /\ PipeTypes' /\ AggTypes' /\ GridInv'
      BY <2>1, SmallStep, PipeTypesStep, AggStep DEF FeedInv
    <3>2. FeedTypes'
      BY <3>1, TypesSplit, PTL
    <3>. QED BY <2>1, <3>1, <3>2, ExchangeStep, LoopStep DEF FeedInv
  <2>3. Live' => PipeInv' /\ TakenInv'
    BY <2>1, PipeStep, TakenStep DEF FeedInv
  <2>4. counts' = {} /\ ~paused' => TrueBars'
    BY <2>1, <2>2, TrueStep DEF FeedInv
  <2>. QED BY <2>2, <2>3, <2>4 DEF FeedInv
<1>. QED BY <1>1, <1>2, PTL DEF GatewaysSpec

\* Every bar that the strategy was given is what the exchange traded in its interval, or
\* one of its snapshots is still on its way, a loss has been counted, or the feed is
\* paused (live_bars.py, run_simnow_strategy.py).
THEOREM BarsAlwaysTrue == GatewaysSpec => []BarsAreTrue
<1>1. FeedInv => BarsAreTrue
  <2>. SUFFICES ASSUME FeedInv PROVE BarsAreTrue
    OBVIOUS
  <2>1. Feed!FeedTypeOK /\ \A i \in 1..(Len(bars) - 1) : bars[i].end <= bars[i + 1].start
    BY DEF FeedInv, FeedTypes, GridInv, BarsPlaced
  <2>2. \A i \in DOMAIN bars : Feed!TrueBar(bars[i]) \/ Feed!InFlight(bars[i]) \/ counts # {} \/ paused
    BY DEF FeedInv, TrueBars
  <2>. QED BY <2>1, <2>2 DEF BarsAreTrue, Feed!BarsAreTrue
<1>. QED BY <1>1, FeedCorrect, PTL
===============================================================================
