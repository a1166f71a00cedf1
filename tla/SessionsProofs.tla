--------------------------- MODULE SessionsProofs ---------------------------
(***************************************************************************)
(* Proofs about Sessions, for any sets of sessions and any bounds.  The    *)
(* synchronous functions are treated first, each as a map on the shared    *)
(* state; the actions then only have to name the functions they call.      *)
(***************************************************************************)
EXTENDS Sessions, WellFoundedInduction, TLAPS

(* The part of the invariant that speaks of the shared state alone. *)
CurOK(R) ==
  IF R.curConn = None
  THEN \A s \in Session : ~InMap(R, s)
  ELSE R.curConn \in Session /\ InMap(R, R.curConn)

PumpOK(R) == \A s \in Session : R.pump[s] => InMap(R, s)

EndOK(R) ==
  \A f \in Ft :
    /\ R.endedEvents[f] = (IF R.ended[f] THEN 1 ELSE 0)
    /\ R.ended[f] => R.closing[f]
    /\ R.closing[f] => ~InMap(R, f)

JsOK(R) == R \in JsState /\ CurOK(R) /\ PumpOK(R) /\ EndOK(R)

(* The oldest entry of a non-empty Map exists, so advanceCurConn finds a       *)
(* registered connection; of an empty Map it finds undefined.                  *)
LEMMA FirstSessionRegistered ==
  ASSUME NEW R \in JsState
  PROVE  IF \E s \in Session : InMap(R, s)
         THEN FirstSession(R) \in Session /\ InMap(R, FirstSession(R))
         ELSE FirstSession(R) = None
<1>1. CASE \E s \in Session : InMap(R, s)
  <2> DEFINE T == {R.sessions[s] : s \in {t \in Session : InMap(R, t)}}
             Less == OpToRel(<, Nat)
  <2>1. T \subseteq Nat /\ T # {}
    BY <1>1 DEF JsState
  <2>2. PICK n \in T : \A m \in T : ~(<<m, n>> \in Less)
    <3> HIDE DEF T, Less
    <3>1. IsWellFoundedOn(Less, Nat)
      BY NatLessThanWellFounded DEF Less
    <3> QED
      BY <3>1, <2>1, WFMin
  <2>3. \A m \in T : n <= m
    <3> SUFFICES ASSUME NEW m \in T PROVE n <= m
      OBVIOUS
    <3>1. m \in Nat /\ n \in Nat
      BY <2>1
    <3>2. m < n => <<m, n>> \in Less
      BY <3>1 DEF OpToRel
    <3> HIDE DEF T, Less
    <3> QED
      BY <2>2, <3>1, <3>2
  <2>4. PICK x \in Session : InMap(R, x) /\ R.sessions[x] = n
    BY <2>2
  <2>5. \A t \in Session : InMap(R, t) => R.sessions[x] <= R.sessions[t]
    BY <2>3, <2>4
  <2> QED
    BY <1>1, <2>4, <2>5 DEF FirstSession
<1>2. CASE ~ \E s \in Session : InMap(R, s)
  BY <1>2 DEF FirstSession
<1> QED
  BY <1>1, <1>2

(* close() of a connection that may still run: the registry, curConn and the   *)
(* other connections are untouched, and the pump of s stops.                   *)
LEMMA CloseConnFacts ==
  ASSUME NEW R \in JsState, NEW s \in Session, s \in Ft => ~R.closing[s]
  PROVE  /\ CloseConn(R, s) \in JsState
         /\ CloseConn(R, s).sessions = R.sessions
         /\ CloseConn(R, s).adds = R.adds
         /\ CloseConn(R, s).curConn = R.curConn
         /\ CloseConn(R, s).ws = R.ws
         /\ CloseConn(R, s).ended = R.ended
         /\ CloseConn(R, s).endedEvents = R.endedEvents
         /\ CloseConn(R, s).raised = R.raised
         /\ CloseConn(R, s).reported = R.reported
         /\ CloseConn(R, s).pump = [R.pump EXCEPT ![s] = FALSE]
         /\ \A t \in Session \ {s} : CloseConn(R, s).status[t] = R.status[t]
         /\ \A f \in Ft \ {s} : CloseConn(R, s).closing[f] = R.closing[f]
         /\ s \in Ft => CloseConn(R, s).closing[s]
<1> DEFINE Q == IF s \in Rd THEN R ELSE [R EXCEPT !.closing[s] = TRUE]
           P == [Q EXCEPT !.pump[s] = FALSE]
<1>1. CloseConn(R, s) = WsClose(P, s)
  BY DEF CloseConn, BaseClose, Session
<1>2. /\ P \in JsState
      /\ P.sessions = R.sessions /\ P.adds = R.adds /\ P.curConn = R.curConn
      /\ P.ws = R.ws /\ P.status = R.status
      /\ P.ended = R.ended /\ P.endedEvents = R.endedEvents
      /\ P.raised = R.raised /\ P.reported = R.reported
      /\ P.pump = [R.pump EXCEPT ![s] = FALSE]
      /\ \A f \in Ft \ {s} : P.closing[f] = R.closing[f]
      /\ s \in Ft => P.closing[s]
  BY SessionsAssumption DEF JsState, Session
<1> HIDE DEF P
<1>3. CASE P.ws[s] = 0
  BY <1>1, <1>2, <1>3 DEF WsClose
<1>4. CASE P.ws[s] # 0
  <2>1. P.ws[s] \in Attempt
    BY <1>2, <1>4, SessionsAssumption DEF JsState, Attempt
  <2>2. WsClose(P, s) = [P EXCEPT !.status[s][P.ws[s]] = "closed"]
    BY <1>4 DEF WsClose
  <2> DEFINE St == [P.status EXCEPT ![s][P.ws[s]] = "closed"]
             N == [P EXCEPT !.status = St]
  <2>3. /\ St \in [Session -> [Attempt -> Status]]
        /\ \A t \in Session \ {s} : St[t] = P.status[t]
    BY <1>2, <2>1 DEF JsState, Status
  <2>4. WsClose(P, s) = N
    BY <2>2
  <2> HIDE DEF St
  <2>5. /\ N \in JsState
        /\ N.sessions = P.sessions /\ N.adds = P.adds /\ N.curConn = P.curConn
        /\ N.ws = P.ws /\ N.status = St /\ N.pump = P.pump /\ N.closing = P.closing
        /\ N.ended = P.ended /\ N.endedEvents = P.endedEvents
        /\ N.raised = P.raised /\ N.reported = P.reported
    BY <1>2, <2>3 DEF JsState
  <2> HIDE DEF N
  <2> QED
    BY <1>1, <1>2, <2>3, <2>4, <2>5
<1> QED
  BY <1>3, <1>4

(* The rest of a removal, once s was closed: delete the key, advance curConn.  *)
DropSession(R, s) == AdvanceCurConn(DeleteSession(R, s), s)

(* DropSession takes s out of the Map and moves curConn only off s. *)
LEMMA DropSessionFacts ==
  ASSUME NEW R \in JsState, NEW s \in Session, CurOK(R)
  PROVE  /\ DropSession(R, s) \in JsState
         /\ DropSession(R, s).sessions = [R.sessions EXCEPT ![s] = 0]
         /\ CurOK(DropSession(R, s))
         /\ R.curConn # s => DropSession(R, s).curConn = R.curConn
         /\ DropSession(R, s).ws = R.ws
         /\ DropSession(R, s).status = R.status
         /\ DropSession(R, s).pump = R.pump
         /\ DropSession(R, s).closing = R.closing
         /\ DropSession(R, s).ended = R.ended
         /\ DropSession(R, s).endedEvents = R.endedEvents
         /\ DropSession(R, s).raised = R.raised
         /\ DropSession(R, s).reported = R.reported
<1> DEFINE S0 == [R.sessions EXCEPT ![s] = 0]
           D == [R EXCEPT !.sessions = S0]
<1>1. DeleteSession(R, s) = D
  BY DEF DeleteSession
<1>2. S0 \in [Session -> Nat]
  BY DEF JsState
<1>3. S0[s] = 0 /\ \A t \in Session \ {s} : S0[t] = R.sessions[t]
  BY DEF JsState
<1> HIDE DEF S0
<1>4. /\ D \in JsState
      /\ D.sessions = S0 /\ D.curConn = R.curConn /\ D.ws = R.ws
      /\ D.status = R.status /\ D.pump = R.pump /\ D.closing = R.closing
      /\ D.ended = R.ended /\ D.endedEvents = R.endedEvents
      /\ D.raised = R.raised /\ D.reported = R.reported
  BY <1>2 DEF JsState
<1>5. \A t \in Session : InMap(D, t) <=> t # s /\ InMap(R, t)
  BY <1>3, <1>4 DEF InMap
<1> HIDE DEF D
<1>6. CASE R.curConn # s
  <2>1. DropSession(R, s) = D
    BY <1>1, <1>4, <1>6 DEF DropSession, AdvanceCurConn
  <2>2. CurOK(D)
    BY <1>4, <1>5, <1>6 DEF CurOK
  <2> QED
    BY <1>4, <2>1, <2>2 DEF S0
<1>7. CASE R.curConn = s
  <2> DEFINE F == FirstSession(D)
             N == [D EXCEPT !.curConn = F]
  <2>1. DropSession(R, s) = N
    BY <1>1, <1>4, <1>7 DEF DropSession, AdvanceCurConn
  <2>2. IF \E t \in Session : InMap(D, t)
        THEN F \in Session /\ InMap(D, F) ELSE F = None
    BY <1>4, FirstSessionRegistered
  <2> HIDE DEF F
  <2>3. /\ N \in JsState
        /\ N.sessions = D.sessions /\ N.curConn = F /\ N.ws = D.ws
        /\ N.status = D.status /\ N.pump = D.pump /\ N.closing = D.closing
        /\ N.ended = D.ended /\ N.endedEvents = D.endedEvents
        /\ N.raised = D.raised /\ N.reported = D.reported
    BY <1>4, <2>2 DEF JsState
  <2> HIDE DEF N
  <2>4. CurOK(N)
    BY <2>2, <2>3, SessionsAssumption DEF CurOK, InMap, Session
  <2> QED
    BY <1>4, <1>7, <2>1, <2>3, <2>4 DEF S0
<1> QED
  BY <1>6, <1>7

(* What a step that takes s out of the Map leaves alone. *)
Leaves(R, P, s) ==
  /\ ~InMap(P, s)
  /\ P.ws = R.ws
  /\ R.curConn # s => P.curConn = R.curConn
  /\ \A t \in Session \ {s} :
       /\ P.sessions[t] = R.sessions[t]
       /\ P.status[t] = R.status[t]
       /\ P.pump[t] = R.pump[t]

(* The deletion of a closed connection restores the invariant of the shared    *)
(* state, whether the connection was closed as it was (E = R) or first marked  *)
(* as ended.                                                                   *)
LEMMA CloseAndDrop ==
  ASSUME NEW R \in JsState, NEW s \in Session, CurOK(R), PumpOK(R),
         s \in Ft => ~R.closing[s]
  PROVE  LET P == DropSession(CloseConn(R, s), s) IN
         /\ P \in JsState /\ CurOK(P) /\ PumpOK(P) /\ Leaves(R, P, s)
         /\ P.ended = R.ended /\ P.endedEvents = R.endedEvents
         /\ P.raised = R.raised /\ P.reported = R.reported
         /\ s \in Ft => P.closing[s]
         /\ \A f \in Ft \ {s} : P.closing[f] = R.closing[f]
<1> DEFINE C == CloseConn(R, s)
           P == DropSession(C, s)
<1>1. /\ C \in JsState
      /\ C.sessions = R.sessions /\ C.curConn = R.curConn /\ C.ws = R.ws
      /\ C.ended = R.ended /\ C.endedEvents = R.endedEvents
      /\ C.raised = R.raised /\ C.reported = R.reported
      /\ C.pump = [R.pump EXCEPT ![s] = FALSE]
      /\ \A t \in Session \ {s} : C.status[t] = R.status[t]
      /\ \A f \in Ft \ {s} : C.closing[f] = R.closing[f]
      /\ s \in Ft => C.closing[s]
  BY CloseConnFacts
<1> HIDE DEF C
<1>2. CurOK(C)
  BY <1>1 DEF CurOK, InMap
<1>3. /\ P \in JsState /\ CurOK(P)
      /\ P.sessions = [C.sessions EXCEPT ![s] = 0]
      /\ C.curConn # s => P.curConn = C.curConn
      /\ P.ws = C.ws /\ P.status = C.status /\ P.pump = C.pump
      /\ P.closing = C.closing /\ P.ended = C.ended
      /\ P.endedEvents = C.endedEvents
      /\ P.raised = C.raised /\ P.reported = C.reported
  BY <1>1, <1>2, DropSessionFacts
<1> HIDE DEF P
<1>4. R.sessions \in [Session -> Nat] /\ R.pump \in [Session -> BOOLEAN]
  BY DEF JsState
<1>5. /\ P.sessions[s] = 0 /\ ~P.pump[s]
      /\ \A t \in Session \ {s} :
           P.sessions[t] = R.sessions[t] /\ P.pump[t] = R.pump[t]
  BY <1>1, <1>3, <1>4
<1>6. PumpOK(P)
  BY <1>5 DEF PumpOK, InMap
<1>7. Leaves(R, P, s)
  BY <1>1, <1>3, <1>5 DEF Leaves, InMap
<1> QED
  BY <1>1, <1>3, <1>6, <1>7 DEF P, C

(* What a synchronous function does to the registry: nothing, or one removal. *)
RegistryStep(R, P) ==
  /\ P.ws = R.ws
  /\ \A f \in Ft : P.closing[f] => R.closing[f] \/ InMap(R, f)
  /\ \/ P.sessions = R.sessions /\ P.curConn = R.curConn
     \/ \E s \in Session : InMap(R, s) /\ Leaves(R, P, s)

(* The same, of the Map and curConn alone. *)
MapStep(R, P) ==
  \/ P.sessions = R.sessions /\ P.curConn = R.curConn
  \/ \E s \in Session :
       /\ InMap(R, s) /\ ~InMap(P, s)
       /\ \A t \in Session \ {s} : P.sessions[t] = R.sessions[t]
       /\ R.curConn # s => P.curConn = R.curConn

(* removeSession of any id, registered or not. *)
LEMMA RemoveSessionFacts ==
  ASSUME NEW R, JsOK(R), NEW s \in Session
  PROVE  LET P == RemoveSession(R, s) IN
         /\ JsOK(P) /\ RegistryStep(R, P) /\ ~InMap(P, s)
         /\ InMap(R, s) => Leaves(R, P, s)
         /\ ~InMap(R, s) => P.sessions = R.sessions /\ P.status = R.status /\ P.pump = R.pump
         /\ P.raised = R.raised /\ P.reported = R.reported
<1> DEFINE P == RemoveSession(R, s)
<1>0. R \in JsState /\ CurOK(R) /\ PumpOK(R) /\ EndOK(R)
  BY DEF JsOK
<1>1. CASE InMap(R, s)
  <2>1. P = DropSession(CloseConn(R, s), s)
    BY <1>1 DEF RemoveSession, DropSession
  <2>2. s \in Ft => ~R.closing[s]
    BY <1>0, <1>1 DEF EndOK
  <2> HIDE DEF P
  <2>3. /\ P \in JsState /\ CurOK(P) /\ PumpOK(P) /\ Leaves(R, P, s)
        /\ P.ended = R.ended /\ P.endedEvents = R.endedEvents
        /\ P.raised = R.raised /\ P.reported = R.reported
        /\ s \in Ft => P.closing[s]
        /\ \A f \in Ft \ {s} : P.closing[f] = R.closing[f]
    BY <1>0, <2>1, <2>2, CloseAndDrop
  <2>4. EndOK(P)
    BY <1>0, <2>3 DEF EndOK, Leaves, InMap, Session
  <2>5. RegistryStep(R, P) /\ ~InMap(P, s)
    BY <1>1, <2>3 DEF RegistryStep, Leaves
  <2> QED
    BY <1>1, <2>3, <2>4, <2>5 DEF JsOK, P
<1>2. CASE ~InMap(R, s)
  <2>1. CASE R.curConn # None
    <3>1. P = R
      BY <1>2, <2>1 DEF RemoveSession, AdvanceCurConn
    <3> QED
      BY <1>0, <1>2, <3>1 DEF RegistryStep, JsOK
  <2>2. CASE R.curConn = None
    <3>1. FirstSession(R) = None
      BY <1>0, <2>2, FirstSessionRegistered DEF CurOK
    <3>2. P = [R EXCEPT !.curConn = None]
      BY <1>2, <2>2, <3>1 DEF RemoveSession, AdvanceCurConn
    <3>3. P = R
      BY <1>0, <2>2, <3>2 DEF JsState
    <3> QED
      BY <1>0, <1>2, <3>3 DEF RegistryStep, JsOK
  <2> QED
    BY <2>1, <2>2
<1> QED
  BY <1>1, <1>2

(* endFileTransferSession of any file-transfer id: afterwards it is gone. *)
LEMMA EndFileTransferSessionFacts ==
  ASSUME NEW R, JsOK(R), NEW f \in Ft
  PROVE  LET P == EndFileTransferSession(R, f) IN
         /\ JsOK(P) /\ RegistryStep(R, P) /\ ~InMap(P, f)
         /\ \A t \in Session \ {f} :
              P.sessions[t] = R.sessions[t] /\ P.status[t] = R.status[t] /\ P.pump[t] = R.pump[t]
         /\ P.raised = R.raised /\ P.reported = R.reported
<1> DEFINE P == EndFileTransferSession(R, f)
<1>0. R \in JsState /\ CurOK(R) /\ PumpOK(R) /\ EndOK(R) /\ f \in Session
  BY DEF JsOK, Session
<1>1. CASE ~InMap(R, f) \/ R.ended[f]
  <2>1. P = R /\ ~InMap(R, f)
    BY <1>0, <1>1 DEF EndFileTransferSession, EndOK
  <2> QED
    BY <1>0, <2>1 DEF RegistryStep, JsOK
<1>2. CASE InMap(R, f) /\ ~R.ended[f]
  <2> DEFINE En == [R.ended EXCEPT ![f] = TRUE]
             E == [R EXCEPT !.ended = En]
             D == DropSession(CloseConn(E, f), f)
             Ev == [D.endedEvents EXCEPT ![f] = @ + 1]
             N == [D EXCEPT !.endedEvents = Ev]
  <2>1. P = N
    BY <1>2 DEF EndFileTransferSession, PushFtSessionEnded, DropSession
  <2>2. En \in [Ft -> BOOLEAN] /\ En[f] /\ \A g \in Ft \ {f} : En[g] = R.ended[g]
    BY <1>0 DEF JsState
  <2> HIDE DEF En
  <2>3. /\ E \in JsState
        /\ E.sessions = R.sessions /\ E.curConn = R.curConn /\ E.ws = R.ws
        /\ E.status = R.status /\ E.pump = R.pump /\ E.closing = R.closing
        /\ E.ended = En /\ E.endedEvents = R.endedEvents
        /\ E.raised = R.raised /\ E.reported = R.reported
    BY <1>0, <2>2 DEF JsState
  <2> HIDE DEF E
  <2>4. CurOK(E) /\ PumpOK(E) /\ ~E.closing[f]
    BY <1>0, <1>2, <2>3 DEF CurOK, PumpOK, EndOK, InMap
  <2>5. /\ D \in JsState /\ CurOK(D) /\ PumpOK(D) /\ Leaves(E, D, f)
        /\ D.ended = En /\ D.endedEvents = R.endedEvents
        /\ D.raised = R.raised /\ D.reported = R.reported
        /\ D.closing[f]
        /\ \A g \in Ft \ {f} : D.closing[g] = R.closing[g]
    BY <1>0, <2>3, <2>4, CloseAndDrop
  <2> HIDE DEF D
  <2>6. /\ Ev \in [Ft -> Nat]
        /\ Ev[f] = R.endedEvents[f] + 1
        /\ \A g \in Ft \ {f} : Ev[g] = R.endedEvents[g]
    BY <1>0, <2>5 DEF JsState
  <2> HIDE DEF Ev
  <2>7. /\ N \in JsState
        /\ N.sessions = D.sessions /\ N.curConn = D.curConn /\ N.ws = D.ws
        /\ N.status = D.status /\ N.pump = D.pump /\ N.closing = D.closing
        /\ N.ended = D.ended /\ N.endedEvents = Ev
        /\ N.raised = D.raised /\ N.reported = D.reported
    BY <2>5, <2>6 DEF JsState
  <2> HIDE DEF N
  <2>8. Leaves(R, N, f)
    BY <2>3, <2>5, <2>7 DEF Leaves, InMap
  <2>9. EndOK(N)
    <3> SUFFICES ASSUME NEW g \in Ft
                 PROVE  /\ N.endedEvents[g] = (IF N.ended[g] THEN 1 ELSE 0)
                        /\ N.ended[g] => N.closing[g]
                        /\ N.closing[g] => ~InMap(N, g)
      BY DEF EndOK
    <3>1. CASE g = f
      <4>1. R.endedEvents[f] = 0
        BY <1>0, <1>2 DEF EndOK
      <4> QED
        BY <2>2, <2>5, <2>6, <2>7, <2>8, <3>1, <4>1 DEF Leaves
    <3>2. CASE g # f
      BY <1>0, <2>2, <2>5, <2>6, <2>7, <2>8, <3>2 DEF Leaves, EndOK, InMap, Session
    <3> QED
      BY <3>1, <3>2
  <2>10. CurOK(N) /\ PumpOK(N)
    BY <2>5, <2>7 DEF CurOK, PumpOK, InMap
  <2>11. RegistryStep(R, N)
    BY <1>0, <1>2, <2>5, <2>7, <2>8 DEF RegistryStep, Leaves
  <2> QED
    BY <2>1, <2>5, <2>7, <2>8, <2>9, <2>10, <2>11 DEF JsOK, Leaves
<1> QED
  BY <1>1, <1>2

(* A fatal error removes at most the current connection. *)
LEMMA ShowFatalErrorFacts ==
  ASSUME NEW R, JsOK(R), NEW r \in Rd
  PROVE  JsOK(ShowFatalError(R, r)) /\ RegistryStep(R, ShowFatalError(R, r))
<1> DEFINE Swallow == R.curConn \in Ft /\ HasOpenRemoteDesktopSession(R)
           Q == IF Swallow THEN EndFileTransferSession(R, R.curConn) ELSE CloseCurrent(R)
           Ra == Q.raised \cup {r}
           Re == IF Swallow THEN Q.reported ELSE Q.reported \cup {r}
           N == [Q EXCEPT !.raised = Ra, !.reported = Re]
<1>1. JsOK(Q) /\ RegistryStep(R, Q)
  <2>1. CASE Swallow
    BY <2>1, EndFileTransferSessionFacts
  <2>2. CASE ~Swallow /\ R.curConn = None
    BY <2>2 DEF CloseCurrent, RegistryStep
  <2>3. CASE ~Swallow /\ R.curConn # None
    <3>1. R.curConn \in Session
      BY <2>3 DEF JsOK, JsState
    <3> QED
      BY <2>3, <3>1, RemoveSessionFacts DEF CloseCurrent
  <2> QED
    BY <2>1, <2>2, <2>3
<1>2. Q \in JsState
  BY <1>1 DEF JsOK
<1>3. ShowFatalError(R, r) = N
  <2>1. CASE Swallow
    <3>1. ShowFatalError(R, r) = [Q EXCEPT !.raised = Ra]
      BY <2>1 DEF ShowFatalError
    <3> HIDE DEF Q
    <3>2. [Q EXCEPT !.raised = Ra] = [Q EXCEPT !.raised = Ra, !.reported = Q.reported]
      BY <1>2 DEF JsState
    <3> QED
      BY <2>1, <3>1, <3>2
  <2>2. CASE ~Swallow
    BY <2>2 DEF ShowFatalError
  <2> QED
    BY <2>1, <2>2
<1>4. Ra \in SUBSET Rd /\ Re \in SUBSET Rd
  BY <1>2 DEF JsState
<1> HIDE DEF Q, Ra, Re
<1>5. /\ N \in JsState
      /\ N.sessions = Q.sessions /\ N.curConn = Q.curConn /\ N.ws = Q.ws
      /\ N.status = Q.status /\ N.pump = Q.pump /\ N.closing = Q.closing
      /\ N.ended = Q.ended /\ N.endedEvents = Q.endedEvents
  BY <1>2, <1>4 DEF JsState
<1> HIDE DEF N
<1>6. JsOK(N)
  BY <1>1, <1>5 DEF JsOK, CurOK, PumpOK, EndOK, InMap
<1>7. RegistryStep(R, N)
  BY <1>1, <1>5 DEF RegistryStep, Leaves, InMap
<1> QED
  BY <1>3, <1>6, <1>7

(* The end of start() or of the message loop by an exception: a file-transfer  *)
(* session is out of the Map afterwards, and nothing else is touched.          *)
LEMMA FailedFacts ==
  ASSUME NEW R, JsOK(R), NEW s \in Session
  PROVE  /\ JsOK(Failed(R, s)) /\ RegistryStep(R, Failed(R, s))
         /\ s \in Ft => ~InMap(Failed(R, s), s)
<1>1. CASE s \in Rd
  <2>1. s \notin Ft
    BY <1>1, SessionsAssumption
  <2> QED
    BY <1>1, <2>1, ShowFatalErrorFacts DEF Failed
<1>2. CASE s \in Ft
  <2>1. s \notin Rd
    BY <1>2, SessionsAssumption
  <2>2. CASE R.closing[s] \/ R.ended[s]
    <3>1. Failed(R, s) = R
      BY <2>1, <2>2 DEF Failed, EndUnlessClosed
    <3>2. ~InMap(R, s)
      BY <1>2, <2>2 DEF JsOK, EndOK
    <3> QED
      BY <3>1, <3>2 DEF RegistryStep
  <2>3. CASE ~(R.closing[s] \/ R.ended[s])
    BY <1>2, <2>1, <2>3, EndFileTransferSessionFacts DEF Failed, EndUnlessClosed
  <2> QED
    BY <2>2, <2>3
<1> QED
  BY <1>1, <1>2 DEF Session

(* A change of one socket's _status alone. *)
LEMMA SetStatusFacts ==
  ASSUME NEW R, JsOK(R), NEW s \in Session, NEW k \in Attempt, NEW v \in Status
  PROVE  /\ JsOK(SetStatus(R, s, k, v))
         /\ SetStatus(R, s, k, v).sessions = R.sessions
         /\ SetStatus(R, s, k, v).curConn = R.curConn
         /\ SetStatus(R, s, k, v).ws = R.ws
         /\ SetStatus(R, s, k, v).closing = R.closing
         /\ SetStatus(R, s, k, v).pump = R.pump
         /\ SetStatus(R, s, k, v).reported = R.reported
         /\ \A t \in Session \ {s} : SetStatus(R, s, k, v).status[t] = R.status[t]
<1> DEFINE St == [R.status EXCEPT ![s][k] = v]
           N == [R EXCEPT !.status = St]
<1>0. R \in JsState
  BY DEF JsOK
<1>1. SetStatus(R, s, k, v) = N
  BY DEF SetStatus
<1>2. /\ St \in [Session -> [Attempt -> Status]]
      /\ \A t \in Session \ {s} : St[t] = R.status[t]
  BY <1>0 DEF JsState
<1> HIDE DEF St
<1>3. /\ N \in JsState
      /\ N.sessions = R.sessions /\ N.curConn = R.curConn /\ N.ws = R.ws
      /\ N.status = St /\ N.reported = R.reported
      /\ N.pump = R.pump /\ N.closing = R.closing
      /\ N.ended = R.ended /\ N.endedEvents = R.endedEvents
  BY <1>0, <1>2 DEF JsState
<1> HIDE DEF N
<1>4. JsOK(N)
  BY <1>3 DEF JsOK, CurOK, PumpOK, EndOK, InMap
<1> QED
  BY <1>1, <1>2, <1>3, <1>4

(* A new _ws, nothing else. *)
LEMMA SetWsFacts ==
  ASSUME NEW R, JsOK(R), NEW s \in Session, NEW k \in Attempt
  PROVE  /\ JsOK(SetWs(R, s, k))
         /\ SetWs(R, s, k).sessions = R.sessions
         /\ SetWs(R, s, k).curConn = R.curConn
         /\ SetWs(R, s, k).ws = [R.ws EXCEPT ![s] = k]
         /\ SetWs(R, s, k).closing = R.closing
         /\ SetWs(R, s, k).pump = R.pump
         /\ SetWs(R, s, k).status = R.status
         /\ SetWs(R, s, k).reported = R.reported
<1> DEFINE W == [R.ws EXCEPT ![s] = k]
           M == [R EXCEPT !.ws = W]
<1>0. R \in JsState
  BY DEF JsOK
<1>1. SetWs(R, s, k) = M
  BY DEF SetWs
<1>2. W \in [Session -> 0..MaxStarts]
  <2>1. k \in 0..MaxStarts
    BY SessionsAssumption DEF Attempt
  <2> QED
    BY <1>0, <2>1 DEF JsState
<1> HIDE DEF W
<1>3. /\ M \in JsState
      /\ M.sessions = R.sessions /\ M.curConn = R.curConn /\ M.ws = W
      /\ M.status = R.status /\ M.reported = R.reported
      /\ M.pump = R.pump /\ M.closing = R.closing
      /\ M.ended = R.ended /\ M.endedEvents = R.endedEvents
  BY <1>0, <1>2 DEF JsState
<1> HIDE DEF M
<1>4. JsOK(M)
  BY <1>3 DEF JsOK, CurOK, PumpOK, EndOK, InMap
<1> QED
  BY <1>1, <1>3, <1>4 DEF W

-----------------------------------------------------------------------------
(* The inductive invariant: the shared state is consistent; a registered       *)
(* session was started, and one never started was never closed; a              *)
(* file-transfer connection is started once, and has no socket before its      *)
(* handshake is done.                                                          *)
StartedOK ==
  /\ \A s \in Session : InMap(js, s) => starts[s] > 0
  /\ \A f \in Ft : js.closing[f] => starts[f] > 0

FtOK ==
  \A f \in Ft :
    /\ starts[f] <= 1
    /\ starts[f] = 0 => phase[f][1] = "idle"
    /\ \A k \in Attempt : k # 1 => phase[f][k] = "idle"
    /\ InMap(js, f) => phase[f][1] \in Connecting \cup {"loop", "handler"}
    /\ phase[f][1] \in Connecting \cup {"idle"} => js.ws[f] = 0

Inv == TypeOK /\ JsOK(js) /\ StartedOK /\ FtOK

(* The page as loaded, with no session, satisfies the inductive invariant. *)
LEMMA InitInv == Init => Inv
<1> SUFFICES ASSUME Init PROVE Inv
  OBVIOUS
<1>1. 1 \in Attempt /\ 0 \in 0..MaxStarts
  BY SessionsAssumption DEF Attempt
<1>2. js \in JsState
  BY <1>1 DEF Init, JsState, Status
<1>3. TypeOK
  BY <1>1, <1>2 DEF Init, TypeOK, Phase
<1>4. JsOK(js)
  BY <1>2 DEF Init, JsOK, CurOK, PumpOK, EndOK, InMap
<1>5. StartedOK
  BY DEF Init, StartedOK, InMap
<1>6. FtOK
  BY <1>1 DEF Init, FtOK, InMap, Session
<1> QED
  BY <1>3, <1>4, <1>5, <1>6 DEF Inv

(* start() of a registered connection, R being the shared state it runs on. *)
LEMMA PrepareConnectFacts ==
  ASSUME NEW R, JsOK(R), NEW s \in Session, InMap(R, s)
  PROVE  /\ JsOK(PrepareConnect(R, s))
         /\ PrepareConnect(R, s).sessions = R.sessions
         /\ PrepareConnect(R, s).curConn = R.curConn
         /\ PrepareConnect(R, s).ws = R.ws
         /\ PrepareConnect(R, s).closing = R.closing
<1> DEFINE Pu == [R.pump EXCEPT ![s] = TRUE]
           N == [R EXCEPT !.pump = Pu]
<1>0. R \in JsState
  BY DEF JsOK
<1>1. PrepareConnect(R, s) = N
  BY DEF PrepareConnect
<1>2. Pu \in [Session -> BOOLEAN] /\ \A t \in Session \ {s} : Pu[t] = R.pump[t]
  BY <1>0 DEF JsState
<1> HIDE DEF Pu
<1>3. /\ N \in JsState
      /\ N.sessions = R.sessions /\ N.curConn = R.curConn /\ N.ws = R.ws
      /\ N.pump = Pu /\ N.closing = R.closing
      /\ N.ended = R.ended /\ N.endedEvents = R.endedEvents
  BY <1>0, <1>2 DEF JsState
<1> HIDE DEF N
<1>4. JsOK(N)
  BY <1>2, <1>3 DEF JsOK, CurOK, PumpOK, EndOK, InMap
<1> QED
  BY <1>1, <1>3, <1>4

(* addSession registers the id and makes it current; an ended file transfer is *)
(* never registered again, so the shared state stays consistent.               *)
LEMMA AddSessionFacts ==
  ASSUME NEW R, JsOK(R), NEW s \in Session, s \in Ft => ~R.closing[s]
  PROVE  /\ JsOK(AddSession(R, s))
         /\ AddSession(R, s).sessions = [R.sessions EXCEPT ![s] = R.adds + 1]
         /\ InMap(AddSession(R, s), s)
         /\ AddSession(R, s).curConn = s
         /\ AddSession(R, s).ws = R.ws
         /\ AddSession(R, s).closing = R.closing
<1> DEFINE Se == [R.sessions EXCEPT ![s] = R.adds + 1]
           A == R.adds + 1
           N == [R EXCEPT !.sessions = Se, !.adds = A, !.curConn = s]
<1>0. R \in JsState
  BY DEF JsOK
<1>1. AddSession(R, s) = N
  BY DEF AddSession
<1>2. /\ A \in Nat /\ Se \in [Session -> Nat] /\ Se[s] > 0
      /\ \A t \in Session \ {s} : Se[t] = R.sessions[t]
  BY <1>0 DEF JsState
<1> HIDE DEF Se, A
<1>3. /\ N \in JsState
      /\ N.sessions = Se /\ N.curConn = s /\ N.ws = R.ws
      /\ N.pump = R.pump /\ N.closing = R.closing
      /\ N.ended = R.ended /\ N.endedEvents = R.endedEvents
  BY <1>0, <1>2 DEF JsState
<1> HIDE DEF N
<1>4. CurOK(N)
  BY <1>2, <1>3, SessionsAssumption DEF CurOK, InMap, Session
<1>5. PumpOK(N)
  BY <1>2, <1>3 DEF JsOK, PumpOK, InMap
<1>6. EndOK(N)
  BY <1>2, <1>3 DEF JsOK, EndOK, InMap, Session
<1> QED
  BY <1>1, <1>2, <1>3, <1>4, <1>5, <1>6 DEF JsOK, InMap, Se

(* close() of a remote-desktop connection, registered or not. *)
LEMMA CloseRdFacts ==
  ASSUME NEW R, JsOK(R), NEW r \in Rd
  PROVE  /\ JsOK(CloseConn(R, r))
         /\ CloseConn(R, r).sessions = R.sessions
         /\ CloseConn(R, r).curConn = R.curConn
         /\ CloseConn(R, r).ws = R.ws
         /\ \A f \in Ft : CloseConn(R, r).closing[f] = R.closing[f]
<1>1. R \in JsState /\ r \in Session /\ r \notin Ft
  BY SessionsAssumption DEF JsOK, Session
<1> DEFINE C == CloseConn(R, r)
<1>2. /\ C \in JsState
      /\ C.sessions = R.sessions /\ C.curConn = R.curConn /\ C.ws = R.ws
      /\ C.ended = R.ended /\ C.endedEvents = R.endedEvents
      /\ C.pump = [R.pump EXCEPT ![r] = FALSE]
      /\ \A f \in Ft : C.closing[f] = R.closing[f]
  BY <1>1, CloseConnFacts
<1> HIDE DEF C
<1>3. \A s \in Session : C.pump[s] => R.pump[s]
  BY <1>1, <1>2 DEF JsState
<1>4. JsOK(C)
  BY <1>2, <1>3 DEF JsOK, CurOK, PumpOK, EndOK, InMap
<1> QED
  BY <1>2, <1>4 DEF C

-----------------------------------------------------------------------------
(* Every turn of a connection preserves the invariant if it leaves the shared  *)
(* state consistent, registers nothing, and ends a file transfer's start()     *)
(* only with the session out of the Map.                                       *)
LEMMA TurnInv ==
  ASSUME Inv, NEW s \in Session, NEW k \in Attempt, NEW p \in Phase,
         phase[s][k] # "idle", p # "idle",
         phase' = [phase EXCEPT ![s][k] = p],
         starts' = starts,
         reading' \in [Session -> [Attempt -> 0..MaxStarts]],
         buf' \in [Session -> [Attempt -> Seq(Msg)]],
         JsOK(js'),
         \A t \in Session : InMap(js', t) => InMap(js, t),
         \A t \in Session \ {s} : js'.ws[t] = js.ws[t],
         \A f \in Ft : js'.closing[f] => js.closing[f] \/ InMap(js, f),
         s \in Ft => (p = "done" => ~InMap(js', s)),
         s \in Ft => (p \in Connecting => js'.ws[s] = 0)
  PROVE  Inv'
<1>1. TypeOK'
  BY DEF Inv, TypeOK, JsOK
<1>2. StartedOK'
  <2>1. \A t \in Session : InMap(js, t) => starts[t] > 0
    BY DEF Inv, StartedOK
  <2>2. \A f \in Ft : (js.closing[f] => starts[f] > 0) /\ f \in Session
    BY DEF Inv, StartedOK, Session
  <2> QED
    BY <2>1, <2>2 DEF StartedOK
<1>3. FtOK'
  <2> SUFFICES ASSUME NEW f \in Ft
               PROVE  /\ starts'[f] <= 1
                      /\ starts'[f] = 0 => phase'[f][1] = "idle"
                      /\ \A j \in Attempt : j # 1 => phase'[f][j] = "idle"
                      /\ InMap(js', f) => phase'[f][1] \in Connecting \cup {"loop", "handler"}
                      /\ phase'[f][1] \in Connecting \cup {"idle"} => js'.ws[f] = 0
    BY DEF FtOK
  <2>0. f \in Session /\ 1 \in Attempt
    BY SessionsAssumption DEF Session, Attempt
  <2>1. /\ starts[f] <= 1
        /\ starts[f] = 0 => phase[f][1] = "idle"
        /\ \A j \in Attempt : j # 1 => phase[f][j] = "idle"
        /\ InMap(js, f) => phase[f][1] \in Connecting \cup {"loop", "handler"}
        /\ phase[f][1] \in Connecting \cup {"idle"} => js.ws[f] = 0
    BY DEF Inv, FtOK
  <2>2. phase \in [Session -> [Attempt -> Phase]]
    BY DEF Inv, TypeOK
  <2>3. CASE f # s
    <3>1. phase'[f] = phase[f] /\ js'.ws[f] = js.ws[f]
      BY <2>0, <2>2, <2>3
    <3> QED
      BY <2>0, <2>1, <3>1
  <2>4. CASE f = s
    <3>1. k = 1
      BY <2>1, <2>4
    <3>2. phase'[f][1] = p /\ \A j \in Attempt : j # 1 => phase'[f][j] = phase[f][j]
      BY <2>0, <2>2, <2>4, <3>1
    <3>3. p # "done" => p \in Connecting \cup {"loop", "handler"}
      BY DEF Phase
    <3> QED
      BY <2>0, <2>1, <2>4, <3>1, <3>2, <3>3
  <2> QED
    BY <2>3, <2>4
<1> QED
  BY <1>1, <1>2, <1>3 DEF Inv

(* What RegistryStep says in the terms of TurnInv. *)
LEMMA RegistryStepFacts ==
  ASSUME NEW R \in JsState, NEW P \in JsState, RegistryStep(R, P)
  PROVE  /\ \A t \in Session : InMap(P, t) => InMap(R, t)
         /\ P.ws = R.ws
         /\ \A f \in Ft : P.closing[f] => R.closing[f] \/ InMap(R, f)
         /\ MapStep(R, P)
  BY DEF RegistryStep, MapStep, Leaves, InMap

(* A bridge call that changes only the shared state. *)
LEMMA BridgeInv ==
  ASSUME Inv, JsOK(js'), RegistryStep(js, js'),
         UNCHANGED <<starts, phase, reading, buf>>
  PROVE  Inv' /\ MapStep(js, js')
<1>1. js \in JsState /\ js' \in JsState
  BY DEF Inv, JsOK
<1>2. /\ \A t \in Session : InMap(js', t) => InMap(js, t)
      /\ js'.ws = js.ws
      /\ \A f \in Ft : js'.closing[f] => js.closing[f] \/ InMap(js, f)
      /\ MapStep(js, js')
  BY <1>1, RegistryStepFacts
<1>3. TypeOK'
  BY <1>1 DEF Inv, TypeOK
<1>4. StartedOK'
  BY <1>2 DEF Inv, StartedOK, Session
<1>5. FtOK'
  BY <1>2 DEF Inv, FtOK, Session
<1> QED
  BY <1>2, <1>3, <1>4, <1>5 DEF Inv

(* start(), on a shared state R that differs from js by an added session or a  *)
(* closed socket.                                                              *)
LEMMA StartInv ==
  ASSUME Inv, NEW R, JsOK(R), NEW s \in Session, Start(R, s), InMap(R, s),
         s \in Ft => starts[s] = 0,
         R.ws = js.ws,
         \A t \in Session \ {s} : R.sessions[t] = js.sessions[t],
         \A f \in Ft : R.closing[f] = js.closing[f]
  PROVE  Inv'
<1> DEFINE k == starts[s] + 1
<1>1. /\ starts \in [Session -> 0..MaxStarts] /\ starts[s] < MaxStarts
      /\ starts' = [starts EXCEPT ![s] = @ + 1]
      /\ phase \in [Session -> [Attempt -> Phase]]
      /\ phase' = [phase EXCEPT ![s][k] = "id_open"]
      /\ js' = PrepareConnect(R, s)
      /\ reading' = reading /\ buf' = buf
  BY DEF Start, Inv, TypeOK
<1>2. k \in Attempt /\ k > 0 /\ 1 \in Attempt
  BY <1>1, SessionsAssumption DEF Attempt
<1>3. /\ JsOK(js') /\ js'.sessions = R.sessions /\ js'.ws = R.ws
      /\ js'.closing = R.closing
  BY <1>1, PrepareConnectFacts
<1>4. starts' \in [Session -> 0..MaxStarts] /\ phase' \in [Session -> [Attempt -> Phase]]
  BY <1>1, <1>2, SessionsAssumption DEF Phase, Connecting
<1>5. TypeOK'
  BY <1>1, <1>3, <1>4 DEF Inv, TypeOK, JsOK
<1>6. starts'[s] = k /\ \A t \in Session \ {s} : starts'[t] = starts[t]
  BY <1>1
<1> HIDE DEF k
<1>7. StartedOK'
  BY <1>2, <1>3, <1>6 DEF Inv, StartedOK, InMap, Session
<1>8. FtOK'
  <2> SUFFICES ASSUME NEW f \in Ft
               PROVE  /\ starts'[f] <= 1
                      /\ starts'[f] = 0 => phase'[f][1] = "idle"
                      /\ \A j \in Attempt : j # 1 => phase'[f][j] = "idle"
                      /\ InMap(js', f) => phase'[f][1] \in Connecting \cup {"loop", "handler"}
                      /\ phase'[f][1] \in Connecting \cup {"idle"} => js'.ws[f] = 0
    BY DEF FtOK
  <2>0. f \in Session
    BY DEF Session
  <2>1. /\ starts[f] <= 1
        /\ starts[f] = 0 => phase[f][1] = "idle"
        /\ \A j \in Attempt : j # 1 => phase[f][j] = "idle"
        /\ InMap(js, f) => phase[f][1] \in Connecting \cup {"loop", "handler"}
        /\ phase[f][1] \in Connecting \cup {"idle"} => js.ws[f] = 0
    BY DEF Inv, FtOK
  <2>2. CASE f # s
    <3>1. phase'[f] = phase[f] /\ starts'[f] = starts[f]
      BY <1>1, <1>6, <2>0, <2>2
    <3> QED
      BY <1>3, <2>0, <2>1, <2>2, <3>1 DEF InMap
  <2>3. CASE f = s
    <3>1. k = 1
      BY <2>3 DEF k
    <3>2. phase'[f][1] = "id_open" /\ \A j \in Attempt : j # 1 => phase'[f][j] = phase[f][j]
      BY <1>1, <1>2, <2>0, <2>3, <3>1
    <3> QED
      BY <1>3, <1>6, <2>1, <2>3, <3>1, <3>2 DEF Connecting
  <2> QED
    BY <2>2, <2>3
<1> QED
  BY <1>3, <1>5, <1>7, <1>8 DEF Inv

(* The turn in which a start() or its message loop comes to an end. *)
LEMMA EndTurnInv ==
  ASSUME Inv, NEW s \in Session, NEW k \in Attempt, phase[s][k] # "idle",
         GoTo(s, k, "done"), JsOK(js'), RegistryStep(js, js'),
         s \in Ft => ~InMap(js', s), starts' = starts, reading' = reading,
         buf' \in [Session -> [Attempt -> Seq(Msg)]]
  PROVE  Inv' /\ MapStep(js, js')
<1>1. js \in JsState /\ js' \in JsState
  BY DEF Inv, JsOK
<1>2. /\ \A t \in Session : InMap(js', t) => InMap(js, t)
      /\ js'.ws = js.ws
      /\ \A f \in Ft : js'.closing[f] => js.closing[f] \/ InMap(js, f)
      /\ MapStep(js, js')
  BY <1>1, RegistryStepFacts
<1>3. "done" \in Phase /\ "done" \notin Connecting
  BY DEF Phase, Connecting
<1>4. phase' = [phase EXCEPT ![s][k] = "done"]
  BY DEF GoTo
<1>5. reading' \in [Session -> [Attempt -> 0..MaxStarts]]
  BY DEF Inv, TypeOK
<1> QED
  BY <1>2, <1>3, <1>4, <1>5, TurnInv

(* A turn after which the loop is awaiting the next message or a handler, the  *)
(* registry having lost at most one session.                                   *)
LEMMA LoopTurnInv ==
  ASSUME Inv, NEW s \in Session, NEW k \in Attempt, phase[s][k] # "idle",
         NEW p \in {"loop", "handler"}, GoTo(s, k, p),
         JsOK(js'), RegistryStep(js, js'), starts' = starts,
         reading' = reading \/ reading' = [reading EXCEPT ![s][k] = js'.ws[s]],
         buf' \in [Session -> [Attempt -> Seq(Msg)]]
  PROVE  Inv' /\ MapStep(js, js')
<1>1. js \in JsState /\ js' \in JsState
  BY DEF Inv, JsOK
<1>2. /\ \A t \in Session : InMap(js', t) => InMap(js, t)
      /\ js'.ws = js.ws
      /\ \A f \in Ft : js'.closing[f] => js.closing[f] \/ InMap(js, f)
      /\ MapStep(js, js')
  BY <1>1, RegistryStepFacts
<1>3. p \in Phase /\ p # "idle" /\ p # "done" /\ p \notin Connecting
  BY DEF Phase, Connecting
<1>4. phase' = [phase EXCEPT ![s][k] = p]
  BY DEF GoTo
<1>5. reading' \in [Session -> [Attempt -> 0..MaxStarts]]
  <2>1. js'.ws[s] \in 0..MaxStarts
    BY <1>1 DEF JsState
  <2>2. reading \in [Session -> [Attempt -> 0..MaxStarts]]
    BY DEF Inv, TypeOK
  <2> DEFINE j == js'.ws[s]
  <2> HIDE DEF j
  <2>3. CASE reading' = [reading EXCEPT ![s][k] = j]
    <3>1. j \in 0..MaxStarts
      BY <2>1 DEF j
    <3> QED
      BY <2>2, <2>3, <3>1
  <2>4. CASE reading' = reading
    BY <2>2, <2>4
  <2> QED
    BY <2>3, <2>4 DEF j
<1> QED
  BY <1>2, <1>3, <1>4, <1>5, TurnInv

(* Taking a message out of a buffer leaves a sequence of messages. *)
LEMMA DequeueFacts ==
  ASSUME Inv, NEW s \in Session, NEW k \in Attempt, NEW M, Dequeue(s, k, M)
  PROVE  /\ buf' \in [Session -> [Attempt -> Seq(Msg)]]
         /\ starts' = starts /\ phase[s][k] # "idle"
<1> DEFINE j == reading[s][k]
<1>1. /\ phase[s][k] = "loop" /\ j # 0 /\ buf[s][j] # << >>
      /\ buf' = [buf EXCEPT ![s][j] = Tail(@)] /\ starts' = starts
  BY DEF Dequeue
<1>2. /\ reading \in [Session -> [Attempt -> 0..MaxStarts]]
      /\ buf \in [Session -> [Attempt -> Seq(Msg)]]
  BY DEF Inv, TypeOK
<1>3. j \in Attempt
  BY <1>1, <1>2, SessionsAssumption DEF Attempt
<1> HIDE DEF j
<1>4. buf[s][j] \in Seq(Msg)
  BY <1>2, <1>3
<1>5. Tail(buf[s][j]) \in Seq(Msg)
  BY <1>1, <1>4
<1> QED
  BY <1>1, <1>2, <1>3, <1>5

(* A relay socket changed its status, nothing else. *)
LEMMA SetStatusStep ==
  ASSUME Inv, NEW s \in Session, NEW k \in Attempt, NEW v \in Status,
         js' = SetStatus(js, s, k, v)
  PROVE  JsOK(js') /\ RegistryStep(js, js')
<1>1. JsOK(js)
  BY DEF Inv
<1> DEFINE N == SetStatus(js, s, k, v)
<1>2. /\ JsOK(N) /\ N.sessions = js.sessions /\ N.curConn = js.curConn
      /\ N.ws = js.ws /\ N.closing = js.closing
  BY <1>1, SetStatusFacts
<1>3. js' = N
  OBVIOUS
<1> HIDE DEF N
<1> QED
  BY <1>2, <1>3 DEF RegistryStep

-----------------------------------------------------------------------------
(* The turns of a connection, one step per action. *)
LEMMA ConnTurnInv ==
  ASSUME Inv, NEW s \in Session, NEW k \in Attempt, ConnTurn(s, k)
  PROVE  Inv' /\ MapStep(js, js')
<1>1. JsOK(js) /\ js \in JsState /\ RegistryStep(js, js)
  BY DEF Inv, JsOK, RegistryStep
<1>2. /\ reading \in [Session -> [Attempt -> 0..MaxStarts]]
      /\ buf \in [Session -> [Attempt -> Seq(Msg)]]
  BY DEF Inv, TypeOK
<1>3. s \in Rd \/ s \in Ft
  BY DEF Session
<1>4. s \in Ft => (phase[s][k] # "idle" => k = 1)
  BY DEF Inv, FtOK
<1>5. s \in Ft => (phase[s][1] \in Connecting \cup {"idle"} => js.ws[s] = 0)
  BY DEF Inv, FtOK
<1>6. /\ "loop" \in {"loop", "handler"} /\ "handler" \in {"loop", "handler"}
      /\ "connecting" \in Status /\ "open" \in Status
      /\ "id_wait" \in Connecting /\ "relay_open" \in Connecting
      /\ "handshake" \in Connecting /\ "idle" \notin Connecting
      /\ "loop" \in Phase /\ "loop" \notin Connecting
      /\ Connecting \subseteq Phase
  BY DEF Status, Connecting, Phase
<1>7. ASSUME NEW p \in Connecting, phase[s][k] \in Connecting, GoTo(s, k, p),
             JsOK(js'), RegistryStep(js, js'), UNCHANGED <<starts, reading, buf>>
      PROVE  Inv' /\ MapStep(js, js')
  <2>1. js' \in JsState
    BY <1>7 DEF JsOK
  <2>2. /\ \A t \in Session : InMap(js', t) => InMap(js, t)
        /\ js'.ws = js.ws
        /\ \A f \in Ft : js'.closing[f] => js.closing[f] \/ InMap(js, f)
        /\ MapStep(js, js')
    BY <1>1, <1>7, <2>1, RegistryStepFacts
  <2>3. s \in Ft => js'.ws[s] = 0
    BY <1>4, <1>5, <1>6, <1>7, <2>2
  <2>4. phase' = [phase EXCEPT ![s][k] = p]
    BY <1>7 DEF GoTo
  <2>5. p \in Phase /\ p # "idle" /\ p # "done" /\ phase[s][k] # "idle"
    BY <1>7 DEF Connecting, Phase
  <2> QED
    BY <1>2, <1>7, <2>2, <2>3, <2>4, <2>5, TurnInv
<1>8. ASSUME RendezvousOpened(s, k) PROVE Inv' /\ MapStep(js, js')
  <2>1. js' = js /\ phase[s][k] \in Connecting /\ GoTo(s, k, "id_wait")
        /\ UNCHANGED <<starts, reading, buf>>
    BY <1>8 DEF RendezvousOpened, Connecting
  <2>2. JsOK(js') /\ RegistryStep(js, js')
    BY <1>1, <2>1
  <2> QED
    BY <1>6, <1>7, <2>1, <2>2
<1>9. ASSUME ConnectRejected(s, k) PROVE Inv' /\ MapStep(js, js')
  <2>1. /\ js' = Failed(js, s) /\ phase[s][k] # "idle" /\ GoTo(s, k, "done")
        /\ UNCHANGED <<starts, reading, buf>>
    BY <1>6, <1>9 DEF ConnectRejected
  <2>2. JsOK(js') /\ RegistryStep(js, js') /\ (s \in Ft => ~InMap(js', s))
    BY <1>1, <2>1, FailedFacts
  <2> QED
    BY <1>2, <2>1, <2>2, EndTurnInv
<1>10. ASSUME NEW P, P = (IF s \in Rd THEN ShowFatalError(js, s)
                                      ELSE EndFileTransferSession(js, s))
       PROVE  JsOK(P) /\ RegistryStep(js, P) /\ (s \in Ft => ~InMap(P, s))
  <2>1. CASE s \in Rd
    <3>1. s \notin Ft
      BY <2>1, SessionsAssumption
    <3> QED
      BY <1>1, <1>10, <2>1, <3>1, ShowFatalErrorFacts
  <2>2. CASE s \notin Rd
    BY <1>1, <1>3, <1>10, <2>2, EndFileTransferSessionFacts
  <2> QED
    BY <2>1, <2>2
<1>11. ASSUME PunchHoleRefused(s, k) PROVE Inv' /\ MapStep(js, js')
  <2>1. /\ js' = (IF s \in Rd THEN ShowFatalError(js, s) ELSE EndFileTransferSession(js, s))
        /\ phase[s][k] # "idle" /\ GoTo(s, k, "done") /\ UNCHANGED <<starts, reading, buf>>
    BY <1>11 DEF PunchHoleRefused
  <2>2. JsOK(js') /\ RegistryStep(js, js') /\ (s \in Ft => ~InMap(js', s))
    BY <1>10, <2>1
  <2> QED
    BY <1>2, <2>1, <2>2, EndTurnInv
<1>12. ASSUME PunchHoleUnanswered(s, k) PROVE Inv' /\ MapStep(js, js')
  <2>1. /\ js' = (IF s \in Ft /\ js.ws[s] = 0 THEN EndUnlessClosed(js, s) ELSE js)
        /\ phase[s][k] = "id_wait" /\ GoTo(s, k, "done") /\ UNCHANGED <<starts, reading, buf>>
    BY <1>12 DEF PunchHoleUnanswered
  <2>2. phase[s][k] # "idle"
    BY <2>1
  <2>3. JsOK(js') /\ RegistryStep(js, js') /\ (s \in Ft => ~InMap(js', s))
    <3>1. CASE s \in Ft
      <4>1. js.ws[s] = 0 /\ s \notin Rd
        BY <1>4, <1>5, <1>6, <2>1, <2>2, <3>1, SessionsAssumption
      <4>2. js' = Failed(js, s)
        BY <2>1, <3>1, <4>1 DEF Failed
      <4> QED
        BY <1>1, <4>2, FailedFacts
    <3>2. CASE s \notin Ft
      BY <1>1, <2>1, <3>2
    <3> QED
      BY <3>1, <3>2
  <2> QED
    BY <1>2, <2>1, <2>2, <2>3, EndTurnInv
<1>13. ASSUME RelayOffered(s, k) PROVE Inv' /\ MapStep(js, js')
  <2>1. /\ js' = SetStatus(js, s, k, "connecting") /\ phase[s][k] \in Connecting
        /\ GoTo(s, k, "relay_open") /\ UNCHANGED <<starts, reading, buf>>
    BY <1>6, <1>13 DEF RelayOffered
  <2>2. JsOK(js') /\ RegistryStep(js, js')
    BY <1>6, <2>1, SetStatusStep
  <2> QED
    BY <1>6, <1>7, <2>1, <2>2
<1>14. ASSUME RelayOpened(s, k) PROVE Inv' /\ MapStep(js, js')
  <2>1. /\ js' = SetStatus(js, s, k, "open") /\ phase[s][k] \in Connecting
        /\ GoTo(s, k, "handshake") /\ UNCHANGED <<starts, reading, buf>>
    BY <1>6, <1>14 DEF RelayOpened
  <2>2. JsOK(js') /\ RegistryStep(js, js')
    BY <1>6, <2>1, SetStatusStep
  <2> QED
    BY <1>6, <1>7, <2>1, <2>2
<1>15. ASSUME HandshakeDone(s, k) PROVE Inv' /\ MapStep(js, js')
  <2>1. /\ js' = SetWs(js, s, k) /\ phase[s][k] # "idle"
        /\ phase' = [phase EXCEPT ![s][k] = "loop"]
        /\ reading' = [reading EXCEPT ![s][k] = k] /\ UNCHANGED <<starts, buf>>
    BY <1>15 DEF HandshakeDone, GoTo
  <2>2. /\ JsOK(js') /\ js'.sessions = js.sessions /\ js'.curConn = js.curConn
        /\ js'.ws = [js.ws EXCEPT ![s] = k] /\ js'.closing = js.closing
    <3> DEFINE N == SetWs(js, s, k)
    <3>1. /\ JsOK(N) /\ N.sessions = js.sessions /\ N.curConn = js.curConn
          /\ N.ws = [js.ws EXCEPT ![s] = k] /\ N.closing = js.closing
      BY <1>1, SetWsFacts
    <3>2. js' = N
      BY <2>1
    <3> HIDE DEF N
    <3> QED
      BY <3>1, <3>2
  <2>3. /\ \A t \in Session : InMap(js', t) => InMap(js, t)
        /\ \A t \in Session \ {s} : js'.ws[t] = js.ws[t]
        /\ \A f \in Ft : js'.closing[f] => js.closing[f] \/ InMap(js, f)
        /\ MapStep(js, js')
    BY <1>1, <2>2 DEF InMap, JsState, MapStep
  <2>4. reading' \in [Session -> [Attempt -> 0..MaxStarts]]
    <3>1. k \in 0..MaxStarts
      BY SessionsAssumption DEF Attempt
    <3> QED
      BY <1>2, <2>1, <3>1
  <2> QED
    BY <1>2, <1>6, <2>1, <2>2, <2>3, <2>4, TurnInv
<1>16. ASSUME LoopBenign(s, k) PROVE Inv' /\ MapStep(js, js')
  <2>1. PICK M : Dequeue(s, k, M)
    BY <1>16 DEF LoopBenign
  <2>2. /\ js' = js /\ GoTo(s, k, "loop")
        /\ reading' = [reading EXCEPT ![s][k] = js'.ws[s]]
    BY <1>16 DEF LoopBenign, AwaitNext
  <2>3. JsOK(js') /\ RegistryStep(js, js')
    BY <1>1, <2>2
  <2> QED
    BY <1>6, <2>1, <2>2, <2>3, DequeueFacts, LoopTurnInv
<1>17. ASSUME LoopFatal(s, k) PROVE Inv' /\ MapStep(js, js')
  <2>1. /\ js' = (IF s \in Rd THEN ShowFatalError(js, s) ELSE EndFileTransferSession(js, s))
        /\ GoTo(s, k, "loop")
        /\ reading' = [reading EXCEPT ![s][k] = js'.ws[s]]
        /\ Dequeue(s, k, {"fatal"})
    BY <1>17 DEF LoopFatal, AwaitNext
  <2>2. JsOK(js') /\ RegistryStep(js, js')
    BY <1>10, <2>1
  <2> QED
    BY <1>6, <2>1, <2>2, DequeueFacts, LoopTurnInv
<1>18. ASSUME LoopSlow(s, k) PROVE Inv' /\ MapStep(js, js')
  <2>1. /\ js' = js /\ GoTo(s, k, "handler") /\ reading' = reading
        /\ Dequeue(s, k, {"slow"})
    BY <1>18 DEF LoopSlow
  <2>2. JsOK(js') /\ RegistryStep(js, js')
    BY <1>1, <2>1
  <2> QED
    BY <1>6, <2>1, <2>2, DequeueFacts, LoopTurnInv
<1>19. ASSUME s \in Rd, LoopCloseReason(s, k) PROVE Inv' /\ MapStep(js, js')
  <2> DEFINE P == ShowFatalError(js, s)
             C == CloseConn(P, s)
  <2>1. /\ js' = C /\ GoTo(s, k, "done") /\ reading' = reading
        /\ Dequeue(s, k, {"close_reason"})
    BY <1>19 DEF LoopCloseReason
  <2>2. JsOK(P) /\ RegistryStep(js, P)
    BY <1>1, <1>19, ShowFatalErrorFacts
  <2> HIDE DEF P
  <2>3. /\ JsOK(C) /\ C.sessions = P.sessions /\ C.curConn = P.curConn
        /\ C.ws = P.ws /\ \A f \in Ft : C.closing[f] = P.closing[f]
    BY <1>19, <2>2, CloseRdFacts
  <2>4. js' \in JsState /\ P \in JsState /\ s \notin Ft
    BY <1>19, <2>1, <2>2, <2>3, SessionsAssumption DEF JsOK
  <2> HIDE DEF C
  <2>5. /\ \A t \in Session : InMap(P, t) => InMap(js, t)
        /\ P.ws = js.ws
        /\ \A f \in Ft : P.closing[f] => js.closing[f] \/ InMap(js, f)
        /\ MapStep(js, P)
    BY <1>1, <2>2, <2>4, RegistryStepFacts
  <2>6. /\ \A t \in Session : InMap(js', t) => InMap(js, t)
        /\ js'.ws = js.ws
        /\ \A f \in Ft : js'.closing[f] => js.closing[f] \/ InMap(js, f)
        /\ MapStep(js, js')
    BY <2>1, <2>3, <2>5 DEF InMap, MapStep
  <2>7. "done" \in Phase /\ phase' = [phase EXCEPT ![s][k] = "done"]
    BY <2>1 DEF GoTo, Phase
  <2>8. /\ buf' \in [Session -> [Attempt -> Seq(Msg)]]
        /\ starts' = starts /\ phase[s][k] # "idle"
    BY <2>1, DequeueFacts
  <2>9. JsOK(js')
    BY <2>1, <2>3
  <2> QED
    BY <1>2, <2>1, <2>4, <2>6, <2>7, <2>8, <2>9, TurnInv
<1>20. ASSUME HandlerDone(s, k) PROVE Inv' /\ MapStep(js, js')
  <2>1. /\ js' = js /\ GoTo(s, k, "loop") /\ UNCHANGED <<starts, buf>>
        /\ reading' = [reading EXCEPT ![s][k] = js'.ws[s]]
        /\ phase[s][k] # "idle"
    BY <1>20 DEF HandlerDone, AwaitNext
  <2>2. JsOK(js') /\ RegistryStep(js, js')
    BY <1>1, <2>1
  <2> QED
    BY <1>2, <1>6, <2>1, <2>2, LoopTurnInv
<1>21. ASSUME HandlerThrows(s, k) PROVE Inv' /\ MapStep(js, js')
  <2>1. /\ js' = Failed(js, s) /\ phase[s][k] # "idle" /\ GoTo(s, k, "done")
        /\ UNCHANGED <<starts, reading, buf>>
    BY <1>21 DEF HandlerThrows
  <2>2. JsOK(js') /\ RegistryStep(js, js') /\ (s \in Ft => ~InMap(js', s))
    BY <1>1, <2>1, FailedFacts
  <2> QED
    BY <1>2, <2>1, <2>2, EndTurnInv
<1>22. ASSUME LoopRejected(s, k) PROVE Inv' /\ MapStep(js, js')
  <2>1. /\ js' = Failed(js, s) \/ (s \in Rd /\ js' = js)
        /\ phase[s][k] # "idle" /\ GoTo(s, k, "done")
        /\ UNCHANGED <<starts, reading, buf>>
    BY <1>22 DEF LoopRejected
  <2>2. JsOK(js') /\ RegistryStep(js, js') /\ (s \in Ft => ~InMap(js', s))
    <3>1. CASE js' = Failed(js, s)
      BY <1>1, <3>1, FailedFacts
    <3>2. CASE s \in Rd /\ js' = js
      BY <1>1, <3>2, SessionsAssumption
    <3> QED
      BY <2>1, <3>1, <3>2
  <2> QED
    BY <1>2, <2>1, <2>2, EndTurnInv
<1> QED
  BY <1>8, <1>9, <1>11, <1>12, <1>13, <1>14, <1>15, <1>16, <1>17, <1>18,
     <1>19, <1>20, <1>21, <1>22 DEF ConnTurn

(* What a step of the whole layer does to the Map and to curConn: it adds a    *)
(* session that was never used, or removes at most one.                        *)
AddStep(s) ==
  /\ starts[s] = 0
  /\ InMap(js', s) /\ js'.curConn = s /\ starts'[s] = 1
  /\ \A t \in Session \ {s} : js'.sessions[t] = js.sessions[t] /\ starts'[t] = starts[t]

KeepStep ==
  /\ MapStep(js, js')
  /\ \A t \in Session : starts'[t] > 0 <=> starts[t] > 0

(* Every step preserves the inductive invariant and is one of the two above. *)
LEMMA NextInv ==
  ASSUME Inv, [Next]_vars
  PROVE  Inv' /\ (KeepStep \/ \E s \in Session : AddStep(s))
<1>1. JsOK(js) /\ js \in JsState /\ RegistryStep(js, js) /\ MapStep(js, js)
  BY DEF Inv, JsOK, RegistryStep, MapStep
<1>2. starts \in [Session -> 0..MaxStarts] /\ buf \in [Session -> [Attempt -> Seq(Msg)]]
  BY DEF Inv, TypeOK
<1>3. ASSUME UNCHANGED vars PROVE Inv' /\ KeepStep
  <2>1. /\ js' = js /\ starts' = starts /\ phase' = phase
        /\ reading' = reading /\ buf' = buf
    BY <1>3 DEF vars
  <2>2. Inv'
    BY <2>1 DEF Inv, TypeOK, StartedOK, FtOK
  <2> QED
    BY <1>1, <2>1, <2>2 DEF KeepStep
<1>4. ASSUME NEW s \in Session, SessionStart(s) PROVE Inv' /\ AddStep(s)
  <2> DEFINE R == AddSession(js, s)
  <2>1. starts[s] = 0 /\ Start(R, s)
    BY <1>4 DEF SessionStart
  <2>2. s \in Ft => ~js.closing[s]
    BY <1>2, <2>1 DEF Inv, StartedOK
  <2>3. /\ JsOK(R) /\ InMap(R, s) /\ R.curConn = s /\ R.ws = js.ws
        /\ R.closing = js.closing
        /\ R.sessions = [js.sessions EXCEPT ![s] = js.adds + 1]
    BY <1>1, <2>2, AddSessionFacts
  <2> HIDE DEF R
  <2>4. \A t \in Session \ {s} : R.sessions[t] = js.sessions[t]
    BY <1>1, <2>3 DEF JsState
  <2>5. Inv'
    BY <2>1, <2>3, <2>4, StartInv
  <2>6. js' = PrepareConnect(R, s) /\ starts' = [starts EXCEPT ![s] = @ + 1]
    BY <2>1 DEF Start
  <2>7. js'.sessions = R.sessions /\ js'.curConn = R.curConn
    BY <2>3, <2>6, PrepareConnectFacts
  <2> QED
    BY <1>2, <2>1, <2>3, <2>4, <2>5, <2>6, <2>7 DEF AddStep, InMap
<1>5. ASSUME NEW s \in Session, SessionClose(s) PROVE Inv' /\ KeepStep
  <2>1. js' = RemoveSession(js, s) /\ UNCHANGED <<starts, phase, reading, buf>>
    BY <1>5 DEF SessionClose
  <2>2. JsOK(js') /\ RegistryStep(js, js')
    BY <1>1, <2>1, RemoveSessionFacts
  <2> QED
    BY <2>1, <2>2, BridgeInv DEF KeepStep
<1>6. ASSUME NEW s \in Session, Restart(s) PROVE Inv' /\ KeepStep
  <2> DEFINE c == GetSession(js, s)
             R == CloseConn(js, c)
  <2>1. c \in Rd /\ Start(R, c)
    BY <1>6 DEF Restart
  <2>2. c \in Session /\ c \notin Ft /\ InMap(js, c)
    BY <1>1, <2>1, SessionsAssumption DEF GetSession, JsOK, CurOK, Session
  <2> HIDE DEF c
  <2>3. /\ JsOK(R) /\ R.sessions = js.sessions /\ R.curConn = js.curConn
        /\ R.ws = js.ws /\ \A f \in Ft : R.closing[f] = js.closing[f]
    BY <1>1, <2>1, CloseRdFacts
  <2> HIDE DEF R
  <2>4. InMap(R, c)
    BY <2>2, <2>3 DEF InMap
  <2>5. Inv'
    BY <2>1, <2>2, <2>3, <2>4, StartInv
  <2>6. js' = PrepareConnect(R, c) /\ starts' = [starts EXCEPT ![c] = @ + 1]
    BY <2>1 DEF Start
  <2>7. js'.sessions = js.sessions /\ js'.curConn = js.curConn
    BY <2>2, <2>3, <2>4, <2>6, PrepareConnectFacts
  <2>8. starts[c] > 0
    BY <2>2 DEF Inv, StartedOK
  <2> QED
    BY <1>2, <2>2, <2>5, <2>6, <2>7, <2>8 DEF KeepStep, MapStep
<1>7. ASSUME NEW f \in Ft, SelectEmptyFolder(f) PROVE Inv' /\ KeepStep
  <2>1. js' = EndFileTransferSession(js, f) /\ UNCHANGED <<starts, phase, reading, buf>>
    BY <1>7 DEF SelectEmptyFolder
  <2>2. JsOK(js') /\ RegistryStep(js, js')
    BY <1>1, <2>1, EndFileTransferSessionFacts
  <2> QED
    BY <2>1, <2>2, BridgeInv DEF KeepStep
<1>8. ASSUME BridgeClose PROVE Inv' /\ KeepStep
  <2>1. js' = CloseCurrent(js) /\ UNCHANGED <<starts, phase, reading, buf>>
    BY <1>8 DEF BridgeClose
  <2>2. JsOK(js') /\ RegistryStep(js, js')
    <3>1. CASE js.curConn = None
      BY <1>1, <2>1, <3>1 DEF CloseCurrent
    <3>2. CASE js.curConn # None
      <4>1. js.curConn \in Session
        BY <1>1, <3>2 DEF JsState
      <4> QED
        BY <1>1, <2>1, <3>2, <4>1, RemoveSessionFacts DEF CloseCurrent
    <3> QED
      BY <3>1, <3>2
  <2> QED
    BY <2>1, <2>2, BridgeInv DEF KeepStep
<1>9. ASSUME NEW s \in Session, NEW k \in Attempt, ConnTurn(s, k) PROVE Inv' /\ KeepStep
  <2>1. Inv' /\ MapStep(js, js')
    BY <1>9, ConnTurnInv
  <2>2. starts' = starts
    BY <1>9 DEF ConnTurn, RendezvousOpened, ConnectRejected, PunchHoleRefused,
       PunchHoleUnanswered, RelayOffered, RelayOpened, HandshakeDone, LoopBenign,
       LoopFatal, LoopSlow, LoopCloseReason, HandlerDone, HandlerThrows,
       LoopRejected, Dequeue
  <2> QED
    BY <2>1, <2>2 DEF KeepStep
<1>10. ASSUME NEW s \in Session, NEW k \in Attempt, SocketEvent(s, k) PROVE Inv' /\ KeepStep
  <2>1. js' = SetStatus(js, s, k, "event") /\ UNCHANGED <<starts, phase, reading, buf>>
    BY <1>10 DEF SocketEvent
  <2>2. "event" \in Status
    BY DEF Status
  <2>3. JsOK(js') /\ RegistryStep(js, js')
    BY <2>1, <2>2, SetStatusStep
  <2> QED
    BY <2>1, <2>3, BridgeInv DEF KeepStep
<1>11. ASSUME NEW s \in Session, NEW k \in Attempt, NEW m \in Msg, Receive(s, k, m)
       PROVE  Inv' /\ KeepStep
  <2>1. /\ js' = js /\ starts' = starts /\ phase' = phase /\ reading' = reading
        /\ buf' = [buf EXCEPT ![s][k] = Append(@, m)]
    BY <1>11 DEF Receive
  <2>2. Append(buf[s][k], m) \in Seq(Msg)
    BY <1>2
  <2>3. buf' \in [Session -> [Attempt -> Seq(Msg)]]
    BY <1>2, <2>1, <2>2
  <2>4. Inv'
    BY <2>1, <2>3 DEF Inv, TypeOK, StartedOK, FtOK
  <2> QED
    BY <1>1, <2>1, <2>4 DEF KeepStep
<1> QED
  BY <1>3, <1>4, <1>5, <1>6, <1>7, <1>8, <1>9, <1>10, <1>11 DEF Next

(* The inductive invariant holds in every reachable state. *)
LEMMA SpecInv == Spec => []Inv
<1>1. Inv /\ [Next]_vars => Inv'
  BY NextInv
<1> QED
  BY InitInv, <1>1, PTL DEF Spec

-----------------------------------------------------------------------------
(* Every reachable state is of the declared type: a restart, a zombie that     *)
(* finishes connecting or a late socket event leave no other value behind.     *)
THEOREM TypeCorrect == Spec => []TypeOK
<1>1. Inv => TypeOK
  BY DEF Inv
<1> QED
  BY SpecInv, <1>1, PTL

(* window.curConn is a registered connection whenever the Map is not empty,    *)
(* and undefined otherwise, after any interleaving of bridge calls, failures   *)
(* and restarts of any number of sessions.                                     *)
THEOREM CurConnAlwaysRegistered == Spec => []CurConnRegistered
<1>1. Inv => CurConnRegistered
  BY DEF Inv, JsOK, CurOK, CurConnRegistered
<1> QED
  BY SpecInv, <1>1, PTL

(* No message pump outlives its registration. *)
THEOREM PumpsAlwaysOwned == Spec => []PumpsOwned
<1>1. Inv => PumpsOwned
  BY DEF Inv, JsOK, PumpOK, PumpsOwned
<1> QED
  BY SpecInv, <1>1, PTL

(* Each file-transfer session is reported ended at most once, after it left    *)
(* the Map.                                                                    *)
THEOREM FtEndAlwaysNotifiedOnce == Spec => []FtEndNotifiedOnce
<1>1. Inv => FtEndNotifiedOnce
  BY DEF Inv, JsOK, EndOK, FtEndNotifiedOnce
<1> QED
  BY SpecInv, <1>1, PTL

(* A file-transfer session in the Map has a start() or a message loop that is  *)
(* still running.                                                              *)
THEOREM RegisteredFtAlwaysServed == Spec => []RegisteredFtIsServed
<1>1. Inv => RegisteredFtIsServed
  BY DEF Inv, FtOK, RegisteredFtIsServed
<1> QED
  BY SpecInv, <1>1, PTL

-----------------------------------------------------------------------------
(* The session layer implements the abstract registry: in every step at most   *)
(* one session enters or leaves, an id never returns, and curConn moves only   *)
(* to a new session or, from a removed one, to one that remains.               *)
THEOREM ImplementsRegistry == Spec => RegistrySpec
<1> DEFINE live == {s \in Session : InMap(js, s)}
           used == {s \in Session : starts[s] > 0}
<1>1. Init => Registry!Init
  BY DEF Init, Registry!Init, InMap
<1>2. ASSUME Inv, [Next]_vars PROVE [Registry!Next]_(Registry!vars)
  <2>1. Inv' /\ (KeepStep \/ \E s \in Session : AddStep(s))
    BY <1>2, NextInv
  <2>2. /\ CurOK(js) /\ CurOK(js)' /\ js \in JsState /\ (js \in JsState)'
        /\ starts \in [Session -> 0..MaxStarts] /\ starts' \in [Session -> 0..MaxStarts]
    BY <1>2, <2>1 DEF Inv, JsOK, TypeOK
  <2>3. ASSUME NEW s \in Session, AddStep(s) PROVE Registry!Add(s)
    <3>1. s \notin used /\ used' = used \cup {s}
      BY <2>2, <2>3 DEF AddStep
    <3>2. live' = live \cup {s}
      BY <2>2, <2>3 DEF AddStep, InMap
    <3>3. js'.curConn = s
      BY <2>3 DEF AddStep
    <3> QED
      BY <3>1, <3>2, <3>3 DEF Registry!Add
  <2>4. CASE KeepStep
    <3>1. used' = used
      BY <2>4 DEF KeepStep
    <3>2. CASE js'.sessions = js.sessions /\ js'.curConn = js.curConn
      <4>1. live' = live
        BY <3>2 DEF InMap
      <4> QED
        BY <3>1, <3>2, <4>1 DEF Registry!vars
    <3>3. ASSUME NEW s \in Session, InMap(js, s), ~InMap(js', s),
                 \A t \in Session \ {s} : js'.sessions[t] = js.sessions[t],
                 js.curConn # s => js'.curConn = js.curConn
          PROVE  Registry!Remove(s)
      <4>1. s \in live /\ live' = live \ {s}
        BY <3>3 DEF InMap
      <4>2. IF live' = {} THEN js'.curConn = None ELSE js'.curConn \in live'
        BY <2>2, SessionsAssumption DEF CurOK, Session
      <4> HIDE DEF live, used
      <4> QED
        BY <3>1, <3>3, <4>1, <4>2 DEF Registry!Remove, live, used
    <3> QED
      BY <2>4, <3>2, <3>3 DEF KeepStep, MapStep, Registry!Next
  <2> QED
    BY <2>1, <2>3, <2>4 DEF Registry!Next
<1>3. Inv /\ [Next]_vars => [Registry!Next]_(Registry!vars)
  BY <1>2
<1> QED
  BY SpecInv, <1>1, <1>3, PTL DEF Spec, RegistrySpec, Registry!Spec

-----------------------------------------------------------------------------
(* P differs from R in nothing that FtFailureSparesRd speaks of. *)
SparesRd(R, P) ==
  /\ \A r \in Rd :
       /\ P.sessions[r] = R.sessions[r] /\ P.ws[r] = R.ws[r]
       /\ P.status[r] = R.status[r] /\ P.pump[r] = R.pump[r]
  /\ P.reported = R.reported

(* The functions a file-transfer connection calls touch no remote desktop. *)
LEMMA EndsSpareRd ==
  ASSUME NEW R, JsOK(R), NEW f \in Ft
  PROVE  /\ SparesRd(R, EndFileTransferSession(R, f))
         /\ SparesRd(R, EndUnlessClosed(R, f))
         /\ SparesRd(R, Failed(R, f))
         /\ SparesRd(R, RemoveSession(R, f))
<1>1. f \notin Rd /\ f \in Session /\ Rd \subseteq Session /\ SparesRd(R, R)
  BY SessionsAssumption DEF Session, SparesRd
<1> DEFINE E == EndFileTransferSession(R, f)
           D == RemoveSession(R, f)
<1>2. SparesRd(R, E)
  <2>1. /\ \A t \in Session \ {f} :
             E.sessions[t] = R.sessions[t] /\ E.status[t] = R.status[t] /\ E.pump[t] = R.pump[t]
        /\ E.reported = R.reported /\ RegistryStep(R, E)
    BY EndFileTransferSessionFacts
  <2> HIDE DEF E
  <2> QED
    BY <1>1, <2>1 DEF SparesRd, RegistryStep
<1>3. SparesRd(R, D)
  <2>1. /\ RegistryStep(R, D) /\ D.reported = R.reported
        /\ InMap(R, f) => Leaves(R, D, f)
        /\ ~InMap(R, f) => D.sessions = R.sessions /\ D.status = R.status /\ D.pump = R.pump
    BY <1>1, RemoveSessionFacts
  <2> HIDE DEF D
  <2> QED
    BY <1>1, <2>1 DEF SparesRd, RegistryStep, Leaves
<1> HIDE DEF E, D
<1>4. SparesRd(R, EndUnlessClosed(R, f))
  BY <1>1, <1>2 DEF EndUnlessClosed, E
<1> QED
  BY <1>1, <1>2, <1>3, <1>4 DEF Failed, E, D

(* No step of a file-transfer session closes, removes or disturbs a remote     *)
(* desktop or reports an error to the parent, however many sessions there are. *)
THEOREM FtFailureAlwaysSparesRd == Spec => FtFailureSparesRd
<1>1. ASSUME Inv, NEW f \in Ft, FtTurn(f)
      PROVE  RdState(js') = RdState(js) /\ js'.reported = js.reported
  <2>1. JsOK(js) /\ js \in JsState /\ f \in Session /\ f \notin Rd /\ Rd \subseteq Session
    BY <1>1, SessionsAssumption DEF Inv, JsOK, Session
  <2>2. SparesRd(js, js)
    BY DEF SparesRd
  <2>3. ASSUME NEW k \in Attempt, NEW v \in Status, js' = SetStatus(js, f, k, v)
        PROVE  SparesRd(js, js')
    <3> DEFINE N == SetStatus(js, f, k, v)
    <3>1. /\ N.sessions = js.sessions /\ N.ws = js.ws /\ N.pump = js.pump
          /\ N.reported = js.reported
          /\ \A t \in Session \ {f} : N.status[t] = js.status[t]
      BY <2>1, SetStatusFacts
    <3>2. js' = N
      BY <2>3
    <3> HIDE DEF N
    <3> QED
      BY <2>1, <3>1, <3>2 DEF SparesRd
  <2>4. ASSUME NEW k \in Attempt, js' = SetWs(js, f, k) PROVE SparesRd(js, js')
    <3> DEFINE N == SetWs(js, f, k)
    <3>1. /\ N.sessions = js.sessions /\ N.ws = [js.ws EXCEPT ![f] = k]
          /\ N.pump = js.pump /\ N.reported = js.reported /\ N.status = js.status
      BY <2>1, SetWsFacts
    <3>2. js' = N
      BY <2>4
    <3> HIDE DEF N
    <3>3. \A r \in Rd : N.ws[r] = js.ws[r]
      BY <2>1, <3>1 DEF JsState
    <3> QED
      BY <3>1, <3>2, <3>3 DEF SparesRd
  <2>5. "connecting" \in Status /\ "open" \in Status /\ "event" \in Status
    BY DEF Status
  <2>6. CASE SessionClose(f) \/ SelectEmptyFolder(f)
    <3>1. js' = RemoveSession(js, f) \/ js' = EndFileTransferSession(js, f)
      BY <2>6 DEF SessionClose, SelectEmptyFolder
    <3>2. SparesRd(js, js')
      BY <2>1, <3>1, EndsSpareRd
    <3> QED
      BY <3>2 DEF SparesRd, RdState
  <2>7. ASSUME NEW k \in Attempt, ConnTurn(f, k) \/ SocketEvent(f, k)
        PROVE  SparesRd(js, js')
    <3>1. \/ js' = js
          \/ js' = Failed(js, f)
          \/ js' = EndFileTransferSession(js, f)
          \/ js' = EndUnlessClosed(js, f)
          \/ js' = SetStatus(js, f, k, "connecting")
          \/ js' = SetStatus(js, f, k, "open")
          \/ js' = SetStatus(js, f, k, "event")
          \/ js' = SetWs(js, f, k)
      BY <2>1, <2>7 DEF ConnTurn, SocketEvent, RendezvousOpened, ConnectRejected,
         PunchHoleRefused, PunchHoleUnanswered, RelayOffered, RelayOpened,
         HandshakeDone, LoopBenign, LoopFatal, LoopSlow, HandlerDone, HandlerThrows,
         LoopRejected
    <3> QED
      BY <2>1, <2>2, <2>3, <2>4, <2>5, <3>1, EndsSpareRd
  <2>8. CASE \E k \in Attempt : ConnTurn(f, k) \/ SocketEvent(f, k)
    <3>1. SparesRd(js, js')
      BY <2>7, <2>8
    <3> QED
      BY <3>1 DEF SparesRd, RdState
  <2> QED
    BY <1>1, <2>6, <2>8 DEF FtTurn
<1>2. Inv => [\A f \in Ft : FtTurn(f) =>
                RdState(js') = RdState(js) /\ js'.reported = js.reported]_vars
  BY <1>1
<1> QED
  BY SpecInv, <1>2, PTL DEF FtFailureSparesRd

=============================================================================
