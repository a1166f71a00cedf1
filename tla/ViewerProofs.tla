---------------------------- MODULE ViewerProofs ----------------------------
(***************************************************************************)
(* Proofs about the Flutter side, for any number of sessions.  The pages   *)
(* over the session registry (Viewer): no session and no handler without a *)
(* page, events keyed by session, and the remote desktop's page under the  *)
(* closings of the file-manager pages.  The way up (ViewerBootstrap): one  *)
(* session for a load of the popup.                                        *)
(***************************************************************************)
EXTENDS Viewer, ViewerBootstrap, FiniteSetTheorems, TLAPS

Pages == ToSet(routes)

(* A session in the Map has its own handler. *)
Listening == live \subseteq handlers

(* A page that was told to close has a close under way as long as its      *)
(* session or its handler is left, and closing needs a page.               *)
Closing ==
  /\ closed \subseteq used
  /\ \A s \in closed \cap (live \cup handlers) : pending[s] # {}

PageInv == SessionHasPage /\ Listening /\ Closing

-----------------------------------------------------------------------------
(* The stack of pages: what Front and Last do to the set of pages. *)
LEMMA Stack ==
  ASSUME NEW S, NEW q \in Seq(S)
  PROVE  /\ ToSet(q) \subseteq S /\ Len(q) \in Nat
         /\ q # <<>> => /\ Front(q) \in Seq(S) /\ Last(q) \in ToSet(q)
                        /\ ToSet(q) = ToSet(Front(q)) \cup {Last(q)}
                        /\ Len(Front(q)) = Len(q) - 1
                        /\ \A i \in 1..Len(q) - 1 : Front(q)[i] = q[i]
<1>1. DOMAIN q = 1..Len(q) /\ Len(q) \in Nat
  OBVIOUS
<1>2. ToSet(q) \subseteq S
  BY DEF ToSet
<1>4. ASSUME q # <<>>
      PROVE  /\ Front(q) \in Seq(S) /\ Last(q) \in ToSet(q)
             /\ ToSet(q) = ToSet(Front(q)) \cup {Last(q)}
             /\ Len(Front(q)) = Len(q) - 1
             /\ \A i \in 1..Len(q) - 1 : Front(q)[i] = q[i]
  <2> DEFINE r == Front(q)
             n == Len(q)
  <2>1. n \in Nat /\ n > 0 /\ DOMAIN q = 1..n
    BY <1>4
  <2>2. /\ r \in Seq(S) /\ Len(r) = n - 1 /\ DOMAIN r = 1..n - 1
        /\ \A i \in 1..n - 1 : r[i] = q[i]
    BY <2>1 DEF Front
  <2>3. Last(q) = q[n]
    BY DEF Last
  <2> HIDE DEF r, n
  <2>4. Last(q) \in ToSet(q)
    BY <2>1, <2>3 DEF ToSet
  <2>5. \A y : y \in ToSet(q) <=> y \in ToSet(r) \cup {Last(q)}
    <3> TAKE y
    <3>1. ASSUME y \in ToSet(q) PROVE y \in ToSet(r) \cup {Last(q)}
      <4>1. PICK i \in 1..n : y = q[i]
        BY <2>1, <3>1 DEF ToSet
      <4>2. CASE i = n
        BY <2>3, <4>1, <4>2
      <4>3. CASE i \in 1..n - 1
        BY <2>2, <4>1, <4>3 DEF ToSet
      <4> QED
        BY <2>1, <4>2, <4>3
    <3>2. ASSUME y \in ToSet(r) PROVE y \in ToSet(q)
      <4>1. PICK i \in 1..n - 1 : y = r[i]
        BY <2>2, <3>2 DEF ToSet
      <4>2. i \in DOMAIN q /\ q[i] = y
        BY <2>1, <2>2, <4>1
      <4> QED
        BY <4>2 DEF ToSet
    <3> QED
      BY <2>4, <3>1, <3>2
  <2> QED
    BY <2>2, <2>4, <2>5 DEF r, n
<1> QED
  BY <1>1, <1>2, <1>4

(* A page that is pushed is added to the pages. *)
LEMMA Push ==
  ASSUME NEW S, NEW q \in Seq(S), NEW x \in S
  PROVE  ToSet(Append(q, x)) = ToSet(q) \cup {x}
<1>0. DOMAIN q = 1..Len(q) /\ Len(q) \in Nat
  OBVIOUS
<1> DEFINE r == Append(q, x)
<1>1. /\ r \in Seq(S) /\ DOMAIN r = 1..Len(q) + 1 /\ r[Len(q) + 1] = x
      /\ \A i \in 1..Len(q) : r[i] = q[i]
  BY <1>0
<1>2. \A y : y \in ToSet(r) <=> y \in ToSet(q) \cup {x}
  <2> TAKE y
  <2>1. ASSUME y \in ToSet(r) PROVE y \in ToSet(q) \cup {x}
    <3>1. PICK i \in 1..Len(q) + 1 : y = r[i]
      BY <1>1, <2>1 DEF ToSet
    <3>2. CASE i = Len(q) + 1
      BY <1>1, <3>1, <3>2
    <3>3. CASE i \in 1..Len(q)
      BY <1>0, <1>1, <3>1, <3>3 DEF ToSet
    <3> QED
      BY <1>0, <3>2, <3>3
  <2>2. ASSUME y \in ToSet(q) PROVE y \in ToSet(r)
    <3>1. PICK i \in 1..Len(q) : y = q[i]
      BY <1>0, <2>2 DEF ToSet
    <3>2. i \in DOMAIN r /\ r[i] = y
      BY <1>0, <1>1, <3>1
    <3> QED
      BY <3>2 DEF ToSet
  <2>3. x \in ToSet(r)
    <3>1. Len(q) + 1 \in DOMAIN r
      BY <1>0, <1>1
    <3> QED
      BY <1>1, <3>1 DEF ToSet
  <2> QED
    BY <2>1, <2>2, <2>3
<1> QED
  BY <1>1, <1>2

(* No page is on the stack twice: a new one is another, and a page that is *)
(* taken off is gone.                                                      *)
LEMMA StackInjective ==
  ASSUME NEW S, NEW q \in Seq(S), IsInjective(q)
  PROVE  /\ \A x : x \notin ToSet(q) => IsInjective(Append(q, x))
         /\ q # <<>> => IsInjective(Front(q)) /\ Last(q) \notin ToSet(Front(q))
<1>1. DOMAIN q = 1..Len(q) /\ Len(q) \in Nat
  OBVIOUS
<1>2. ASSUME NEW x, x \notin ToSet(q) PROVE IsInjective(Append(q, x))
  <2>1. /\ DOMAIN Append(q, x) = 1..Len(q) + 1 /\ Append(q, x)[Len(q) + 1] = x
        /\ \A i \in 1..Len(q) : Append(q, x)[i] = q[i]
    BY <1>1
  <2>2. \A i \in 1..Len(q) : q[i] # x
    BY <1>1, <1>2 DEF ToSet
  <2> QED
    BY <1>1, <2>1, <2>2 DEF IsInjective
<1>3. ASSUME q # <<>> PROVE IsInjective(Front(q)) /\ Last(q) \notin ToSet(Front(q))
  <2>1. /\ Len(q) > 0 /\ DOMAIN Front(q) = 1..Len(q) - 1 /\ Last(q) = q[Len(q)]
        /\ \A i \in 1..Len(q) - 1 : Front(q)[i] = q[i]
    BY <1>1, <1>3 DEF Front, Last
  <2>2. IsInjective(Front(q))
    BY <1>1, <2>1 DEF IsInjective
  <2>3. \A i \in 1..Len(q) - 1 : q[i] # q[Len(q)]
    BY <1>1, <2>1 DEF IsInjective
  <2> QED
    BY <2>1, <2>2, <2>3 DEF ToSet
<1> QED
  BY <1>2, <1>3

-----------------------------------------------------------------------------
(* Navigator.pop moves at most one page from the stack to the pages that   *)
(* leave: no page is unmounted by it.                                      *)
LEMMA PopKeeps ==
  ASSUME TypeOK, Pop, used' = used
  PROVE  /\ routes' \in Seq(used') /\ IsInjective(routes')
         /\ leaving' \subseteq used'
         /\ menu' \in Ft \cup {None} /\ missed' \subseteq Ft
         /\ ToSet(routes') \cup leaving' = ToSet(routes) \cup leaving
<1>0. menu \in Ft \cup {None} /\ missed \subseteq Ft
  BY DEF TypeOK
<1>m. menu' \in Ft \cup {None} /\ missed' \subseteq Ft
  BY <1>0 DEF Pop
<1>1. routes \in Seq(used) /\ IsInjective(routes) /\ leaving \subseteq used
  BY DEF TypeOK
<1>2. CASE routes = <<>> \/ menu # None
  <2>1. UNCHANGED <<routes, leaving>>
    BY <1>2 DEF Pop
  <2> QED
    BY <1>1, <1>m, <2>1
<1>3. CASE routes # <<>> /\ menu = None
  <2>1. routes' = Front(routes) /\ leaving' = leaving \cup {Last(routes)}
    BY <1>3 DEF Pop, Top
  <2>2. /\ Front(routes) \in Seq(used) /\ Last(routes) \in ToSet(routes)
        /\ ToSet(routes) = ToSet(Front(routes)) \cup {Last(routes)}
        /\ ToSet(routes) \subseteq used
    BY <1>1, <1>3, Stack
  <2>3. IsInjective(Front(routes))
    BY <1>1, <1>3, StackInjective
  <2> QED
    BY <1>1, <1>m, <2>1, <2>2, <2>3
<1> QED
  BY <1>2, <1>3

(* Initially there is no page and no session. *)
LEMMA PageInit == Init => PageInv
<1> SUFFICES ASSUME Init PROVE PageInv
  OBVIOUS
<1>1. <<>> \in Seq({}) /\ IsInjective(<<>>)
  BY DEF IsInjective
<1>2. TypeOK
  BY <1>1, Zenon DEF Init, TypeOK, Registry!Init
<1> QED
  BY <1>2 DEF Init, Registry!Init, PageInv, SessionHasPage, Listening, Closing

(* Taking a session out of the Map leaves the others. *)
LEMMA RemoveKeeps ==
  ASSUME NEW s, TypeOK, IF s \in live THEN Registry!Remove(s) ELSE UNCHANGED registry
  PROVE  /\ live' = live \ {s} /\ used' = used
         /\ cur' \in Session \cup {None}
  BY DEF TypeOK, Registry!Remove, registry

(* Every step keeps the types and the pages. *)
LEMMA PageStep == PageInv /\ [Next]_vars => PageInv'
<1> SUFFICES ASSUME PageInv, [Next]_vars PROVE PageInv'
  OBVIOUS
<1>0. /\ live \subseteq used /\ used \subseteq Session /\ cur \in Session \cup {None}
      /\ running \subseteq used
      /\ routes \in Seq(used) /\ IsInjective(routes)
      /\ leaving \subseteq used
      /\ menu \in Ft \cup {None} /\ missed \subseteq Ft
      /\ handlers \subseteq used
      /\ closed \subseteq Ft
      /\ pending \in [Session -> SUBSET Closer]
      /\ ways \in [Ft -> SUBSET {"back", "again", "ended"}]
      /\ handledBy \subseteq Session \X Session
      /\ open \in BOOLEAN
      /\ TypeOK
  BY DEF PageInv, SessionHasPage, TypeOK
<1>p. \A s \in live \cup handlers : s \in ToSet(routes) \cup leaving \/ pending[s] # {}
  BY DEF PageInv, SessionHasPage, Mounted
<1>l. live \subseteq handlers
  BY DEF PageInv, Listening
<1>c. closed \subseteq used /\ \A s \in closed \cap (live \cup handlers) : pending[s] # {}
  BY DEF PageInv, Closing
<1>f. Ft \subseteq Session /\ Rd \in Session /\ Rd \notin Ft
  BY ViewerAssumption DEF Session
<1>d. \A s : DispatchGlobalEvent(s) \subseteq handlers
  BY DEF DispatchGlobalEvent
(* What is shown of each step, put together. *)
<1>q. ASSUME /\ live' \subseteq used' /\ used' \subseteq Session /\ cur' \in Session \cup {None}
             /\ running' \subseteq used'
             /\ routes' \in Seq(used') /\ IsInjective(routes')
             /\ leaving' \subseteq used'
             /\ menu' \in Ft \cup {None} /\ missed' \subseteq Ft
             /\ handlers' \subseteq used'
             /\ closed' \subseteq Ft
             /\ pending' \in [Session -> SUBSET Closer]
             /\ ways' \in [Ft -> SUBSET {"back", "again", "ended"}]
             /\ handledBy' \subseteq Session \X Session
             /\ open' \in BOOLEAN,
             \A s \in live' \cup handlers' : s \in ToSet(routes') \cup leaving' \/ pending'[s] # {},
             live' \subseteq handlers',
             closed' \subseteq used',
             \A s \in closed' \cap (live' \cup handlers') : pending'[s] # {}
      PROVE  PageInv'
  <2>1. TypeOK'
    BY <1>q DEF TypeOK
  <2> QED
    BY <1>q, <2>1 DEF PageInv, SessionHasPage, Mounted, Listening, Closing
<1>1. ASSUME NEW s \in Session, InitPage(s) PROVE PageInv'
  <2>1. /\ s \notin used /\ live' = live \cup {s} /\ used' = used \cup {s} /\ cur' = s
        /\ running' = running \cup {s} /\ routes' = Append(routes, s)
        /\ handlers' = handlers \cup {s}
        /\ UNCHANGED <<leaving, menu, missed, closed, pending, ways, handledBy, open>>
    BY <1>1 DEF InitPage, Registry!Add
  <2>3. routes' \in Seq(used') /\ ToSet(routes') = ToSet(routes) \cup {s}
    <3> DEFINE U == used \cup {s}
    <3>1. routes \in Seq(U) /\ s \in U
      BY <1>0
    <3>2. U = used'
      BY <2>1
    <3>3. Append(routes, s) \in Seq(U)
      BY <3>1
    <3>4. ToSet(Append(routes, s)) = ToSet(routes) \cup {s}
      BY <3>1, Push
    <3> QED
      BY <2>1, <3>2, <3>3, <3>4
  <2>4. s \notin ToSet(routes)
    BY <1>0, <2>1, Stack
  <2>5. IsInjective(routes')
    BY <1>0, <2>1, <2>4, StackInjective
  <2> QED
    BY <1>0, <1>p, <1>l, <1>c, <2>1, <2>3, <2>5, <1>q
<1>2. ASSUME NEW f \in Ft, CloseFileTransfer(f) PROVE PageInv'
  <2>1. /\ Top = f /\ UNCHANGED <<live, used, cur, running, handlers, handledBy, open>>
    BY <1>2 DEF CloseFileTransfer, registry
  <2>2. f \in ToSet(routes) /\ f \in used
    BY <1>0, <1>f, <2>1, Stack, ViewerAssumption DEF Top
  <2>3. CASE f \in closed
    <3>1. Pop /\ ways' = [ways EXCEPT ![f] = @ \cup {"again"}] /\ UNCHANGED <<closed, pending>>
      BY <1>2, <2>3 DEF CloseFileTransfer
    <3>2. ways' \in [Ft -> SUBSET {"back", "again", "ended"}]
      BY <1>0, <3>1
    <3>3. /\ routes' \in Seq(used') /\ IsInjective(routes')
          /\ leaving' \subseteq used'
          /\ menu' \in Ft \cup {None} /\ missed' \subseteq Ft
          /\ ToSet(routes') \cup leaving' = ToSet(routes) \cup leaving
      BY <1>0, <2>1, <3>1, PopKeeps
    <3> QED
      BY <1>0, <1>p, <1>l, <1>c, <2>1, <3>1, <3>2, <3>3, <1>q
  <2>4. CASE f \notin closed
    <3>1. /\ closed' = closed \cup {f} /\ pending' = [pending EXCEPT ![f] = @ \cup {"back"}]
          /\ ways' = [ways EXCEPT ![f] = @ \cup {"back"}] /\ UNCHANGED <<routes, leaving, menu, missed>>
      BY <1>2, <2>4 DEF CloseFileTransfer, stack
    <3>2. ways' \in [Ft -> SUBSET {"back", "again", "ended"}]
      BY <1>0, <3>1
    <3>3. /\ pending' \in [Session -> SUBSET Closer] /\ pending'[f] # {}
          /\ \A s \in Session : pending[s] # {} => pending'[s] # {}
      BY <1>0, <1>f, <3>1 DEF Closer
    <3> QED
      BY <1>0, <1>p, <1>l, <1>c, <2>1, <2>2, <3>1, <3>2, <3>3, <1>q
  <2> QED
    BY <2>3, <2>4
<1>3. ASSUME NEW f \in Ft, EndFileTransferSession(f) PROVE PageInv'
  <2> DEFINE told == DispatchGlobalEvent(f)
  <2>1. /\ Registry!Remove(f) /\ UNCHANGED <<running, routes, leaving, menu, missed, handlers, closed, open>>
        /\ pending' = [s \in Session |->
                         pending[s] \cup IF s \in told \cap Ft THEN {"ended"} ELSE {}]
        /\ ways' = [s \in Ft |-> ways[s] \cup IF s \in told THEN {"ended"} ELSE {}]
        /\ handledBy' = handledBy \cup ({f} \X told)
    BY <1>3 DEF EndFileTransferSession, stack
  <2>2. told \subseteq Session
    BY <1>0, <1>d
  <2> HIDE DEF told
  <2>3. f \in live /\ live' = live \ {f} /\ used' = used /\ cur' \in Session \cup {None}
    BY <1>0, <2>1, RemoveKeeps DEF Registry!Remove
  <2>4. /\ pending' \in [Session -> SUBSET Closer]
        /\ \A s \in Session : pending[s] # {} => pending'[s] # {}
    BY <1>0, <2>1 DEF Closer
  <2>5. ways' \in [Ft -> SUBSET {"back", "again", "ended"}]
    BY <1>0, <2>1
  <2>6. handledBy' \subseteq Session \X Session
    BY <1>0, <1>f, <2>1, <2>2
  <2> QED
    BY <1>0, <1>p, <1>l, <1>c, <2>1, <2>3, <2>4, <2>5, <2>6, <1>q
<1>4. ASSUME NEW s \in Session, PushEvent(s) PROVE PageInv'
  <2>1. /\ handledBy' = handledBy \cup ({s} \X DispatchGlobalEvent(s))
        /\ UNCHANGED <<live, used, cur, running, routes, leaving, menu, missed, handlers, closed, pending, ways, open>>
    BY <1>4 DEF PushEvent, registry, stack
  <2>2. handledBy' \subseteq Session \X Session
    BY <1>0, <1>d, <2>1
  <2> QED
    BY <1>0, <1>p, <1>l, <1>c, <2>1, <2>2, <1>q
<1>5. ASSUME NEW s \in Session, StartReturns(s) PROVE PageInv'
  <2>1. /\ running' = running \ {s}
        /\ UNCHANGED <<live, used, cur, routes, leaving, menu, missed, handlers, closed, pending, ways, handledBy, open>>
    BY <1>5 DEF StartReturns, registry, stack
  <2> QED
    BY <1>0, <1>p, <1>l, <1>c, <2>1, <1>q
<1>6. ASSUME NEW s \in Session, NEW k \in Closer, FinishClose(s, k) PROVE PageInv'
  <2>1. /\ IF s \in live THEN Registry!Remove(s) ELSE UNCHANGED registry
        /\ handlers' = handlers \ {s} /\ pending' = [pending EXCEPT ![s] = @ \ {k}]
        /\ Pop \/ UNCHANGED <<routes, leaving, menu, missed>>
        /\ UNCHANGED <<running, closed, ways, handledBy, open>>
    BY <1>6 DEF FinishClose, stack
  <2>2. live' = live \ {s} /\ used' = used /\ cur' \in Session \cup {None}
    BY <1>0, <2>1, RemoveKeeps
  <2>3. /\ routes' \in Seq(used') /\ IsInjective(routes')
        /\ leaving' \subseteq used'
        /\ menu' \in Ft \cup {None} /\ missed' \subseteq Ft
        /\ ToSet(routes') \cup leaving' = ToSet(routes) \cup leaving
    BY <1>0, <2>1, <2>2, PopKeeps
  <2>4. /\ pending' \in [Session -> SUBSET Closer]
        /\ \A t \in Session : t # s => pending'[t] = pending[t]
    BY <1>0, <2>1
  <2> QED
    BY <1>0, <1>p, <1>l, <1>c, <2>1, <2>2, <2>3, <2>4, <1>q
<1>7. ASSUME NEW s \in Session, Dispose(s) PROVE PageInv'
  <2>1. /\ s \in leaving /\ leaving' = leaving \ {s} /\ closed' = closed \cup ({s} \cap Ft)
        /\ pending' = IF s \in closed THEN pending
                      ELSE [pending EXCEPT ![s] = @ \cup {"dispose"}]
        /\ UNCHANGED <<live, used, cur, running, routes, menu, missed, handlers, ways, handledBy, open>>
    BY <1>7 DEF Dispose, registry
  <2>2. /\ pending' \in [Session -> SUBSET Closer]
        /\ \A t \in Session : pending[t] # {} => pending'[t] # {}
        /\ s \notin closed => pending'[s] # {}
    BY <1>0, <2>1 DEF Closer
  <2> QED
    BY <1>0, <1>p, <1>l, <1>c, <2>1, <2>2, <1>q
<1>8. CASE CloseConnection
  <2>1. /\ open' \in BOOLEAN
        /\ UNCHANGED <<live, used, cur, running, routes, leaving, menu, missed, handlers, closed, pending, ways, handledBy>>
    BY <1>8 DEF CloseConnection, registry, stack
  <2> QED
    BY <1>0, <1>p, <1>l, <1>c, <2>1, <1>q
<1>9. CASE UNCHANGED vars
  <2>1. UNCHANGED <<live, used, cur, running, routes, leaving, menu, missed, handlers, closed, pending, ways, handledBy, open>>
    BY <1>9 DEF vars, registry, stack
  <2> QED
    BY <1>0, <1>p, <1>l, <1>c, <2>1, <1>q
<1>10. CASE DismissMenu \/ \E f \in Ft : OpenMenu(f)
  <2>1. /\ menu' \in Ft \cup {None}
        /\ UNCHANGED <<live, used, cur, running, routes, leaving, missed, handlers, closed, pending, ways, handledBy, open>>
    BY <1>10 DEF DismissMenu, OpenMenu, registry
  <2> QED
    BY <1>0, <1>p, <1>l, <1>c, <2>1, <1>q
<1> QED
  BY <1>1, <1>2, <1>3, <1>4, <1>5, <1>6, <1>7, <1>8, <1>9, <1>10, <1>f
     DEF Next, Step, Connect, OpenFileManager

(* No session runs on without a page, for any number of file transfers: a  *)
(* session in the Map and a registered handler have a mounted page or a    *)
(* close of theirs under way (FFI.close, file_manager_page.dart dispose()).*)
THEOREM SessionAlwaysHasPage == Spec => []SessionHasPage
<1>1. Init => PageInv
  BY PageInit
<1>2. PageInv /\ [Next]_vars => PageInv'
  BY PageStep
<1>3. PageInv => SessionHasPage
  BY DEF PageInv
<1> QED
  BY <1>1, <1>2, <1>3, PTL DEF Spec

(* Only two kinds of step hand an event to a page, and both find the       *)
(* handler of a session that is in the Map.                                *)
LEMMA DispatchStep ==
  ASSUME PageInv, [Next]_vars
  PROVE  \A p \in handledBy' \ handledBy : p[1] \in live => p[1] = p[2]
<1>1. \A s \in live : DispatchGlobalEvent(s) = {s}
  BY DEF PageInv, Listening, DispatchGlobalEvent
<1>2. CASE UNCHANGED handledBy
  BY <1>2
<1>3. ASSUME NEW s, handledBy' = handledBy \cup ({s} \X DispatchGlobalEvent(s))
      PROVE  \A p \in handledBy' \ handledBy : p[1] \in live => p[1] = p[2]
  BY <1>1, <1>3
<1>4. UNCHANGED handledBy \/ \E s : handledBy' = handledBy \cup ({s} \X DispatchGlobalEvent(s))
  <2>1. ASSUME NEW f, EndFileTransferSession(f)
        PROVE  handledBy' = handledBy \cup ({f} \X DispatchGlobalEvent(f))
    BY <2>1 DEF EndFileTransferSession
  <2>2. ASSUME NEW s, PushEvent(s)
        PROVE  handledBy' = handledBy \cup ({s} \X DispatchGlobalEvent(s))
    BY <2>2 DEF PushEvent
  <2>3. ASSUME NEW s, Connect \/ DismissMenu \/ OpenMenu(s) \/ OpenFileManager(s) \/ CloseFileTransfer(s) \/ StartReturns(s)
                      \/ (\E k \in Closer : FinishClose(s, k)) \/ Dispose(s) \/ CloseConnection
        PROVE  UNCHANGED handledBy
    BY <2>3 DEF Connect, OpenFileManager, InitPage, CloseFileTransfer, StartReturns, FinishClose,
                Dispose, CloseConnection, DismissMenu, OpenMenu
  <2>4. CASE UNCHANGED vars
    BY <2>4 DEF vars
  <2> QED
    BY <2>1, <2>2, <2>3, <2>4 DEF Next, Step
<1> QED
  BY <1>2, <1>3, <1>4

(* No page is given an event of another session that is in the Map: the    *)
(* fallback of dispatchGlobalEvent to the only handler meets only sessions *)
(* that were closed, for any number of sessions.                           *)
THEOREM EventsAlwaysKeyed == Spec => EventsKeyedBySession
<1>1. PageInv /\ [Next]_vars =>
        [\A p \in handledBy' \ handledBy : p[1] \in live => p[1] = p[2]]_vars
  BY DispatchStep
<1>2. Init => PageInv
  BY PageInit
<1>3. PageInv /\ [Next]_vars => PageInv'
  BY PageStep
<1> QED
  BY <1>1, <1>2, <1>3, PTL DEF Spec, EventsKeyedBySession

-----------------------------------------------------------------------------
(* The remote desktop's page *)

(* No file-manager page was closed in two ways. *)
Once == \A f \in Ft : \A a, b \in ways[f] : a = b

(* The FFI.close() calls of s after which a page is popped. *)
Pops(s) == pending[s] \ {"dispose"}

(* The history of the closings: a close that pops is one of its page, a    *)
(* page in the stack that was told to close was told by its back button,   *)
(* an ended session left the Map, and the remote desktop never pops.       *)
Recorded ==
  /\ \A f \in Ft : Pops(f) \subseteq ways[f]
  /\ \A f \in closed \cap Pages : "back" \in ways[f]
  /\ \A f \in Ft : "ended" \in ways[f] => f \in used \ live
  /\ Pops(Rd) = {}
  /\ leaving \cap Pages = {}

(* As long as no page was closed twice: the remote desktop's page is there *)
(* with at most one other above it, a page not told to close is in the     *)
(* stack, and so is one whose close will pop, which is then its own pop.   *)
Layered ==
  /\ Rd \in used => Rd \in Pages
  /\ \A f \in Pages \ {Rd} : Top = f
  /\ \A f \in Ft \cap used : ways[f] = {} => f \in Pages
  /\ \A f \in Ft : Pops(f) # {} => f \in Pages

StackInv == PageInv /\ Recorded /\ (Once => Layered)

(* A pop takes the visible page off the stack. *)
LEMMA PopTop ==
  ASSUME TypeOK, Pop, menu = None, routes # <<>>
  PROVE  /\ Top \in Pages /\ Pages' = Pages \ {Top} /\ leaving' = leaving \cup {Top}
<1>1. routes \in Seq(used) /\ IsInjective(routes)
  BY DEF TypeOK
<1>2. routes' = Front(routes) /\ leaving' = leaving \cup {Top} /\ Top = Last(routes)
  BY DEF Pop, Top
<1>3. /\ Last(routes) \in ToSet(routes)
      /\ ToSet(routes) = ToSet(Front(routes)) \cup {Last(routes)}
  BY <1>1, Stack
<1>4. Last(routes) \notin ToSet(Front(routes))
  BY <1>1, StackInjective
<1> QED
  BY <1>2, <1>3, <1>4 DEF Pages

(* A page is visible only if there is one. *)
LEMMA TopIsPage ==
  ASSUME TypeOK
  PROVE  /\ Top # None => routes # <<>> /\ Top \in Pages
         /\ routes = <<>> => Pages = {}
         /\ Pages \subseteq used
<1>1. routes \in Seq(used)
  BY DEF TypeOK
<1>2. ToSet(<<>>) = {}
  BY DEF ToSet
<1> QED
  BY <1>1, <1>2, Stack DEF Top, Pages

(* No page was closed twice before if none was after. *)
LEMMA OnceBefore ==
  ASSUME \A f \in Ft : ways[f] \subseteq ways'[f], Once'
  PROVE  Once
  BY DEF Once

(* What is shown of a step that takes no page off and adds none. *)
LEMMA StackKept ==
  ASSUME StackInv, PageInv', UNCHANGED <<routes, used>>,
         \A f \in Ft : ways[f] \subseteq ways'[f],
         Recorded',
         \A f \in Ft : Pops(f)' # {} => Pops(f) # {} \/ f \in Pages
  PROVE  StackInv'
<1>1. Once' => Once
  BY OnceBefore
<1>2. Pages' = Pages /\ Top' = Top /\ used' = used
  BY DEF Pages, Top
<1>3. \A f \in Ft : ways'[f] = {} => ways[f] = {}
  OBVIOUS
<1>4. Once => Layered
  BY DEF StackInv
<1>5. ASSUME Once, \A f \in Ft : Pops(f)' # {} => Pops(f) # {} \/ f \in Pages
      PROVE  Layered'
  <2>1. \A f \in Ft : Pops(f)' # {} => f \in Pages'
    BY <1>2, <1>4, <1>5 DEF Layered
  <2> QED
    BY <1>2, <1>3, <1>4, <1>5, <2>1 DEF Layered
<1> QED
  BY <1>1, <1>5 DEF StackInv

(* Initially there is no page to pop. *)
LEMMA StackInit == Init => StackInv
<1> SUFFICES ASSUME Init PROVE StackInv
  OBVIOUS
<1>1. Pages = {} /\ used = {} /\ live = {} /\ leaving = {} /\ closed = {}
  BY DEF Init, Registry!Init, Pages, ToSet
<1>2. \A s \in Session : pending[s] = {}
  BY DEF Init
<1>3. \A f \in Ft : ways[f] = {} /\ f \in Session
  BY DEF Init, Session
<1>4. Rd \in Session
  BY DEF Session
<1> QED
  BY <1>1, <1>2, <1>3, <1>4, PageInit DEF StackInv, Recorded, Layered, Pops

(* Every step keeps the stack in order. *)
LEMMA StackStep == StackInv /\ [Next]_vars => StackInv'
<1> SUFFICES ASSUME StackInv, [Next]_vars PROVE StackInv'
  OBVIOUS
<1>0. /\ PageInv /\ PageInv' /\ TypeOK /\ TypeOK' /\ Recorded /\ (Once => Layered)
  BY PageStep DEF StackInv, PageInv, SessionHasPage
<1>t. /\ live \subseteq used /\ used \subseteq Session /\ closed \subseteq Ft /\ closed \subseteq used
      /\ leaving \subseteq used /\ pending \in [Session -> SUBSET Closer]
      /\ ways \in [Ft -> SUBSET {"back", "again", "ended"}]
  BY <1>0 DEF TypeOK, PageInv, Closing
<1>f. Ft \subseteq Session /\ Rd \in Session /\ Rd \notin Ft /\ None \notin Session
  BY ViewerAssumption DEF Session
<1>r. /\ \A f \in Ft : Pops(f) \subseteq ways[f]
      /\ \A f \in closed \cap Pages : "back" \in ways[f]
      /\ \A f \in Ft : "ended" \in ways[f] => f \in used \ live
      /\ Pops(Rd) = {}
      /\ leaving \cap Pages = {}
  BY <1>0 DEF Recorded
<1>1. ASSUME NEW s \in Session, InitPage(s),
             \/ s = Rd /\ routes = <<>>
             \/ s \in Ft /\ Top = Rd
      PROVE  StackInv'
  <2>1. /\ s \notin used /\ live' = live \cup {s} /\ used' = used \cup {s}
        /\ routes' = Append(routes, s)
        /\ UNCHANGED <<leaving, closed, pending, ways>>
    BY <1>1 DEF InitPage, Registry!Add
  <2>2. Pages' = Pages \cup {s} /\ Top' = s
    <3> DEFINE U == used \cup {s}
    <3>1. routes \in Seq(U) /\ s \in U
      BY <1>0 DEF TypeOK
    <3>2. ToSet(Append(routes, s)) = ToSet(routes) \cup {s}
      BY <3>1, Push
    <3>3. Append(routes, s) # <<>> /\ Last(Append(routes, s)) = s
      BY <3>1 DEF Last
    <3> QED
      BY <2>1, <3>2, <3>3 DEF Pages, Top
  <2>3. /\ \A t : Pops(t)' = Pops(t)
        /\ Once' <=> Once
    BY <2>1 DEF Pops, Once
  <2>4. \A f \in Ft : f \in used => f # s
    BY <2>1
  <2>5. Recorded'
    BY <1>r, <1>t, <2>1, <2>2, <2>3 DEF Recorded
  <2>6. ASSUME Once PROVE Layered'
    <3>1. Layered
      BY <1>0, <2>6
    <3>2. Pages \subseteq {Rd}
      BY <1>1, <1>0, <3>1, TopIsPage DEF Layered
    <3>3. \A f \in Pages' \ {Rd} : f = s
      BY <2>2, <3>2
    <3>4. Rd \in Pages'
      BY <1>1, <1>0, <1>f, <2>2, TopIsPage
    <3>5. /\ \A f \in Ft \cap used' : ways'[f] = {} => f \in Pages'
          /\ \A f \in Ft : Pops(f)' # {} => f \in Pages'
      BY <2>1, <2>2, <2>3, <3>1 DEF Layered
    <3> QED
      BY <2>2, <3>3, <3>4, <3>5 DEF Layered
  <2> QED
    BY <1>0, <2>3, <2>5, <2>6 DEF StackInv
<1>2. ASSUME NEW f \in Ft, CloseFileTransfer(f) PROVE StackInv'
  <2>1. Top = f /\ UNCHANGED <<live, used>>
    BY <1>2 DEF CloseFileTransfer, registry
  <2>2. f \in Pages /\ routes # <<>>
    BY <1>0, <1>f, <2>1, TopIsPage
  <2>3. CASE f \in closed
    <3>1. Pop /\ ways' = [ways EXCEPT ![f] = @ \cup {"again"}] /\ UNCHANGED <<closed, pending>>
      BY <1>2, <2>3 DEF CloseFileTransfer
    <3>2. \/ Pages' = Pages \ {f} /\ leaving' = leaving \cup {f}
          \/ Pages' = Pages /\ leaving' = leaving
      <4>1. CASE menu = None
        BY <1>0, <2>1, <2>2, <3>1, <4>1, PopTop
      <4>2. CASE menu # None
        BY <3>1, <4>2 DEF Pop, Pages
      <4> QED
        BY <4>1, <4>2
    <3>3. /\ \A g \in Ft : ways[g] \subseteq ways'[g]
          /\ \A g \in Ft : "ended" \in ways'[g] => "ended" \in ways[g]
          /\ {"back", "again"} \subseteq ways'[f]
      BY <1>r, <1>t, <2>2, <2>3, <3>1
    <3>4. ~Once'
      <4>1. "back" # "again"
        OBVIOUS
      <4> QED
        BY <3>3, <4>1 DEF Once
    <3>5. \A t : Pops(t)' = Pops(t)
      BY <3>1 DEF Pops
    <3>6. Recorded'
      BY <1>r, <1>t, <2>1, <3>1, <3>2, <3>3, <3>5 DEF Recorded
    <3> QED
      BY <1>0, <3>4, <3>6 DEF StackInv
  <2>4. CASE f \notin closed
    <3>1. /\ closed' = closed \cup {f} /\ pending' = [pending EXCEPT ![f] = @ \cup {"back"}]
          /\ ways' = [ways EXCEPT ![f] = @ \cup {"back"}] /\ UNCHANGED <<routes, leaving>>
      BY <1>2, <2>4 DEF CloseFileTransfer, stack
    <3>2. /\ \A g \in Ft : ways[g] \subseteq ways'[g]
          /\ \A g \in Ft : "ended" \in ways'[g] => "ended" \in ways[g]
          /\ "back" \in ways'[f]
      BY <1>t, <3>1
    <3>3. /\ \A t \in Session \ {f} : Pops(t)' = Pops(t)
          /\ Pops(f)' = Pops(f) \cup {"back"}
      BY <1>t, <1>f, <3>1 DEF Pops
    <3>4. Pages' = Pages
      BY <3>1 DEF Pages
    <3>5. Recorded'
      BY <1>r, <1>t, <1>f, <2>1, <3>1, <3>2, <3>3, <3>4 DEF Recorded
    <3>6. \A g \in Ft : Pops(g)' # {} => Pops(g) # {} \/ g \in Pages
      BY <1>f, <2>2, <3>3
    <3> QED
      BY <1>0, <2>1, <3>1, <3>2, <3>5, <3>6, StackKept
  <2> QED
    BY <2>3, <2>4
<1>3. ASSUME NEW f \in Ft, EndFileTransferSession(f) PROVE StackInv'
  <2>1. f \in live /\ live' = live \ {f} /\ used' = used
    BY <1>3 DEF EndFileTransferSession, Registry!Remove
  <2>2. DispatchGlobalEvent(f) = {f}
    BY <1>0, <2>1 DEF PageInv, Listening, DispatchGlobalEvent
  <2>3. /\ pending' = [s \in Session |-> pending[s] \cup IF s \in {f} \cap Ft THEN {"ended"} ELSE {}]
        /\ ways' = [s \in Ft |-> ways[s] \cup IF s \in {f} THEN {"ended"} ELSE {}]
        /\ UNCHANGED <<routes, leaving, closed>>
    BY <1>3, <2>2 DEF EndFileTransferSession, stack
  <2>4. /\ \A g \in Ft : ways[g] \subseteq ways'[g]
        /\ \A g \in Ft : "ended" \in ways'[g] => "ended" \in ways[g] \/ g = f
        /\ "ended" \in ways'[f]
    BY <1>t, <2>3
  <2>5. /\ \A t \in Session \ {f} : Pops(t)' = Pops(t)
        /\ Pops(f)' = Pops(f) \cup {"ended"}
    BY <1>t, <1>f, <2>3 DEF Pops
  <2>6. Pages' = Pages
    BY <2>3 DEF Pages
  <2>7. Recorded'
    BY <1>r, <1>t, <1>f, <2>1, <2>3, <2>4, <2>5, <2>6 DEF Recorded
  <2>8. ASSUME Once' PROVE f \in Pages
    <3>1. Layered
      BY <1>0, <2>4, <2>8, OnceBefore
    <3>2. "ended" \notin ways[f] /\ f \in used
      BY <1>r, <1>t, <2>1
    <3>3. ways[f] = {}
      BY <2>4, <2>8, <3>2 DEF Once
    <3> QED
      BY <3>1, <3>2, <3>3 DEF Layered
  <2>9. CASE Once'
    <3>1. \A g \in Ft : Pops(g)' # {} => Pops(g) # {} \/ g \in Pages
      BY <1>f, <2>5, <2>8, <2>9
    <3> QED
      BY <1>0, <2>1, <2>3, <2>4, <2>7, <3>1, StackKept
  <2>10. CASE ~Once'
    BY <1>0, <2>7, <2>10 DEF StackInv
  <2> QED
    BY <2>9, <2>10
<1>4. ASSUME NEW s \in Session, NEW k \in Closer, FinishClose(s, k) PROVE StackInv'
  <2>1. /\ k \in pending[s] /\ pending' = [pending EXCEPT ![s] = @ \ {k}]
        /\ UNCHANGED <<closed, ways>>
    BY <1>4 DEF FinishClose
  <2>2. live' = live \ {s} /\ used' = used
    <3>1. IF s \in live THEN Registry!Remove(s) ELSE UNCHANGED registry
      BY <1>4 DEF FinishClose
    <3> QED
      BY <1>0, <3>1, RemoveKeeps
  <2>3. /\ \A t \in Session \ {s} : Pops(t)' = Pops(t)
        /\ Pops(s)' = Pops(s) \ {k}
    BY <1>t, <2>1 DEF Pops
  <2>4. (Once' <=> Once) /\ \A g \in Ft : ways[g] \subseteq ways'[g]
    BY <2>1 DEF Once
  <2>5. CASE UNCHANGED <<routes, leaving>>
    <3>1. Pages' = Pages
      BY <2>5 DEF Pages
    <3>2. Recorded'
      BY <1>r, <1>f, <2>1, <2>2, <2>3, <2>5, <3>1 DEF Recorded
    <3>3. \A g \in Ft : Pops(g)' # {} => Pops(g) # {} \/ g \in Pages
      BY <1>f, <2>3
    <3> QED
      BY <1>0, <2>2, <2>4, <2>5, <3>2, <3>3, StackKept
  <2>6. CASE Pop /\ k # "dispose" /\ routes # <<>> /\ menu = None
    <3>1. k \in Pops(s) /\ s \in Ft
      <4>1. k \in Pops(s)
        BY <2>1, <2>6 DEF Pops
      <4>2. s # Rd
        BY <1>r, <4>1
      <4> QED
        BY <4>1, <4>2 DEF Session
    <3>2. Top \in Pages /\ Pages' = Pages \ {Top} /\ leaving' = leaving \cup {Top}
      BY <1>0, <2>6, PopTop
    <3>3. Recorded'
      BY <1>r, <1>f, <2>1, <2>2, <2>3, <3>2 DEF Recorded
    <3>4. ASSUME Once PROVE Layered'
      <4>1. Layered
        BY <1>0, <3>4
      <4>2. s \in Pages /\ s # Rd
        BY <1>f, <3>1, <4>1 DEF Layered
      <4>3. Top = s /\ Pages' = Pages \ {s}
        BY <3>2, <4>1, <4>2 DEF Layered
      <4>4. Rd \in used' => Rd \in Pages'
        BY <2>2, <4>1, <4>2, <4>3 DEF Layered
      <4>5. Pages' \ {Rd} = {}
        BY <4>1, <4>3 DEF Layered
      <4>6. \A f \in Ft \cap used' : ways'[f] = {} => f \in Pages'
        <5>1. ways[s] # {}
          BY <1>r, <3>1
        <5> QED
          BY <2>1, <2>2, <4>1, <4>3, <5>1 DEF Layered
      <4>7. Pops(s)' = {}
        <5>1. Pops(s) \subseteq ways[s] /\ \A a, b \in ways[s] : a = b
          BY <1>r, <3>1, <3>4 DEF Once
        <5> QED
          BY <2>3, <3>1, <5>1
      <4>8. \A f \in Ft : Pops(f)' # {} => f \in Pages'
        BY <1>f, <2>3, <4>1, <4>3, <4>7 DEF Layered
      <4> QED
        BY <4>4, <4>5, <4>6, <4>8 DEF Layered
    <3> QED
      BY <1>0, <2>4, <3>3, <3>4 DEF StackInv
  <2>7. CASE Pop /\ (routes = <<>> \/ menu # None)
    <3>1. UNCHANGED <<routes, leaving>>
      BY <2>7 DEF Pop
    <3> QED
      BY <2>5, <3>1
  <2>8. (Pop /\ k # "dispose") \/ UNCHANGED <<routes, leaving>>
    BY <1>4 DEF FinishClose, stack
  <2> QED
    BY <2>5, <2>6, <2>7, <2>8
<1>5. ASSUME NEW s \in Session, Dispose(s) PROVE StackInv'
  <2>1. /\ s \in leaving /\ leaving' = leaving \ {s} /\ closed' = closed \cup ({s} \cap Ft)
        /\ pending' = IF s \in closed THEN pending
                      ELSE [pending EXCEPT ![s] = @ \cup {"dispose"}]
        /\ UNCHANGED <<live, used, routes, ways>>
    BY <1>5 DEF Dispose, registry
  <2>2. \A t \in Session : Pops(t)' = Pops(t)
    BY <1>t, <2>1 DEF Pops
  <2>3. Pages' = Pages
    BY <2>1 DEF Pages
  <2>4. Recorded'
    BY <1>r, <1>f, <2>1, <2>2, <2>3 DEF Recorded
  <2>5. \A g \in Ft : Pops(g)' # {} => Pops(g) # {} \/ g \in Pages
    BY <1>f, <2>2
  <2> QED
    BY <1>0, <2>1, <2>4, <2>5, StackKept
<1>6. ASSUME UNCHANGED <<live, used, routes, leaving, closed, pending, ways>>
      PROVE  StackInv'
  <2>1. Pages' = Pages /\ \A t : Pops(t)' = Pops(t)
    BY <1>6 DEF Pages, Pops
  <2>2. Recorded'
    BY <1>r, <1>6, <2>1 DEF Recorded
  <2> QED
    BY <1>0, <1>6, <2>1, <2>2, StackKept
<1>7. ASSUME NEW s \in Session, PushEvent(s) \/ StartReturns(s) PROVE StackInv'
  BY <1>6, <1>7 DEF PushEvent, StartReturns, registry, stack
<1>8. CASE CloseConnection \/ UNCHANGED vars
  BY <1>6, <1>8 DEF CloseConnection, vars, registry, stack
<1>9. CASE DismissMenu \/ \E f \in Ft : OpenMenu(f)
  BY <1>6, <1>9 DEF DismissMenu, OpenMenu, registry
<1> QED
  BY <1>1, <1>2, <1>3, <1>4, <1>5, <1>7, <1>8, <1>9, <1>f DEF Next, Step, Connect, OpenFileManager

(* Closing each file-manager page in one way only, by its back button or   *)
(* by the end of its session, never takes the remote desktop's page off    *)
(* the stack, for any number of pages opened one after the other.          *)
THEOREM RdAlwaysSpared == Spec => []OneClosingSparesRd
<1>1. ASSUME NEW S \in SUBSET {"back", "again", "ended"}, Cardinality(S) <= 1
      PROVE  \A a, b \in S : a = b
  <2> SUFFICES ASSUME NEW a \in S, NEW b \in S, a # b PROVE FALSE
    OBVIOUS
  <2>1. IsFiniteSet({}) /\ Cardinality({}) = 0
    BY FS_EmptySet
  <2>2. IsFiniteSet({a}) /\ Cardinality({a}) = 1
    BY FS_Singleton
  <2>3. Cardinality({a} \cup {b}) = 2
    BY <2>2, FS_AddElement
  <2>4. IsFiniteSet({"back", "again", "ended"})
    <3>1. IsFiniteSet({} \cup {"back"})
      BY <2>1, FS_AddElement
    <3>2. IsFiniteSet(({} \cup {"back"}) \cup {"again"})
      BY <3>1, FS_AddElement
    <3>3. IsFiniteSet((({} \cup {"back"}) \cup {"again"}) \cup {"ended"})
      BY <3>2, FS_AddElement
    <3>4. (({} \cup {"back"}) \cup {"again"}) \cup {"ended"} = {"back", "again", "ended"}
      OBVIOUS
    <3> QED
      BY <3>3, <3>4
  <2>5. IsFiniteSet(S)
    BY <2>4, FS_Subset
  <2>6. Cardinality({a} \cup {b}) <= Cardinality(S) /\ Cardinality(S) \in Nat
    BY <2>5, FS_Subset, FS_CardinalityType
  <2> QED
    BY <1>1, <2>3, <2>6
<1>2. Init => StackInv
  BY StackInit
<1>3. StackInv /\ [Next]_vars => StackInv'
  BY StackStep
<1>4. StackInv => OneClosingSparesRd
  <2> SUFFICES ASSUME StackInv, Rd \in used, \A f \in Ft : Cardinality(ways[f]) <= 1
               PROVE  Rd \in ToSet(routes)
    BY DEF OneClosingSparesRd
  <2>1. \A f \in Ft : ways[f] \in SUBSET {"back", "again", "ended"}
    BY DEF StackInv, PageInv, SessionHasPage, TypeOK
  <2>2. Once
    BY <1>1, <2>1 DEF Once
  <2> QED
    BY <2>2 DEF StackInv, Layered, Pages
<1> QED
  BY <1>2, <1>3, <1>4, PTL DEF Spec

-----------------------------------------------------------------------------
(* The way up: one session for a load of the popup (ViewerBootstrap), for  *)
(* any number of messages of the parent and of loads of the page.          *)

AtMostOne(S) == \A x, y \in S : x = y

(* What load n has opened or will open when the navigator is there. *)
Opened(n) == pages[n] \cup (IF n = load THEN toPush ELSE {})

(* The listener of m is in one of its three awaits. *)
Active(m) == phase[m] \in {"decrypt", "waiting", "calling"}

Single == \A n \in Load : AtMostOne(acks[n]) /\ AtMostOne(Opened(n))

(* A load to come has done nothing, nor has one that took nothing on. *)
Fresh ==
  /\ \A n \in Load : n > load => acks[n] = {} /\ pages[n] = {}
  /\ popup /\ ~started => acks[load] = {} /\ pages[load] = {} /\ toPush = {}

(* What a load opens is for its own key. *)
OwnToken ==
  /\ \A n \in Load : \A m \in Opened(n) : body[m].token = n /\ phase[m] # "unsent"
  /\ \A m \in Message : phase[m] \in {"waiting", "calling"} => body[m].token = load

(* One listener at most gets past the flag, and until it is through it has *)
(* the page to itself.                                                     *)
Taken ==
  /\ \A m, k \in Message : Active(m) /\ Active(k) => m = k
  /\ \A m \in Message : Active(m) => started /\ acks[load] = {}
  /\ \A m \in Message : phase[m] \in {"decrypt", "waiting"} => pages[load] = {} /\ toPush = {}
  /\ \A m \in Message : phase[m] = "calling" => pages[load] \subseteq {m} /\ toPush \subseteq {m}

BootInv == BootTypeOK /\ Single /\ Fresh /\ OwnToken /\ Taken

-----------------------------------------------------------------------------
(* Every action keeps the type. *)
LEMMA BootType == BootTypeOK /\ [BootNext]_bootVars => BootTypeOK'
<1> SUFFICES ASSUME BootTypeOK, [BootNext]_bootVars PROVE BootTypeOK'
  OBVIOUS
<1> USE BootstrapAssumption DEF BootTypeOK
<1>1. CASE GenerateKey
  BY <1>1 DEF GenerateKey, Load
<1>e. ASSUME NEW k \in 0..MaxReady, errors' = errors \cup {<<load, k>>}
      PROVE  errors' \subseteq (Load \X (0..MaxReady))
  <2>1. <<load, k>> \in Load \X (0..MaxReady)
    OBVIOUS
  <2> QED
    BY <2>1, <1>e
<1>2. CASE GenerateKeyFails
  <2>1. 0 \in 0..MaxReady
    OBVIOUS
  <2>2. errors' \subseteq (Load \X (0..MaxReady))
    BY <1>e, <1>2, <2>1 DEF GenerateKeyFails
  <2> QED
    BY <1>2, <2>2 DEF GenerateKeyFails
<1>3. CASE FlutterConnect
  BY <1>3 DEF FlutterConnect
<1>4. CASE FlutterNavigator
  <2>1. pages' \in [Load -> SUBSET Message]
    BY <1>4 DEF FlutterNavigator
  <2> QED
    BY <1>4, <2>1 DEF FlutterNavigator
<1>5. CASE Reload
  <2>1. load' \in Load
    BY <1>5 DEF Reload, Load
  <2>2. phase' \in [Message -> Phase]
    BY <1>5 DEF Reload, Phase
  <2> QED
    BY <1>5, <2>1, <2>2 DEF Reload
<1>a. ASSUME NEW m \in Message, NEW result \in BOOLEAN, PostAck(m, result)
      PROVE  acks' \in [Load -> SUBSET (Message \X BOOLEAN)]
  <2> DEFINE A == Message \X BOOLEAN
  <2>1. <<m, result>> \in A
    OBVIOUS
  <2>2. acks \in [Load -> SUBSET A] /\ acks' = [acks EXCEPT ![load] = @ \cup {<<m, result>>}]
    BY <1>a DEF PostAck
  <2> HIDE DEF A
  <2>3. acks' \in [Load -> SUBSET A]
    BY <2>1, <2>2
  <2> QED
    BY <2>3 DEF A
<1>f. ASSUME NEW m \in Message, Fail(m) PROVE BootTypeOK'
  <2>1. m \in 0..MaxReady
    BY DEF Message
  <2>2. errors' \subseteq (Load \X (0..MaxReady))
    BY <1>e, <1>f, <2>1 DEF Fail
  <2>3. phase' \in [Message -> Phase]
    BY <1>f DEF Fail, Phase
  <2>4. acks' \in [Load -> SUBSET (Message \X BOOLEAN)] /\ popup' \in BOOLEAN
    BY <1>a, <1>f DEF Fail, CloseAndRefuse
  <2> QED
    BY <1>f, <2>2, <2>3, <2>4 DEF Fail
<1>6. ASSUME NEW m \in Message, ParentSends(m) PROVE BootTypeOK'
  <2>1. PICK t \in 0..parentKey, u \in BOOLEAN :
          body' = [body EXCEPT ![m] = [token |-> t, uuid |-> u]]
    BY <1>6 DEF ParentSends
  <2>2. t \in 0..MaxLoads
    OBVIOUS
  <2>3. [token |-> t, uuid |-> u] \in [token : 0..MaxLoads, uuid : BOOLEAN]
    BY <2>2
  <2>4. body' \in [Message -> [token : 0..MaxLoads, uuid : BOOLEAN]]
    BY <2>1, <2>3
  <2>5. phase' \in [Message -> Phase]
    BY <1>6 DEF ParentSends, Phase
  <2> QED
    BY <1>6, <2>4, <2>5 DEF ParentSends
<1>7. ASSUME NEW m \in Message, Listener(m) PROVE BootTypeOK'
  <2>1. CASE OnReady(m)
    BY <2>1 DEF OnReady, Phase
  <2>2. CASE OnReadyWithoutKey(m)
    BY <2>2, <1>f DEF OnReadyWithoutKey
  <2>3. CASE OnReadyIgnored(m)
    BY <2>3 DEF OnReadyIgnored, Phase
  <2>4. CASE Decrypted(m)
    BY <2>4 DEF Decrypted, Phase
  <2>5. CASE DecryptFails(m)
    BY <2>5, <1>f DEF DecryptFails
  <2>6. CASE CallConnect(m)
    <3>1. toPush' \subseteq Message /\ pages' \in [Load -> SUBSET Message]
      BY <2>6 DEF CallConnect
    <3>2. phase' \in [Message -> Phase]
      BY <2>6 DEF CallConnect, Phase
    <3> QED
      BY <2>6, <3>1, <3>2 DEF CallConnect
  <2>7. CASE ConnectReturns(m)
    BY <2>7, <1>a DEF ConnectReturns, ConnectResult, Phase
  <2> QED
    BY <1>7, <2>1, <2>2, <2>3, <2>4, <2>5, <2>6, <2>7 DEF Listener
<1>8. CASE UNCHANGED bootVars
  BY <1>8 DEF bootVars
<1> QED
  BY <1>1, <1>2, <1>3, <1>4, <1>5, <1>6, <1>7, <1>8 DEF BootNext

(* The initial state satisfies the inductive invariant. *)
LEMMA BootStart == BootInit => BootInv
<1> SUFFICES ASSUME BootInit PROVE BootInv
  OBVIOUS
<1>1. BootTypeOK
  <2>1. [token |-> 0, uuid |-> FALSE] \in [token : 0..MaxLoads, uuid : BOOLEAN]
    BY BootstrapAssumption
  <2>2. load \in Load /\ parentKey \in 0..MaxLoads
    BY BootstrapAssumption DEF BootInit, Load
  <2>3. phase \in [Message -> Phase] /\ body \in [Message -> [token : 0..MaxLoads, uuid : BOOLEAN]]
    BY <2>1 DEF BootInit, Phase
  <2>4. pages \in [Load -> SUBSET Message] /\ acks \in [Load -> SUBSET (Message \X BOOLEAN)]
    BY DEF BootInit
  <2> QED
    BY <2>2, <2>3, <2>4 DEF BootInit, BootTypeOK
<1>2. /\ \A n \in Load : pages[n] = {} /\ acks[n] = {}
      /\ toPush = {} /\ load \in Load
      /\ \A m \in Message : phase[m] = "unsent"
  BY <1>1 DEF BootInit, BootTypeOK
<1> QED
  BY <1>1, <1>2
  DEF BootInv, Single, Fresh, OwnToken, Taken, Active, Opened, AtMostOne

(* Every action keeps the inductive invariant. *)
LEMMA BootStep == BootInv /\ BootNext => BootInv'
<1> SUFFICES ASSUME BootInv, BootNext PROVE BootInv'
  OBVIOUS
<1>0. BootTypeOK /\ BootTypeOK' /\ popup
  BY BootType DEF BootInv, BootNext
<1>t. /\ load \in Load /\ phase \in [Message -> Phase]
      /\ pages \in [Load -> SUBSET Message] /\ DOMAIN acks = Load /\ acks = [n \in Load |-> acks[n]]
  BY <1>0 DEF BootTypeOK
<1> USE DEF Opened, Active
<1>q. ASSUME UNCHANGED <<load, phase, body, started, toPush, pages, acks, popup>> PROVE BootInv'
  BY <1>0, <1>q DEF BootInv, Single, Fresh, OwnToken, Taken
<1>1. CASE GenerateKey \/ GenerateKeyFails \/ FlutterConnect
  BY <1>1, <1>q DEF GenerateKey, GenerateKeyFails, FlutterConnect
<1>2. CASE FlutterNavigator
  <2>1. /\ UNCHANGED <<load, phase, body, started, acks, popup>> /\ toPush' = {}
        /\ pages'[load] = pages[load] \cup toPush
        /\ \A n \in Load \ {load} : pages'[n] = pages[n]
    BY <1>2, <1>t DEF FlutterNavigator
  <2>2. \A n \in Load : Opened(n)' = Opened(n)
    BY <2>1
  <2>3. Single' /\ OwnToken'
    BY <2>1, <2>2 DEF BootInv, Single, OwnToken
  <2>4. Fresh'
    BY <1>t, <2>1 DEF BootInv, Fresh, Load
  <2>5. Taken'
    BY <2>1 DEF BootInv, Taken
  <2> QED
    BY <1>0, <2>3, <2>4, <2>5 DEF BootInv
<1>3. CASE Reload
  <2>1. /\ load' = load + 1 /\ ~started' /\ toPush' = {} /\ UNCHANGED <<body, pages, acks, popup>>
        /\ \A m \in Message : phase'[m] = IF phase[m] = "unsent" THEN "unsent" ELSE "over"
    BY <1>3 DEF Reload
  <2>2. load' \in Load /\ load \in Nat /\ \A n \in Load : n \in Nat
    BY <1>0, BootstrapAssumption DEF BootTypeOK, Load
  <2>3. /\ acks[load'] = {} /\ pages[load'] = {}
        /\ \A n \in Load : n > load' => acks[n] = {} /\ pages[n] = {}
    <3>1. \A n \in Load : n > load => acks[n] = {} /\ pages[n] = {}
      BY DEF BootInv, Fresh
    <3>2. load' > load /\ \A n \in Load : n > load' => n > load
      BY <2>1, <2>2
    <3> QED
      BY <2>2, <3>1, <3>2
  <2>4. \A n \in Load : Opened(n)' \subseteq Opened(n) /\ acks'[n] = acks[n]
    BY <2>1
  <2>5. Single'
    BY <2>4 DEF BootInv, Single, AtMostOne
  <2>6. Fresh'
    BY <2>1, <2>2, <2>3 DEF Fresh
  <2>7. OwnToken'
    BY <2>1, <2>4, <1>t DEF BootInv, OwnToken
  <2>8. Taken'
    BY <2>1 DEF Taken
  <2> QED
    BY <1>0, <2>5, <2>6, <2>7, <2>8 DEF BootInv
<1>4. ASSUME NEW m \in Message, ParentSends(m) PROVE BootInv'
  <2>1. /\ UNCHANGED <<load, started, toPush, pages, acks, popup>>
        /\ phase[m] = "unsent" /\ phase'[m] = "sent"
        /\ \A k \in Message \ {m} : phase'[k] = phase[k]
    BY <1>4, <1>t DEF ParentSends
  <2>2. \A k \in Message \ {m} : body'[k] = body[k]
    BY <1>4, <1>0 DEF ParentSends, BootTypeOK
  <2>3. \A n \in Load : m \notin Opened(n)
    BY <2>1 DEF BootInv, OwnToken
  <2>4. \A n \in Load : Opened(n) \subseteq Message
    BY <1>0 DEF BootTypeOK
  <2>5. OwnToken'
    BY <2>1, <2>2, <2>3, <2>4 DEF BootInv, OwnToken
  <2> QED
    BY <1>0, <2>1, <2>5 DEF BootInv, Single, Fresh, Taken
(* A listener moves on without posting or opening anything. *)
<1>p. ASSUME NEW m \in Message, NEW ph \in Phase, phase' = [phase EXCEPT ![m] = ph],
             UNCHANGED <<load, body, toPush, pages, acks, popup>>,
             phase[m] # "unsent", ph # "unsent", ph # "calling"
      PROVE  /\ Single'
             /\ (ph = "waiting" => body[m].token = load) => OwnToken'
             /\ \A k \in Message \ {m} : phase'[k] = phase[k]
             /\ phase'[m] = ph
  <2>1. phase'[m] = ph /\ \A k \in Message \ {m} : phase'[k] = phase[k]
    BY <1>p, <1>t
  <2>2. Single'
    BY <1>p DEF BootInv, Single
  <2>3. ASSUME ph = "waiting" => body[m].token = load PROVE OwnToken'
    <3>1. \A n \in Load : Opened(n)' = Opened(n) /\ Opened(n) \subseteq Message
      BY <1>0, <1>p DEF BootTypeOK
    <3> QED
      BY <1>p, <2>1, <2>3, <3>1 DEF BootInv, OwnToken
  <2> QED
    BY <2>1, <2>2, <2>3
(* A listener posts its answer, and no other is active. *)
<1>a. ASSUME NEW m \in Message, NEW result, PostAck(m, result), acks[load] = {},
             phase' = [phase EXCEPT ![m] = "over"], phase[m] # "unsent",
             \A k \in Message \ {m} : ~Active(k),
             UNCHANGED <<load, body, started, toPush, pages>>, started \/ ~popup', popup' => popup
      PROVE  BootInv'
  <2>1. phase'[m] = "over" /\ \A k \in Message \ {m} : phase'[k] = phase[k]
    BY <1>a, <1>t
  <2>2. acks'[load] = {<<m, result>>} /\ \A n \in Load \ {load} : acks'[n] = acks[n]
    BY <1>a, <1>t DEF PostAck
  <2>3. Single'
    BY <1>a, <2>2 DEF BootInv, Single, AtMostOne
  <2>4. Fresh'
    BY <1>a, <1>t, <2>2 DEF BootInv, Fresh, Load
  <2>5. OwnToken'
    <3>1. \A n \in Load : Opened(n)' = Opened(n) /\ Opened(n) \subseteq Message
      BY <1>0, <1>a DEF BootTypeOK
    <3> QED
      BY <1>a, <2>1, <3>1 DEF BootInv, OwnToken
  <2>6. Taken'
    BY <1>a, <2>1 DEF Taken
  <2> QED
    BY <1>0, <2>3, <2>4, <2>5, <2>6 DEF BootInv
(* A listener ends without an answer. *)
<1>s. ASSUME NEW m \in Message, phase[m] # "unsent", phase' = [phase EXCEPT ![m] = "over"],
             UNCHANGED <<load, body, started, toPush, pages, acks, popup>>
      PROVE  BootInv'
  <2>1. Single' /\ OwnToken' /\ phase'[m] = "over" /\ \A k \in Message \ {m} : phase'[k] = phase[k]
    BY <1>p, <1>s DEF Phase
  <2>2. Fresh' /\ Taken'
    BY <1>s, <2>1 DEF BootInv, Fresh, Taken
  <2> QED
    BY <1>0, <2>1, <2>2 DEF BootInv
<1>f. ASSUME NEW m \in Message, Fail(m), phase[m] # "unsent", acks[load] = {},
             \A k \in Message \ {m} : ~Active(k)
      PROVE  BootInv'
  <2>1. CASE flutter = "off"
    BY <1>s, <1>f, <2>1 DEF Fail, CloseAndRefuse
  <2>2. CASE flutter # "off"
    BY <1>a, <1>f, <2>2 DEF Fail, CloseAndRefuse
  <2> QED
    BY <2>1, <2>2
<1>5. ASSUME NEW m \in Message, OnReady(m) PROVE BootInv'
  <2>1. /\ phase[m] = "sent" /\ ~started /\ started'
        /\ phase' = [phase EXCEPT ![m] = "decrypt"]
        /\ UNCHANGED <<load, body, toPush, pages, acks, popup>>
    BY <1>5 DEF OnReady
  <2>2. Single' /\ OwnToken' /\ phase'[m] = "decrypt" /\ \A k \in Message \ {m} : phase'[k] = phase[k]
    BY <1>p, <2>1 DEF Phase
  <2>3. acks[load] = {} /\ pages[load] = {} /\ toPush = {} /\ \A k \in Message : ~Active(k)
    BY <1>0, <2>1 DEF BootInv, Fresh, Taken
  <2>4. Fresh' /\ Taken'
    BY <2>1, <2>2, <2>3 DEF BootInv, Fresh, Taken
  <2> QED
    BY <1>0, <2>2, <2>4 DEF BootInv
<1>6. ASSUME NEW m \in Message, OnReadyWithoutKey(m) PROVE BootInv'
  <2>1. acks[load] = {} /\ \A k \in Message : ~Active(k)
    BY <1>0, <1>6 DEF BootInv, Fresh, Taken, OnReadyWithoutKey
  <2> QED
    BY <1>f, <1>6, <2>1 DEF OnReadyWithoutKey
<1>7. ASSUME NEW m \in Message, OnReadyIgnored(m) PROVE BootInv'
  BY <1>s, <1>7 DEF OnReadyIgnored
<1>8. ASSUME NEW m \in Message, Decrypted(m) PROVE BootInv'
  <2>1. /\ phase[m] = "decrypt" /\ phase' = [phase EXCEPT ![m] = "waiting"]
        /\ body[m].token = load
        /\ UNCHANGED <<load, body, started, toPush, pages, acks, popup>>
    BY <1>8 DEF Decrypted
  <2>2. Single' /\ OwnToken' /\ phase'[m] = "waiting" /\ \A k \in Message \ {m} : phase'[k] = phase[k]
    BY <1>p, <2>1 DEF Phase
  <2>3. Fresh' /\ Taken'
    BY <2>1, <2>2 DEF BootInv, Fresh, Taken
  <2> QED
    BY <1>0, <2>2, <2>3 DEF BootInv
<1>9. ASSUME NEW m \in Message, DecryptFails(m) PROVE BootInv'
  <2>1. phase[m] = "decrypt" /\ Fail(m)
    BY <1>9 DEF DecryptFails
  <2>2. started /\ acks[load] = {} /\ \A k \in Message \ {m} : ~Active(k)
    BY <2>1 DEF BootInv, Taken
  <2> QED
    BY <1>f, <2>1, <2>2
<1>10. ASSUME NEW m \in Message, CallConnect(m) PROVE BootInv'
  <2>1. /\ phase[m] = "waiting" /\ UNCHANGED <<load, body, started, acks, popup>>
        /\ phase'[m] = "calling" /\ \A k \in Message \ {m} : phase'[k] = phase[k]
    BY <1>10, <1>t DEF CallConnect
  <2>2. /\ started /\ acks[load] = {} /\ \A k \in Message \ {m} : ~Active(k)
        /\ body[m].token = load /\ pages[load] = {} /\ toPush = {}
    BY <2>1 DEF BootInv, Taken, OwnToken
  <2>3. /\ toPush' \subseteq {m} /\ pages'[load] \subseteq {m}
        /\ \A n \in Load \ {load} : pages'[n] = pages[n]
    BY <1>10, <1>t, <2>2 DEF CallConnect
  <2>4. /\ Opened(load)' \subseteq {m}
        /\ \A n \in Load \ {load} : Opened(n)' = Opened(n) /\ Opened(n) \subseteq Message
    BY <1>t, <2>1, <2>3
  <2>5. Single'
    BY <2>1, <2>4 DEF BootInv, Single, AtMostOne
  <2>6. Fresh'
    BY <1>t, <2>1, <2>2, <2>3 DEF BootInv, Fresh, Load
  <2>7. OwnToken'
    BY <2>1, <2>2, <2>4 DEF BootInv, OwnToken
  <2>8. Taken'
    BY <2>1, <2>2, <2>3 DEF Taken
  <2> QED
    BY <1>0, <2>5, <2>6, <2>7, <2>8 DEF BootInv
<1>11. ASSUME NEW m \in Message, ConnectReturns(m) PROVE BootInv'
  <2>1. /\ phase[m] = "calling" /\ phase' = [phase EXCEPT ![m] = "over"]
        /\ PostAck(m, ConnectResult)
        /\ UNCHANGED <<load, body, started, toPush, pages, popup>>
    BY <1>11 DEF ConnectReturns
  <2>2. started /\ acks[load] = {} /\ \A k \in Message \ {m} : ~Active(k)
    BY <2>1 DEF BootInv, Taken
  <2> QED
    BY <1>a, <2>1, <2>2
<1> QED
  BY <1>1, <1>2, <1>3, <1>4, <1>5, <1>6, <1>7, <1>8, <1>9, <1>10, <1>11 DEF BootNext, Listener

(* A set whose elements are all the same has one at most. *)
LEMMA AtMostOneCard == ASSUME NEW S, AtMostOne(S) PROVE Cardinality(S) <= 1
<1>1. CASE S = {}
  BY <1>1, FS_EmptySet
<1>2. ASSUME NEW x \in S PROVE Cardinality(S) <= 1
  <2>1. S = {x}
    BY DEF AtMostOne
  <2>2. Cardinality({x}) = 1
    BY FS_Singleton
  <2> QED
    BY <2>1, <2>2
<1> QED
  BY <1>1, <1>2

(* However often the parent repeats REMOTE_SESSION_READY and however often *)
(* the page is reloaded, a load of the popup answers at most one message   *)
(* and opens at most one remote desktop, and with a token for its own key  *)
(* (init.js): the flag, set before the first await, and the decryption     *)
(* together see to that.                                                   *)
THEOREM OneSessionAlways == BootSpec => []OneSessionPerLoad
<1>1. BootInv => OneSessionPerLoad
  <2> SUFFICES ASSUME BootInv PROVE OneSessionPerLoad
    OBVIOUS
  <2>1. \A n \in Load : Cardinality(acks[n]) <= 1 /\ Cardinality(Opened(n)) <= 1
    BY AtMostOneCard DEF BootInv, Single
  <2>2. \A n \in Load : \A m \in pages[n] : body[m].token = n
    BY DEF BootInv, OwnToken, Opened
  <2> QED
    BY <2>1, <2>2 DEF BootInv, OneSessionPerLoad, Opened
<1>2. ASSUME BootInv, UNCHANGED bootVars PROVE BootInv'
  <2>1. /\ UNCHANGED <<load, phase, body, started, toPush, pages, acks, popup>>
        /\ BootTypeOK'
    BY <1>2, BootType DEF bootVars, BootInv
  <2> QED
    BY <1>2, <2>1 DEF BootInv, Single, Fresh, OwnToken, Taken, Opened, Active
<1>3. BootInv /\ [BootNext]_bootVars => BootInv'
  BY <1>2, BootStep
<1> QED
  BY <1>1, <1>3, BootStart, PTL DEF BootSpec
=============================================================================
