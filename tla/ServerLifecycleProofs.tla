----------------------- MODULE ServerLifecycleProofs -----------------------
(***************************************************************************)
(* Proofs about ServerLifecycle, for any number of listeners: Shutdown     *)
(* closes shutdownC once, the error of a listener that was shut down is no *)
(* failure, and ListenAndServe returns last.                               *)
(***************************************************************************)
EXTENDS ServerLifecycle, FiniteSetTheorems, TLAPS

Before == {"none", "setup", "read", "check", "close"}

\* Why a listener's error is its own: as long as it has not closed its socket
\* itself, a closed one means that shutdown holds the mutex or has set closed.
Attributed(l) ==
    /\ lpc[l] \in Before /\ conn[l] = "closed" => closed[l] \/ locked[l]
    /\ lpc[l] \in {"none", "setup", "read"} => ~err[l]
    /\ lpc[l] = "check" /\ ~fault[l] => closed[l] \/ locked[l]
    /\ lpc[l] \in {"close", "report", "ended"} /\ err[l] => fault[l]
    /\ lpc[l] \in {"report", "ended"} => conn[l] = "closed"

EndedSet == {l \in Listener : lpc[l] = "ended"}

\* How ListenAndServe knows that all listeners have ended.
Counted ==
    /\ mpc \in {"make", "failed"} => wpc = "none" /\ \A l \in Listener : lpc[l] = "none"
    /\ stopped = Cardinality(EndedSet)
    /\ mpc = "returned" => stopped = N

IInv == TypeOK /\ ClosedOnce /\ (\A l \in Listener : Attributed(l)) /\ Counted

-----------------------------------------------------------------------------
\* A server that has not started has no result.
LEMMA InitIInv == Init => IInv
<1> SUFFICES ASSUME Init PROVE IInv
    OBVIOUS
<1>1. TypeOK
    <2>1. made \in 0..N /\ stopped \in 0..N /\ closes \in Nat /\ wl \in Listener
        BY LifecycleAssumption DEF Init, Listener
    <2>2. /\ err \in [Listener -> BOOLEAN] /\ closed \in [Listener -> BOOLEAN]
          /\ locked \in [Listener -> BOOLEAN] /\ fault \in [Listener -> BOOLEAN]
          /\ shutdown \in BOOLEAN
        BY Zenon DEF Init
    <2>3. /\ lpc \in [Listener -> {"none", "setup", "read", "check", "close", "report", "ended"}]
          /\ conn \in [Listener -> {"none", "open", "closed"}]
        BY DEF Init
    <2> QED BY <2>1, <2>2, <2>3 DEF Init, TypeOK
<1>2. ClosedOnce
    BY DEF Init, ClosedOnce
<1>3. \A l \in Listener : Attributed(l)
    BY DEF Init, Attributed, Before
<1>4. EndedSet = {}
    BY DEF Init, EndedSet
<1>5. Counted
    BY <1>4, FS_EmptySet DEF Init, Counted
<1> QED BY <1>1, <1>2, <1>3, <1>5 DEF IInv

\* Every step of main, of the waiting goroutine, of a caller of Shutdown and
\* of a listener keeps the types.
LEMMA NextTypeOK == TypeOK /\ [Next]_vars => TypeOK'
<1> SUFFICES ASSUME TypeOK, [Next]_vars PROVE TypeOK'
    OBVIOUS
<1> USE LifecycleAssumption DEF TypeOK, Listener
<1>0. CloseShutdownC => shutdown' \in BOOLEAN /\ closes' \in Nat
    <2>1. CloseShutdownC => shutdown' \in BOOLEAN
        BY Zenon DEF CloseShutdownC
    <2>2. CloseShutdownC => closes' \in Nat
        BY DEF CloseShutdownC
    <2> QED BY <2>1, <2>2
<1>1. CASE Main
    <2>1. CASE MakeListener
        BY <2>1 DEF MakeListener, waitVars, downVars
    <2>2. CASE Start
        BY <2>2 DEF Start, downVars
    <2>3. CASE ShutdownAll
        BY <2>3, <1>0 DEF ShutdownAll, waitVars, lisVars
    <2>4. CASE Return
        BY <2>4 DEF Return, waitVars, downVars, lisVars
    <2> QED BY <1>1, <2>1, <2>2, <2>3, <2>4 DEF Main
<1>2. CASE Waiter
    <2>1. CASE Wake
        BY <2>1 DEF Wake, mainVars, downVars, lisVars
    <2>2. CASE CloseConn
        BY <2>2 DEF CloseConn, mainVars, downVars
    <2>3. CASE SetClosed
        BY <2>3 DEF SetClosed, NextListener, mainVars, downVars
    <2> QED BY <1>2, <2>1, <2>2, <2>3 DEF Waiter
<1>3. CASE Shutdown \/ MakeFails
    <2>1. CASE Shutdown
        BY <2>1, <1>0 DEF Shutdown, mainVars, waitVars, lisVars
    <2>2. CASE MakeFails
        BY <2>2 DEF MakeFails, waitVars, downVars, lisVars
    <2> QED BY <1>3, <2>1, <2>2
<1>4. ASSUME NEW l \in Listener, Serving(l) PROVE TypeOK'
    BY <1>4 DEF Serving, SetUp, ReadClosed, Check, IsClosed, CloseOwn,
                mainVars, downVars, waitVars
<1>5. ASSUME NEW l \in Listener, Result(l) PROVE TypeOK'
    BY <1>5 DEF Result, AfterResult, downVars, waitVars
<1>6. ASSUME NEW l \in Listener, SetUpFails(l) \/ SkipSetUp(l) \/ ReadFails(l)
      PROVE  TypeOK'
    BY <1>6 DEF SetUpFails, SkipSetUp, ReadFails, mainVars, downVars, waitVars
<1>7. CASE UNCHANGED vars
    BY <1>7 DEF vars, mainVars, downVars, waitVars, lisVars
<1> QED BY <1>1, <1>2, <1>3, <1>4, <1>5, <1>6, <1>7 DEF Next

\* Only Shutdown and ShutdownAll touch shutdownC, and both look at the flag.
LEMMA NextClosedOnce == TypeOK /\ ClosedOnce /\ [Next]_vars => ClosedOnce'
<1> SUFFICES ASSUME TypeOK, ClosedOnce, [Next]_vars PROVE ClosedOnce'
    OBVIOUS
<1>1. ASSUME CloseShutdownC PROVE ClosedOnce'
    BY <1>1 DEF CloseShutdownC, ClosedOnce, TypeOK
<1>2. ASSUME UNCHANGED downVars PROVE ClosedOnce'
    BY <1>2 DEF downVars, ClosedOnce
<1>3. CloseShutdownC \/ UNCHANGED downVars
    BY DEF Next, Main, Waiter, Serving, Shutdown, MakeFails, MakeListener, Start,
           ShutdownAll, Return, Wake, CloseConn, SetClosed, SetUp, ReadClosed, Check,
           CloseOwn, Result, SetUpFails, SkipSetUp, ReadFails, vars
<1> QED BY <1>1, <1>2, <1>3

\* No step of any goroutine blames a listener for the close of its socket.
LEMMA NextAttributed ==
    ASSUME IInv, [Next]_vars, NEW l \in Listener
    PROVE  Attributed(l)'
<1> USE DEF IInv, TypeOK, Attributed, Before
<1>1. CASE Main
    <2>1. CASE MakeListener
        BY <2>1 DEF MakeListener, Counted, downVars, waitVars
    <2>2. CASE Start
        BY <2>2 DEF Start, Counted, downVars
    <2>3. CASE ShutdownAll \/ Return
        BY <2>3 DEF ShutdownAll, Return, waitVars, lisVars, downVars
    <2> QED BY <1>1, <2>1, <2>2, <2>3 DEF Main
<1>2. CASE Waiter
    BY <1>2 DEF Waiter, Wake, CloseConn, SetClosed, mainVars, downVars, lisVars
<1>3. CASE Shutdown \/ MakeFails
    BY <1>3 DEF Shutdown, MakeFails, mainVars, waitVars, downVars, lisVars
<1>4. ASSUME NEW k \in Listener, Serving(k) PROVE Attributed(l)'
    BY <1>4 DEF Serving, SetUp, ReadClosed, Check, IsClosed, CloseOwn,
                mainVars, downVars, waitVars
<1>5. ASSUME NEW k \in Listener, Result(k) PROVE Attributed(l)'
    BY <1>5 DEF Result, downVars, waitVars
<1>6. ASSUME NEW k \in Listener, SetUpFails(k) \/ SkipSetUp(k) \/ ReadFails(k)
      PROVE  Attributed(l)'
    BY <1>6 DEF SetUpFails, SkipSetUp, ReadFails, mainVars, downVars, waitVars
<1>7. CASE UNCHANGED vars
    BY <1>7 DEF vars, lisVars
<1> QED BY <1>1, <1>2, <1>3, <1>4, <1>5, <1>6, <1>7 DEF Next

\* The result received is that of a listener that had not ended.
LEMMA NextCounted ==
    ASSUME IInv, [Next]_vars
    PROVE  Counted'
<1> USE DEF IInv, TypeOK
<1>1. IsFiniteSet(EndedSet)
    BY LifecycleAssumption, FS_Interval, FS_Subset DEF Listener, EndedSet
<1>2. CASE Main
    <2>1. EndedSet' = EndedSet
        BY <1>2 DEF Main, MakeListener, Start, ShutdownAll, Return, lisVars, EndedSet, Counted
    <2> QED BY <1>2, <2>1 DEF Main, MakeListener, Start, ShutdownAll, Return,
                              lisVars, waitVars, Counted
<1>3. CASE Waiter \/ Shutdown \/ MakeFails \/ UNCHANGED vars
    <2>1. EndedSet' = EndedSet
        BY <1>3 DEF Waiter, Wake, CloseConn, SetClosed, Shutdown, MakeFails, vars,
                    lisVars, EndedSet
    <2> QED BY <1>3, <2>1 DEF Waiter, Wake, CloseConn, SetClosed, Shutdown, MakeFails,
                              vars, mainVars, waitVars, lisVars, Counted
<1>4. ASSUME NEW l \in Listener,
             Serving(l) \/ SetUpFails(l) \/ SkipSetUp(l) \/ ReadFails(l)
      PROVE  Counted'
    <2>1. EndedSet' = EndedSet
        BY <1>4 DEF Serving, SetUp, ReadClosed, Check, CloseOwn, SetUpFails,
                    SkipSetUp, ReadFails, EndedSet
    <2> QED BY <1>4, <2>1 DEF Serving, SetUp, ReadClosed, Check, CloseOwn, SetUpFails,
                              SkipSetUp, ReadFails, mainVars, waitVars, Counted
<1>5. ASSUME NEW l \in Listener, Result(l) PROVE Counted'
    <2>1. EndedSet' = EndedSet \cup {l} /\ l \notin EndedSet
        BY <1>5 DEF Result, EndedSet
    <2>2. stopped' = Cardinality(EndedSet')
        BY <1>1, <1>5, <2>1, FS_AddElement DEF Result, Counted
    <2> QED BY <1>5, <2>2 DEF Result, AfterResult, Counted
<1> QED BY <1>2, <1>3, <1>4, <1>5 DEF Next

\* IInv is an invariant.
LEMMA Invariant == Spec => []IInv
<1>1. IInv /\ [Next]_vars => IInv'
    BY NextTypeOK, NextClosedOnce, NextAttributed, NextCounted DEF IInv, Listener
<1> QED BY <1>1, InitIInv, PTL DEF Spec

-----------------------------------------------------------------------------
\* The types of the goroutines' state (server.go).
THEOREM LifecycleTypeCorrect == Spec => []TypeOK
<1>1. IInv => TypeOK
    BY DEF IInv
<1> QED BY <1>1, Invariant, PTL

\* However many listeners fail and whoever calls Shutdown, shutdownC is closed
\* once (Shutdown).
THEOREM ShutdownClosesOnce == Spec => []ClosedOnce
<1>1. IInv => ClosedOnce
    BY DEF IInv
<1> QED BY <1>1, Invariant, PTL

\* A listener that only read from its closed socket reports no error
\* (listenAndServe, shutdown and isClosed).
THEOREM StoppedIsNoError == Spec => []NoSpuriousError
<1>1. IInv => NoSpuriousError
    BY DEF IInv, Attributed, NoSpuriousError
<1> QED BY <1>1, Invariant, PTL

\* ListenAndServe returns after the last listener, with every socket closed.
THEOREM ListenAndServeReturnsLast == Spec => []ReturnsLast
<1>1. ASSUME IInv PROVE ReturnsLast
    <2>1. SUFFICES ASSUME mpc = "returned" PROVE EndedSet = Listener
        BY <1>1 DEF IInv, Attributed, ReturnsLast, EndedSet
    <2>2. IsFiniteSet(Listener) /\ Cardinality(Listener) = N
        BY LifecycleAssumption, FS_Interval DEF Listener
    <2>3. EndedSet \subseteq Listener
        BY DEF EndedSet
    <2>4. Cardinality(EndedSet) = N
        BY <1>1, <2>1 DEF IInv, Counted
    <2> QED BY <2>2, <2>3, <2>4, FS_Subset
<1> QED BY <1>1, Invariant, PTL
=============================================================================
