-------------------------- MODULE ServerLifecycle --------------------------
(***************************************************************************)
(* The goroutines of a server and how they stop (server.go): the one that  *)
(* calls ListenAndServe, one per listener, the one that waits on shutdownC *)
(* and closes the listeners, and whoever calls Shutdown (a signal handler  *)
(* in irtt_server.go).                                                     *)
(*                                                                         *)
(* Handling a packet changes nothing here; what it does is in Server.tla.  *)
(***************************************************************************)
EXTENDS Integers, FiniteSets

CONSTANT N               \* number of addresses to listen on

ASSUME LifecycleAssumption == N \in Nat \ {0}

Listener == 1..N

VARIABLES
    mpc,         \* ListenAndServe: "make", "start", "wait", "shutdown", ...
    made,        \* number of listeners made by makeListeners
    stopped,     \* number of results received from errC
    shutdown,    \* Server.shutdown
    closes,      \* how often shutdownC was closed (a second time panics)
    wpc,         \* goroutine waiting on shutdownC
    wl,          \* the listener it is shutting down
    lpc,         \* listener goroutines
    err,         \* whether listenAndServe of the listener returns an error
    conn,        \* the listener's socket: "none", "open" or "closed"
    closed,      \* listener.closed
    locked,      \* listener.closedMtx, held by shutdown
    fault        \* history: an error other than reading a closed socket

mainVars == <<mpc, made, stopped>>
downVars == <<shutdown, closes>>
waitVars == <<wpc, wl>>
lisVars  == <<lpc, err, conn, closed, locked, fault>>
vars == <<mainVars, downVars, waitVars, lisVars>>

-----------------------------------------------------------------------------
(* Shutdown, which is one critical section of shutdownMtx                  *)

\* Mutant of CloseShutdownC: the flag is not looked at.
CloseAgain == shutdown' = TRUE /\ closes' = closes + 1

CloseShutdownC ==
    /\ shutdown' = TRUE
    /\ closes' = IF shutdown THEN closes ELSE closes + 1

\* A caller outside the server, at any time.
Shutdown ==
    /\ ~shutdown
    /\ CloseShutdownC
    /\ UNCHANGED <<mainVars, waitVars, lisVars>>

-----------------------------------------------------------------------------
(* ListenAndServe                                                          *)

MakeListener ==
    /\ mpc = "make" /\ made < N
    /\ made' = made + 1
    /\ conn' = [conn EXCEPT ![made + 1] = "open"]
    /\ UNCHANGED <<mpc, stopped, downVars, waitVars, lpc, err, closed, locked, fault>>

\* An address cannot be listened on: ListenAndServe returns the error.
MakeFails ==
    /\ mpc = "make" /\ made < N
    /\ mpc' = "failed"
    /\ UNCHANGED <<made, stopped, downVars, waitVars, lisVars>>

\* Both go statements.
Start ==
    /\ mpc = "make" /\ made = N
    /\ mpc' = "wait"
    /\ lpc' = [l \in Listener |-> "setup"]
    /\ wpc' = "wait"
    /\ UNCHANGED <<made, stopped, downVars, wl, err, conn, closed, locked, fault>>

\* Mutants of AfterResult: an error of a listener is ignored; or returned at
\* once, as the error of makeListeners is.
IgnoreResult(e) == "wait"
ReturnResult(e) == IF e THEN "returned" ELSE "wait"

\* What ListenAndServe does next when it received e from errC.
AfterResult(e) == IF e THEN "shutdown" ELSE "wait"

\* <-errC, together with errC <- of listener l: the channel has no buffer.
Result(l) ==
    /\ mpc = "wait" /\ stopped < N
    /\ lpc[l] = "report"
    /\ lpc' = [lpc EXCEPT ![l] = "ended"]
    /\ stopped' = stopped + 1
    /\ mpc' = AfterResult(err[l])
    /\ UNCHANGED <<made, downVars, waitVars, err, conn, closed, locked, fault>>

ShutdownAll ==
    /\ mpc = "shutdown"
    /\ CloseShutdownC
    /\ mpc' = "wait"
    /\ UNCHANGED <<made, stopped, waitVars, lisVars>>

Return ==
    /\ mpc = "wait" /\ stopped = N
    /\ mpc' = "returned"
    /\ UNCHANGED <<made, stopped, downVars, waitVars, lisVars>>

-----------------------------------------------------------------------------
(* The goroutine that waits on shutdownC                                   *)

Wake ==
    /\ wpc = "wait" /\ closes > 0
    /\ wpc' = "lock"
    /\ UNCHANGED <<mainVars, downVars, wl, lisVars>>

\* Mutant of NextListener: one more round of the loop.
NextListenerPast ==
    IF wl <= N THEN wl' = wl + 1 /\ wpc' = "lock" ELSE wl' = wl /\ wpc' = "ended"

NextListener ==
    IF wl < N THEN wl' = wl + 1 /\ wpc' = "lock" ELSE wl' = wl /\ wpc' = "ended"

\* listener.shutdown: lock, and close the socket.
CloseConn ==
    /\ wpc = "lock"
    /\ conn' = [conn EXCEPT ![wl] = "closed"]
    /\ locked' = [locked EXCEPT ![wl] = TRUE]
    /\ wpc' = "set"
    /\ UNCHANGED <<mainVars, downVars, wl, lpc, err, closed, fault>>

\* Set closed, and unlock.
SetClosed ==
    /\ wpc = "set"
    /\ closed' = [closed EXCEPT ![wl] = TRUE]
    /\ locked' = [locked EXCEPT ![wl] = FALSE]
    /\ NextListener
    /\ UNCHANGED <<mainVars, downVars, lpc, err, conn, fault>>

-----------------------------------------------------------------------------
(* listenAndServe of a listener                                            *)

\* Socket options are set; this fails on a closed socket, or by itself, and
\* the error is returned as it is.
SetUp(l) ==
    /\ lpc[l] = "setup" /\ conn[l] = "open"
    /\ lpc' = [lpc EXCEPT ![l] = "read"]
    /\ UNCHANGED <<mainVars, downVars, waitVars, err, conn, closed, locked, fault>>

SetUpFails(l) ==
    /\ lpc[l] = "setup"
    /\ lpc' = [lpc EXCEPT ![l] = "close"]
    /\ err' = [err EXCEPT ![l] = TRUE]
    /\ fault' = [fault EXCEPT ![l] = TRUE]
    /\ UNCHANGED <<mainVars, downVars, waitVars, conn, closed, locked>>

\* With no option to set, a closed socket is only noticed when it is read.
SkipSetUp(l) ==
    /\ lpc[l] = "setup" /\ conn[l] = "closed"
    /\ lpc' = [lpc EXCEPT ![l] = "read"]
    /\ UNCHANGED <<mainVars, downVars, waitVars, err, conn, closed, locked, fault>>

\* readAndReply returns a fatal error: that of a read or of a send, on an open
\* socket, or of either, because the socket was closed.
ReadFails(l) ==
    /\ lpc[l] = "read" /\ conn[l] = "open"
    /\ lpc' = [lpc EXCEPT ![l] = "check"]
    /\ err' = [err EXCEPT ![l] = TRUE]
    /\ fault' = [fault EXCEPT ![l] = TRUE]
    /\ UNCHANGED <<mainVars, downVars, waitVars, conn, closed, locked>>

ReadClosed(l) ==
    /\ lpc[l] = "read" /\ conn[l] = "closed"
    /\ lpc' = [lpc EXCEPT ![l] = "check"]
    /\ err' = [err EXCEPT ![l] = TRUE]
    /\ UNCHANGED <<mainVars, downVars, waitVars, conn, closed, locked, fault>>

\* Mutant of IsClosed: it is read without the mutex.
IsClosedUnlocked(l) ==
    err' = [err EXCEPT ![l] = err[l] /\ ~closed[l]]

\* isClosed: an error is none if the listener was shut down.
IsClosed(l) ==
    /\ ~locked[l]
    /\ err' = [err EXCEPT ![l] = err[l] /\ ~closed[l]]

Check(l) ==
    /\ lpc[l] = "check"
    /\ IsClosed(l)
    /\ lpc' = [lpc EXCEPT ![l] = "close"]
    /\ UNCHANGED <<mainVars, downVars, waitVars, conn, closed, locked, fault>>

\* The deferred close of the socket.
CloseOwn(l) ==
    /\ lpc[l] = "close"
    /\ conn' = [conn EXCEPT ![l] = "closed"]
    /\ lpc' = [lpc EXCEPT ![l] = "report"]
    /\ UNCHANGED <<mainVars, downVars, waitVars, err, closed, locked, fault>>

-----------------------------------------------------------------------------
Init ==
    /\ mpc = "make" /\ made = 0 /\ stopped = 0
    /\ shutdown = FALSE /\ closes = 0
    /\ wpc = "none" /\ wl = 1
    /\ lpc = [l \in Listener |-> "none"]
    /\ err = [l \in Listener |-> FALSE]
    /\ conn = [l \in Listener |-> "none"]
    /\ closed = [l \in Listener |-> FALSE]
    /\ locked = [l \in Listener |-> FALSE]
    /\ fault = [l \in Listener |-> FALSE]

Main == MakeListener \/ Start \/ ShutdownAll \/ Return
Waiter == Wake \/ CloseConn \/ SetClosed
Serving(l) == SetUp(l) \/ ReadClosed(l) \/ Check(l) \/ CloseOwn(l)

Next ==
    \/ Main \/ Waiter \/ Shutdown \/ MakeFails
    \/ \E l \in Listener :
        Serving(l) \/ Result(l) \/ SetUpFails(l) \/ SkipSetUp(l) \/ ReadFails(l)

\* Every goroutine that can take a step takes one in the end: the Go scheduler
\* starves none.  Errors and calls of Shutdown may never come.
Fairness ==
    /\ WF_vars(Main) /\ WF_vars(Waiter)
    /\ \A l \in Listener :
        /\ WF_vars(Serving(l) \/ SetUpFails(l) \/ SkipSetUp(l))
        /\ WF_vars(Result(l))

Spec == Init /\ [][Next]_vars /\ Fairness

-----------------------------------------------------------------------------
(* Properties                                                              *)

TypeOK ==
    /\ mpc \in {"make", "failed", "wait", "shutdown", "returned"}
    /\ made \in 0..N /\ stopped \in 0..N
    /\ shutdown \in BOOLEAN /\ closes \in Nat
    /\ wpc \in {"none", "wait", "lock", "set", "ended"} /\ wl \in Listener
    /\ lpc \in [Listener -> {"none", "setup", "read", "check", "close", "report", "ended"}]
    /\ err \in [Listener -> BOOLEAN]
    /\ conn \in [Listener -> {"none", "open", "closed"}]
    /\ closed \in [Listener -> BOOLEAN] /\ locked \in [Listener -> BOOLEAN]
    /\ fault \in [Listener -> BOOLEAN]

\* shutdownC is closed once, although a signal and several failing listeners
\* may all call Shutdown: closing it again would panic.
ClosedOnce == closes <= 1 /\ (shutdown <=> closes = 1)

\* When ListenAndServe returns, every listener goroutine has ended and no
\* socket is open: it waits for N results, and each comes after the socket's
\* deferred close.
ReturnsLast ==
    mpc = "returned" =>
        \A l \in Listener : lpc[l] = "ended" /\ conn[l] = "closed"

\* A listener stopped by Shutdown while it reads packets reports no error: the
\* error of its closed socket is not taken for a failure, since closed is set
\* in the critical section that closes the socket.
NoSpuriousError ==
    \A l \in Listener :
        lpc[l] \in {"close", "report", "ended"} /\ err[l] => fault[l]

\* Once the listeners run, a call of Shutdown, or a failure of one listener,
\* stops all of them: ListenAndServe returns and no goroutine is left behind.
StopsAll ==
    mpc \in {"wait", "shutdown"} /\ (shutdown \/ \E l \in Listener : lpc[l] = "report" /\ err[l])
        ~> mpc = "returned" /\ wpc = "ended"
=============================================================================
