------------------------------- MODULE Server -------------------------------
(***************************************************************************)
(* The process: how main starts it, serves requests and ends, next to the  *)
(* goroutine that waits for a signal, the one that watches the grace       *)
(* period, the requests of clients and the warm-up of the organizations.   *)
(*                                                                         *)
(* Time is abstract: the 30 s of the grace period and the 60 s a request   *)
(* may take end at any moment.                                             *)
(***************************************************************************)
EXTENDS Organizations

VARIABLES main,    \* where main is: "start", "built", "notified", "serving" or "closed"
          shut,    \* where the shutdown is: "signal", "grace", "draining", "drained" or "stopped"
          ctx,     \* shutdownCtx: "none", "live", "deadline" or "canceled"
          pending, \* a signal is in the channel, which holds one
          exit     \* how the process ended: "no", "ok", "fatal" or "killed"

procVars == <<main, shut, ctx, pending, exit>>
vars     == <<orgVars, procVars>>

Init ==
    /\ OrgInit
    /\ main = "start" /\ shut = "signal" /\ ctx = "none"
    /\ pending = FALSE /\ exit = "no"

Runs         == exit = "no"
Exits(how)   == exit' = how
ShuttingDown == shut \in {"draining", "drained", "stopped"}
Active(c)    == pc[c] \notin {"idle", "done"}

-----------------------------------------------------------------------------
(* The start.                                                              *)

\* log.Fatal: no namespace or no cluster.
StartFails ==
    /\ main = "start"
    /\ Exits("fatal")
    /\ UNCHANGED <<orgVars, main, shut, ctx, pending>>

\* BuildHandler makes the services, and that of the organizations starts its warm-up.
Build ==
    /\ main = "start" /\ main' = "built"
    /\ warm' = "list"
    /\ UNCHANGED <<unread, cache, flight, goVars, shut, ctx, pending, exit>>

\* signal.Notify; the goroutine that waits for a signal starts.
Notify ==
    /\ main = "built" /\ main' = "notified"
    /\ UNCHANGED <<orgVars, shut, ctx, pending, exit>>

\* ListenAndServe has its port.
Listen ==
    /\ main = "notified" /\ main' = "serving"
    /\ UNCHANGED <<orgVars, shut, ctx, pending, exit>>

\* log.Fatal: it does not get the port, or an error other than http.ErrServerClosed ends
\* its listening, whoever is being served; once Shutdown is called there is no other.
ListenFails ==
    /\ main = "notified" \/ (main = "serving" /\ ~ShuttingDown)
    /\ Exits("fatal")
    /\ UNCHANGED <<orgVars, main, shut, ctx, pending>>

-----------------------------------------------------------------------------
(* The end.                                                                *)

\* A signal: before signal.Notify it kills; then it waits in the channel, and one
\* that finds another there is lost.
Signal ==
    /\ IF main \in {"start", "built"}
       THEN Exits("killed") /\ UNCHANGED pending
       ELSE pending' = TRUE /\ UNCHANGED exit
    /\ UNCHANGED <<orgVars, main, shut, ctx>>

\* The first is taken from it: the grace period and its watcher begin.
TakeSignal ==
    /\ shut = "signal" /\ pending
    /\ shut' = "grace" /\ ctx' = "live" /\ pending' = FALSE
    /\ UNCHANGED <<orgVars, main, exit>>

\* server.Shutdown: from here on no request comes in.
Shutdown ==
    /\ shut = "grace" /\ shut' = "draining"
    /\ UNCHANGED <<orgVars, main, ctx, pending, exit>>

\* Mutant of Deadline: the context of the shutdown has no deadline.
NoDeadline == FALSE /\ UNCHANGED vars

\* The grace period is over.
Deadline ==
    /\ ctx = "live" /\ ctx' = "deadline"
    /\ UNCHANGED <<orgVars, main, shut, pending, exit>>

\* Shutdown finds no request at work and returns.
Drained ==
    /\ shut = "draining" /\ shut' = "drained"
    /\ \A c \in Callers : ~Active(c)
    /\ UNCHANGED <<orgVars, main, ctx, pending, exit>>

\* Then, too, it returns the error it had, if any, when it closed the listener: log.Fatal.
ShutdownFails ==
    /\ shut = "draining"
    /\ \A c \in Callers : ~Active(c)
    /\ Exits("fatal")
    /\ UNCHANGED <<orgVars, main, shut, ctx, pending>>

\* Mutant of ShutdownTimesOut: the watcher does not ask why the context is done.
ContextDone ==
    /\ ctx \in {"deadline", "canceled"}
    /\ Exits("fatal")
    /\ UNCHANGED <<orgVars, main, shut, ctx, pending>>

\* The watcher sees that the deadline is exceeded, or Shutdown returns that it is:
\* log.Fatal either way.
ShutdownTimesOut ==
    /\ ctx = "deadline"
    /\ Exits("fatal")
    /\ UNCHANGED <<orgVars, main, shut, ctx, pending>>

\* serverStopCtx, which cancels shutdownCtx too.
Stop ==
    /\ shut = "drained" /\ shut' = "stopped"
    /\ ctx' = IF ctx = "live" THEN "canceled" ELSE ctx
    /\ UNCHANGED <<orgVars, main, pending, exit>>

\* ListenAndServe returns http.ErrServerClosed as soon as Shutdown is called, or at
\* once when it was called before.
ServerClosed ==
    /\ main \in {"notified", "serving"} /\ main' = "closed"
    /\ ShuttingDown
    /\ UNCHANGED <<orgVars, shut, ctx, pending, exit>>

\* Mutant of Return: main does not wait for serverCtx.
ReturnAtOnce ==
    /\ main = "closed"
    /\ Exits("ok")
    /\ UNCHANGED <<orgVars, main, shut, ctx, pending>>

\* main waits until serverCtx is stopped, and returns.
Return ==
    /\ main = "closed" /\ shut = "stopped"
    /\ Exits("ok")
    /\ UNCHANGED <<orgVars, main, shut, ctx, pending>>

-----------------------------------------------------------------------------
\* A request is taken while the server listens.
Serve(c, s) ==
    /\ main = "serving" /\ ~ShuttingDown
    /\ Request(c, s)
    /\ UNCHANGED procVars

MainSteps == StartFails \/ Build \/ Notify \/ Listen \/ ListenFails \/ ServerClosed \/ Return
ShutSteps == TakeSignal \/ Shutdown \/ Deadline \/ Drained \/ ShutdownFails \/ ShutdownTimesOut \/ Stop

Next ==
    /\ Runs
    /\ \/ MainSteps \/ ShutSteps \/ Signal
       \/ \E c \in Callers, s \in Servers : Serve(c, s)
       \/ OrgNext /\ UNCHANGED procVars

Spec == Init /\ [][Next]_vars

\* The goroutines of the process go on while it runs; the grace period and the time
\* of a request end, those of the warm-up need not.
FairSpec ==
    /\ Spec
    /\ WF_vars(Runs /\ (ServerClosed \/ Return))
    /\ WF_vars(Runs /\ (TakeSignal \/ Shutdown \/ Drained \/ ShutdownFails \/ Stop))
    /\ WF_vars(Runs /\ Deadline)
    /\ WF_vars(Runs /\ ShutdownTimesOut)
    /\ \A c \in Callers : WF_vars(Runs /\ GetSettings(c) /\ UNCHANGED procVars)
    /\ \A g \in Goroutines : WF_vars(Runs /\ GoSteps(g) /\ UNCHANGED procVars)
    /\ \A s \in Servers :
          /\ WF_vars(Runs /\ Bounded(s) /\ ReadSteps(s) /\ UNCHANGED procVars)
          /\ WF_vars(Runs /\ FetchDone(s) /\ UNCHANGED procVars)

-----------------------------------------------------------------------------
(* Properties.                                                             *)

\* Every variable keeps its type.
TypeOK ==
    /\ OrgTypeOK
    /\ main \in {"start", "built", "notified", "serving", "closed"}
    /\ shut \in {"signal", "grace", "draining", "drained", "stopped"}
    /\ ctx \in {"none", "live", "deadline", "canceled"}
    /\ pending \in BOOLEAN
    /\ exit \in {"no", "ok", "fatal", "killed"}

\* A process that ends with 0 has answered every request it took.
CleanExit == exit = "ok" => \A c \in Callers : ~Active(c)

\* While a shutdown has time left, log.Fatal cuts off no request: a listener that fails
\* ends the process only when the last is answered.  And a shutdown that was done in
\* time is not taken for one that was not, though its context is done as well; it can
\* end by force only where it came before main had its port.
ForcedForCause ==
    exit = "fatal" /\ ShuttingDown /\ ctx # "deadline" =>
        /\ \A c \in Callers : ~Active(c)
        /\ shut # "draining" => main = "notified"

\* A signal ends the process, whatever the requests at work do.
ShutdownEnds == pending ~> ~Runs

\* The read it waits for was begun by the warm-up.
WaitsForWarmup(c) ==
    pc[c] = "waiting" /\ flight[server[c]] # None /\ flight[server[c]].by \in Servers

\* A client is answered or the process ends, but when it waits for a read that the
\* warm-up began: that has no deadline, and waiting for it has none either.
Answered == \A c \in Callers : Active(c) ~> ~Active(c) \/ WaitsForWarmup(c) \/ ~Runs
=============================================================================
