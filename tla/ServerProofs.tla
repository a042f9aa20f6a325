---------------------------- MODULE ServerProofs ----------------------------
(***************************************************************************)
(* Theorems about Server and the Organizations that it extends, for any    *)
(* set of git servers, any number of clients and of pages.                 *)
(***************************************************************************)
EXTENDS Server, TLAPS

-----------------------------------------------------------------------------
(* The organizations.                                                      *)

\* A listing that goes on has pages left, one that was read to its end has none.
Counted ==
    \A s \in Servers : flight[s] # None =>
        /\ flight[s].organizations = "reading" => flight[s].pages < LastPage(s)
        /\ flight[s].organizations = "read"    => flight[s].pages = LastPage(s)

OrgInv == OrgTypeOK /\ Counted /\ WholeLists

\* A request, or a step of the organizations that goes on by itself.
OrgStep == OrgNext \/ \E c \in Callers, s \in Servers : Request(c, s)

LEMMA LastPageType == \A s \in Servers : LastPage(s) \in 1..Pages
  BY OrganizationsAssumption DEF LastPage

LEMMA WholeType == \A s \in Servers : Whole(s) \in Lists /\ Whole(s) \notin {None, Failed}
  <1> SUFFICES ASSUME NEW s \in Servers
               PROVE  Whole(s) \in Lists /\ Whole(s) \notin {None, Failed}
    OBVIOUS
  <1>1. LastPage(s) \in 0..Pages
    BY LastPageType
  <1>2. HasUser(s) \in BOOLEAN
    BY DEF HasUser
  <1>3. Whole(s) \in [user : BOOLEAN, pages : 0..Pages]
    BY <1>1, <1>2, Zenon DEF Whole
  <1> QED
    BY <1>3, OrganizationsAssumption, Zenon DEF Lists

\* A fetch at work, and what a step makes of it.
LEMMA FlightType ==
    ASSUME OrgTypeOK, NEW s \in Servers, flight[s] # None
    PROVE  /\ flight[s] \in Flights
           /\ flight[s].user \in Progress /\ flight[s].organizations \in Progress
           /\ flight[s].pages \in 0..Pages /\ flight[s].by \in Goroutines
  <1>1. flight[s] \in Flights
    BY DEF OrgTypeOK
  <1> QED
    BY <1>1 DEF Flights

\* A fetch of one git server is replaced by another at work.
LEMMA FlightReplaced ==
    ASSUME OrgInv, NEW s \in Servers, NEW f \in Flights,
           flight' = [flight EXCEPT ![s] = f],
           f.organizations = "reading" => f.pages < LastPage(s),
           f.organizations = "read"    => f.pages = LastPage(s),
           UNCHANGED <<warmVars, cache, goVars>>
    PROVE  OrgInv'
  <1>1. f # None
    BY OrganizationsAssumption
  <1>2. OrgTypeOK'
    BY <1>1 DEF OrgInv, OrgTypeOK, warmVars, goVars
  <1>3. Counted'
    BY <1>1 DEF OrgInv, OrgTypeOK, Counted, LastPage
  <1>4. WholeLists'
    BY DEF OrgInv, WholeLists, goVars, Whole, LastPage, HasUser
  <1> QED
    BY <1>2, <1>3, <1>4 DEF OrgInv

\* The provider answers, or does not.
LEMMA ReadStep ==
    ASSUME OrgInv, NEW s \in Servers, ReadSteps(s)
    PROVE  OrgInv'
  <1>1. flight[s] # None /\ OrgTypeOK
    BY DEF ReadSteps, ReadUser, ReadPage, ReadFails, OrgInv
  <1>2. /\ flight[s] \in Flights
        /\ flight[s].pages \in 0..Pages
        /\ flight[s].organizations = "reading" => flight[s].pages < LastPage(s)
        /\ flight[s].organizations = "read"    => flight[s].pages = LastPage(s)
    BY <1>1, FlightType DEF OrgInv, Counted
  <1>3. CASE ReadUser(s)
    <2> DEFINE f == [flight[s] EXCEPT !.user = "read"]
    <2>1. f \in Flights /\ f.organizations = flight[s].organizations /\ f.pages = flight[s].pages
      BY <1>2 DEF Flights, Progress
    <2>2. flight' = [flight EXCEPT ![s] = f] /\ UNCHANGED <<warmVars, cache, goVars>>
      BY <1>3 DEF ReadUser
    <2> QED
      BY <1>2, <2>1, <2>2, FlightReplaced
  <1>4. CASE ReadPage(s)
    <2> DEFINE n == flight[s].pages + 1
               f == [flight[s] EXCEPT !.pages = n,
                                      !.organizations = IF n = LastPage(s) THEN "read" ELSE "reading"]
    <2>1. flight[s].pages < LastPage(s) /\ LastPage(s) \in 1..Pages
      BY <1>2, <1>4, LastPageType DEF ReadPage
    <2>2. n \in 0..Pages /\ n <= LastPage(s)
      BY <1>2, <2>1, OrganizationsAssumption
    <2>3. /\ f \in Flights
          /\ f.pages = n
          /\ f.organizations = IF n = LastPage(s) THEN "read" ELSE "reading"
      BY <1>2, <2>2 DEF Flights, Progress
    <2>4. flight' = [flight EXCEPT ![s] = f] /\ UNCHANGED <<warmVars, cache, goVars>>
      BY <1>4 DEF ReadPage
    <2>5. /\ f.organizations = "reading" => f.pages < LastPage(s)
          /\ f.organizations = "read"    => f.pages = LastPage(s)
      BY <2>1, <2>2, <2>3
    <2> HIDE DEF f
    <2> QED
      BY <2>3, <2>4, <2>5, FlightReplaced
  <1>5. CASE ReadFails(s)
    <2>1. PICK f \in {[flight[s] EXCEPT !.user = "failed"], [flight[s] EXCEPT !.organizations = "failed"]} :
             flight' = [flight EXCEPT ![s] = f]
      BY <1>5 DEF ReadFails
    <2>2. /\ f \in Flights
          /\ f.pages = flight[s].pages
          /\ f.organizations \in {flight[s].organizations, "failed"}
      BY <1>2, <2>1 DEF Flights, Progress
    <2>3. UNCHANGED <<warmVars, cache, goVars>>
      BY <1>5 DEF ReadFails
    <2> QED
      BY <1>2, <2>1, <2>2, <2>3, FlightReplaced
  <1> QED
    BY <1>3, <1>4, <1>5 DEF ReadSteps

\* The fetch is over.
LEMMA FetchDoneStep ==
    ASSUME OrgInv, NEW s \in Servers, FetchDone(s)
    PROVE  OrgInv'
  <1> DEFINE list == [user  |-> HasUser(s) /\ flight[s].user = "read",
                      pages |-> flight[s].pages]
  <1>1. OrgTypeOK /\ Counted /\ WholeLists /\ flight[s] # None /\ Goroutines' = Goroutines
    BY DEF OrgInv, FetchDone, Read, Goroutines
  <1>2. /\ flight[s].user \in Progress /\ flight[s].user # "reading"
        /\ flight[s].organizations \in Progress /\ flight[s].organizations # "reading"
        /\ flight[s].organizations = "read" => flight[s].pages = LastPage(s)
    BY <1>1, FlightType DEF FetchDone, Read, Counted
  <1>3. ~Erred(s) => list = Whole(s)
    BY <1>2 DEF Erred, Progress, Whole, HasUser
  <1>4. Whole(s) \in Lists
    BY WholeType
  <1>5. PICK told \in {Whole(s), Failed} :
           /\ cache' \in {cache, [cache EXCEPT ![s] = Whole(s)]}
           /\ answer' = [g \in Goroutines |-> IF g \in Waiting(s) THEN told ELSE answer[g]]
           /\ pc' = [g \in Goroutines |-> IF g \in Waiting(s) THEN "done" ELSE pc[g]]
    <2>1. CASE ~Erred(s) /\ cache' = [cache EXCEPT ![s] = list] /\ Tell(s, list)
      BY <1>3, <2>1 DEF Tell
    <2>2. CASE Erred(s) /\ UNCHANGED cache /\ Tell(s, Failed)
      BY <2>2 DEF Tell
    <2> QED
      BY <2>1, <2>2 DEF FetchDone
  <1>6. flight' = [flight EXCEPT ![s] = None] /\ UNCHANGED <<warmVars, server>>
    BY DEF FetchDone
  <1> HIDE DEF list
  <1>7. /\ cache' \in [Servers -> Lists \cup {None}]
        /\ flight' \in [Servers -> Flights \cup {None}]
        /\ pc' \in [Goroutines -> PC]
        /\ answer' \in [Goroutines -> Lists \cup {None, Failed}]
    BY <1>1, <1>4, <1>5, <1>6 DEF OrgTypeOK, PC
  <1>8. \A g \in Goroutines : pc'[g] = "waiting" => pc[g] = "waiting" /\ server[g] # s
    BY <1>5 DEF Waiting
  <1>9. OrgTypeOK'
    BY <1>1, <1>6, <1>7, <1>8 DEF OrgTypeOK, warmVars
  <1>10. Counted'
    BY <1>1, <1>6 DEF Counted, OrgTypeOK, LastPage
  <1>11. \A t \in Servers : Whole(t)' = Whole(t)
    BY DEF Whole, HasUser, LastPage
  <1>12. \A g \in Goroutines : g \in Waiting(s) => server[g] = s
    BY DEF Waiting
  <1>13. WholeLists'
    BY <1>1, <1>5, <1>6, <1>11, <1>12 DEF WholeLists, OrgTypeOK
  <1> QED
    BY <1>9, <1>10, <1>13 DEF OrgInv

\* A request, or a goroutine of the warm-up, moves on.
LEMMA GoStep ==
    ASSUME OrgInv, NEW g \in Goroutines,
           \/ GoSteps(g)
           \/ GetSettings(g)
           \/ \E s \in Servers : Request(g, s)
    PROVE  OrgInv'
  <1>1. OrgTypeOK /\ Counted /\ WholeLists
    BY DEF OrgInv
  <1>2. UNCHANGED <<warmVars, cache>>
    BY DEF GoSteps, Unsupported, Get, Fetch, GetSettings, Request
  <1>3. \A t \in Servers : Whole(t)' = Whole(t)
    BY DEF Whole, HasUser, LastPage
  <1>4. server[g] \in Servers
    BY <1>1 DEF OrgTypeOK
  <1>5. CASE Unsupported(g)
    BY <1>1, <1>2, <1>3, <1>5 DEF Unsupported, Moves, Gets, OrgInv, OrgTypeOK, Counted, WholeLists,
                              PC, warmVars, LastPage
  <1>6. CASE Get(g)
    <2>1. /\ cache[server[g]] \in Lists \cup {None}
          /\ cache[server[g]] # None => cache[server[g]] = Whole(server[g])
      BY <1>1, <1>4 DEF OrgTypeOK, WholeLists
    <2>2. PICK a \in {answer[g], Whole(server[g])}, p \in {"done", "missed"} :
             answer' = [answer EXCEPT ![g] = a] /\ pc' = [pc EXCEPT ![g] = p]
      BY <1>1, <1>6, <2>1 DEF Get, Moves, Gets, OrgTypeOK
    <2>3. UNCHANGED <<flight, server>>
      BY <1>6 DEF Get
    <2>4. Whole(server[g]) \in Lists
      BY <1>4, WholeType
    <2>5. answer' \in [Goroutines -> Lists \cup {None, Failed}] /\ pc' \in [Goroutines -> PC]
      BY <1>1, <2>2, <2>4 DEF OrgTypeOK, PC
    <2>6. OrgTypeOK'
      BY <1>1, <1>2, <2>2, <2>3, <2>5 DEF OrgTypeOK, warmVars
    <2>7. Counted' /\ WholeLists'
      BY <1>1, <1>2, <1>3, <2>2, <2>3 DEF Counted, LastPage, WholeLists, OrgTypeOK
    <2> QED
      BY <2>6, <2>7 DEF OrgInv
  <1>7. CASE Fetch(g)
    <2>1. Begun(g, server[g]) \in Flights /\ Begun(g, server[g]) # None
      BY OrganizationsAssumption DEF Begun, Flights, Progress
    <2>2. /\ Begun(g, server[g]).organizations = "reading" /\ Begun(g, server[g]).pages = 0
          /\ LastPage(server[g]) \in 1..Pages
      BY <1>4, LastPageType DEF Begun
    <2>3. /\ flight' = IF flight[server[g]] # None THEN flight
                       ELSE [flight EXCEPT ![server[g]] = Begun(g, server[g])]
          /\ pc' = [pc EXCEPT ![g] = "waiting"]
          /\ UNCHANGED <<server, answer>>
      BY <1>7 DEF Fetch, Moves
    <2>4. flight' \in [Servers -> Flights \cup {None}] /\ pc' \in [Goroutines -> PC]
      BY <1>1, <2>1, <2>3 DEF OrgTypeOK, PC
    <2>5. \A t \in Servers : flight[t] # None => flight'[t] # None
      BY <1>1, <2>1, <2>3 DEF OrgTypeOK
    <2>6. flight'[server[g]] # None
      BY <1>1, <1>4, <2>1, <2>3 DEF OrgTypeOK
    <2>7. OrgTypeOK'
      BY <1>1, <1>2, <2>3, <2>4, <2>5, <2>6 DEF OrgTypeOK, warmVars
    <2>8. \A t \in Servers : flight'[t] \in {flight[t], Begun(g, server[g])}
                             /\ (flight'[t] # flight[t] => t = server[g])
      BY <1>1, <2>3 DEF OrgTypeOK
    <2>9. Counted'
      BY <1>1, <2>2, <2>8 DEF Counted, LastPage
    <2> QED
      BY <1>1, <1>2, <1>3, <2>3, <2>7, <2>9 DEF OrgInv, WholeLists
  <1>8. CASE GetSettings(g)
    BY <1>1, <1>2, <1>3, <1>8 DEF GetSettings, Moves, Gets, OrgInv, OrgTypeOK, Counted, WholeLists,
                              PC, warmVars, LastPage
  <1>9. ASSUME NEW s \in Servers, Request(g, s) PROVE OrgInv'
    BY <1>1, <1>2, <1>3, <1>9 DEF Request, Gets, OrgInv, OrgTypeOK, Counted, WholeLists,
                              PC, warmVars, LastPage
  <1> QED
    BY <1>5, <1>6, <1>7, <1>8, <1>9 DEF GoSteps

\* The warm-up goes on, or an entry is dropped.
LEMMA WarmStep ==
    ASSUME OrgInv, WarmSteps \/ \E s \in Servers : Drop(s)
    PROVE  OrgInv'
  <1>1. OrgTypeOK /\ Counted /\ WholeLists
    BY DEF OrgInv
  <1>2. UNCHANGED <<flight, server, answer>>
    BY DEF WarmSteps, ListServers, Spawn, ReadSecret, SecretMissing, Drop, goVars
  <1>3. \A t \in Servers : Whole(t)' = Whole(t)
    BY DEF Whole, HasUser, LastPage
  <1>4. Counted'
    BY <1>1, <1>2 DEF Counted, LastPage
  <1>5. CASE ListServers \/ \E s \in Servers : ReadSecret(s) \/ SecretMissing(s)
    BY <1>1, <1>2, <1>3, <1>4, <1>5 DEF ListServers, ReadSecret, SecretMissing, OrgInv, OrgTypeOK,
                                   WholeLists, goVars
  <1>6. CASE Spawn
    BY <1>1, <1>2, <1>3, <1>4, <1>6 DEF Spawn, OrgInv, OrgTypeOK, WholeLists, PC, goVars
  <1>7. ASSUME NEW s \in Servers, Drop(s) PROVE OrgInv'
    BY <1>1, <1>2, <1>3, <1>4, <1>7 DEF Drop, OrgInv, OrgTypeOK, WholeLists, warmVars, goVars
  <1> QED
    BY <1>5, <1>6, <1>7 DEF WarmSteps

LEMMA OrgStepInv == ASSUME OrgInv, OrgStep PROVE OrgInv'
  <1>1. Callers \subseteq Goroutines
    BY DEF Goroutines
  <1> QED
    BY <1>1, ReadStep, FetchDoneStep, GoStep, WarmStep DEF OrgStep, OrgNext

-----------------------------------------------------------------------------
(* The process.                                                            *)

\* No request is taken before main serves, and no signal before it listens for them.
Unserved ==
    /\ main \in {"start", "built", "notified"} => \A c \in Callers : ~Active(c)
    /\ main \in {"start", "built"} => shut = "signal" /\ ~pending

\* When Shutdown has returned, no request is at work, and none comes.
Quiet == shut \in {"drained", "stopped"} => \A c \in Callers : ~Active(c)

ProcTypeOK ==
    /\ main \in {"start", "built", "notified", "serving", "closed"}
    /\ shut \in {"signal", "grace", "draining", "drained", "stopped"}
    /\ ctx \in {"none", "live", "deadline", "canceled"}
    /\ pending \in BOOLEAN
    /\ exit \in {"no", "ok", "fatal", "killed"}

Inv == OrgInv /\ ProcTypeOK /\ Unserved /\ Quiet /\ CleanExit /\ ForcedForCause

LEMMA InvInit == Init => Inv
  <1> SUFFICES ASSUME Init PROVE Inv
    OBVIOUS
  <1>1. OrgTypeOK
    BY OrganizationsAssumption DEF Init, OrgInit, OrgTypeOK, PC
  <1>2. Counted /\ WholeLists
    BY OrganizationsAssumption DEF Init, OrgInit, Counted, WholeLists
  <1>3. ProcTypeOK /\ CleanExit /\ ForcedForCause /\ Quiet
    BY DEF Init, ProcTypeOK, CleanExit, ForcedForCause, Quiet
  <1>4. Unserved
    BY DEF Init, OrgInit, Unserved, Active, Goroutines
  <1> QED
    BY <1>1, <1>2, <1>3, <1>4 DEF Inv, OrgInv

\* What a step of the organizations, or a request that is taken, leaves as it is.
LEMMA OrgStepKeeps ==
    ASSUME Inv, Runs, UNCHANGED procVars,
           OrgNext \/ (main = "serving" /\ ~ShuttingDown
                        /\ \E c \in Callers, s \in Servers : Request(c, s))
    PROVE  Inv'
  <1>1. /\ OrgTypeOK /\ Unserved /\ Quiet
        /\ exit = "no" /\ exit' = "no"
        /\ main' = main /\ shut' = shut /\ pending' = pending
    BY DEF Inv, OrgInv, Runs, procVars
  <1>2. OrgInv'
    BY OrgStepInv DEF Inv, OrgStep
  <1>3. ProcTypeOK' /\ CleanExit' /\ ForcedForCause'
    BY <1>1 DEF Inv, ProcTypeOK, CleanExit, ForcedForCause, procVars
  <1>4. /\ Callers \cap Servers = {}
        /\ Callers \subseteq Goroutines
        /\ pc \in [Goroutines -> PC]
    BY <1>1, OrganizationsAssumption DEF OrgTypeOK, Goroutines
  <1>5. CASE main = "serving" /\ ~ShuttingDown
    BY <1>1, <1>2, <1>3, <1>5 DEF Inv, Unserved, Quiet, ShuttingDown
  \* Which client is at rest stays at rest, but one that asks.
  <1>6. ASSUME \A c \in Callers : ~Active(c) => pc'[c] = pc[c]
        PROVE  Inv'
    BY <1>1, <1>2, <1>3, <1>6 DEF Inv, Unserved, Quiet, Active
  <1>7. CASE WarmSteps
    <2>1. \A c \in Callers : pc'[c] = pc[c]
      BY <1>4, <1>7 DEF WarmSteps, ListServers, ReadSecret, SecretMissing, Spawn, goVars
    <2> QED
      BY <1>6, <2>1
  <1>8. ASSUME NEW s \in Servers, ReadSteps(s) \/ FetchDone(s) \/ Drop(s)
        PROVE  Inv'
    <2>1. \/ pc' = pc
          \/ \E t \in Servers : pc' = [g \in Goroutines |-> IF g \in Waiting(t) THEN "done" ELSE pc[g]]
      BY <1>8 DEF ReadSteps, ReadUser, ReadPage, ReadFails, FetchDone, Tell, Drop, goVars
    <2> QED
      BY <1>4, <1>6, <2>1 DEF Waiting, Active
  <1>9. ASSUME NEW g \in Goroutines, GoSteps(g) \/ GetSettings(g)
        PROVE  Inv'
    <2>1. /\ pc[g] \notin {"idle", "done"}
          /\ \E to : pc' = [pc EXCEPT ![g] = to]
      BY <1>9 DEF GoSteps, Unsupported, Get, Fetch, GetSettings, Moves
    <2> QED
      BY <1>4, <1>6, <2>1 DEF Active
  <1> QED
    BY <1>4, <1>5, <1>7, <1>8, <1>9 DEF OrgNext

\* Every step keeps the invariant.
LEMMA InvStep == Inv /\ [Next]_vars => Inv'
  <1> SUFFICES ASSUME Inv, [Next]_vars PROVE Inv'
    OBVIOUS
  <1>1. CASE UNCHANGED vars
    BY <1>1 DEF vars, orgVars, procVars, warmVars, goVars, Inv, OrgInv, OrgTypeOK, Counted, WholeLists,
                Whole, LastPage, HasUser, ProcTypeOK, Unserved, Quiet, Active, CleanExit, ForcedForCause,
                ShuttingDown
  <1>2. ASSUME UNCHANGED <<cache, flight, goVars>>, OrgTypeOK',
               ProcTypeOK', Unserved', Quiet', CleanExit', ForcedForCause'
        PROVE  Inv'
    BY <1>2 DEF goVars, Inv, OrgInv, Counted, WholeLists, Whole, LastPage, HasUser
  <1>3. ASSUME Runs, UNCHANGED orgVars \/ Build, ProcTypeOK', Unserved', Quiet', CleanExit', ForcedForCause'
        PROVE  Inv'
    <2>1. UNCHANGED <<cache, flight, goVars, unread>> /\ (warm' = warm \/ warm' = "list")
      BY <1>3 DEF Build, orgVars, warmVars
    <2>2. OrgTypeOK'
      BY <2>1 DEF goVars, Inv, OrgInv, OrgTypeOK
    <2> QED
      BY <1>2, <1>3, <2>1, <2>2
  <1>4. CASE Runs /\ Build
    <2>1. /\ UNCHANGED <<pc, shut, ctx, pending, exit>>
          /\ exit = "no" /\ main = "start" /\ main' = "built"
      BY <1>4 DEF Build, Runs, goVars
    <2>2. ProcTypeOK' /\ Unserved' /\ Quiet' /\ CleanExit' /\ ForcedForCause'
      BY <2>1 DEF Inv, ProcTypeOK, Unserved, Quiet, Active, CleanExit, ForcedForCause
    <2> QED
      BY <1>3, <1>4, <2>2
  <1>5. CASE Runs /\ (StartFails \/ Notify \/ Listen \/ ListenFails \/ ServerClosed \/ Signal)
    <2>1. UNCHANGED orgVars /\ pc' = pc
      BY <1>5 DEF StartFails, Notify, Listen, ListenFails, ServerClosed, Signal, orgVars, goVars
    <2>2. ProcTypeOK' /\ Unserved' /\ Quiet' /\ CleanExit' /\ ForcedForCause'
      BY <1>5, <2>1 DEF StartFails, Notify, Listen, ListenFails, ServerClosed, Signal, Exits, Runs,
                        Inv, ProcTypeOK, Unserved, Quiet, Active, CleanExit, ForcedForCause, ShuttingDown
    <2> QED
      BY <1>3, <1>5, <2>1, <2>2
  <1>6. CASE Runs /\ (Return \/ ShutSteps)
    <2> USE <1>6 DEF Return, ShutSteps, TakeSignal, Shutdown, Deadline, Drained, ShutdownFails,
                     ShutdownTimesOut, Stop, Exits
    <2>1. UNCHANGED orgVars /\ pc' = pc
      BY DEF orgVars, goVars
    <2>2. ProcTypeOK'
      BY DEF Inv, ProcTypeOK
    <2>3. Unserved'
      BY <2>1 DEF Inv, Unserved, Active
    <2>4. Quiet'
      BY <2>1 DEF Inv, Quiet, Active
    <2>5. CleanExit'
      BY <2>1 DEF Runs, Inv, Quiet, Active, CleanExit
    <2>6. ForcedForCause'
      BY <2>1 DEF Runs, Active, ForcedForCause
    <2> QED
      BY <1>3, <2>1, <2>2, <2>3, <2>4, <2>5, <2>6
  <1>7. ASSUME Runs, NEW c \in Callers, NEW s \in Servers, Serve(c, s)
        PROVE  Inv'
    BY <1>7, OrgStepKeeps DEF Serve
  <1>8. CASE Runs /\ OrgNext /\ UNCHANGED procVars
    BY <1>8, OrgStepKeeps
  <1> QED
    BY <1>1, <1>4, <1>5, <1>6, <1>7, <1>8 DEF Next, MainSteps

THEOREM Invariance == Spec => []Inv
  BY InvInit, InvStep, PTL DEF Spec

-----------------------------------------------------------------------------
\* Every variable keeps its type, and who waits for a fetch has one to wait for.
THEOREM TypeCorrect == Spec => []TypeOK
  <1>1. Inv => TypeOK
    BY DEF Inv, OrgInv, ProcTypeOK, TypeOK
  <1> QED
    BY <1>1, Invariance, PTL

\* No partial list of organizations is cached or answered, whichever of GitHub's two
\* goroutines fails, and whenever.
THEOREM OrganizationsWhole == Spec => []WholeLists
  <1>1. Inv => WholeLists
    BY DEF Inv, OrgInv
  <1> QED
    BY <1>1, Invariance, PTL

\* A process that ends with 0 has answered every request it took.
THEOREM NobodyCutOff == Spec => []CleanExit
  <1>1. Inv => CleanExit
    BY DEF Inv
  <1> QED
    BY <1>1, Invariance, PTL

\* While a shutdown has time left, log.Fatal cuts off no request, and once it is done,
\* the watcher of the grace period leaves the process alone.
THEOREM ForcedWithCause == Spec => []ForcedForCause
  <1>1. Inv => ForcedForCause
    BY DEF Inv
  <1> QED
    BY <1>1, Invariance, PTL
=============================================================================
