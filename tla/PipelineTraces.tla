--------------------------- MODULE PipelineTraces ---------------------------
(***************************************************************************)
(* Reading the traces (logs) and the statuses of the CI jobs of one        *)
(* pipeline, internal/services/pipelines and internal/cache.               *)
(*                                                                         *)
(* A caller is a goroutine in MultiProviderPipelineService.GetJobTrace, a  *)
(* lister one in ListPipelineJobs, and the invalidator the goroutine that  *)
(* serves DELETE cache?endpoint=pipelines.  They share four stores: the    *)
(* done and the live tier of TerminalAwareCache, the terminalJobs markers  *)
(* and the jobs cache; GetJobTrace collapses its misses in traceGroup, a   *)
(* singleflight.Group, and the jobs cache collapses its own in sturdyc.    *)
(*                                                                         *)
(* A trace only grows, so a snapshot of it is the number of bytes that     *)
(* were read off the socket.  All jobs belong to one project of one git    *)
(* server, so that a job ID stands for the keys made of it; an entry that  *)
(* expired and one that was evicted look the same to a reader.             *)
(***************************************************************************)
EXTENDS Naturals, FiniteSets

CONSTANTS Jobs,                    \* job IDs of the pipeline
          Callers,                 \* requests for a trace
          Listers,                 \* requests for the list of jobs
          None,                    \* no entry, no flight
          Failed,                  \* the result of a read that failed
          MaxTraceBytes,           \* gitlab.maxTraceBytes
          MaxCacheableTraceBytes,  \* cache.MaxCacheableTraceBytes
          MaxLog,                  \* bound: bytes a job writes
          MaxInvs                  \* bound: invalidations

ASSUME SizesAssumption ==
    /\ MaxTraceBytes \in Nat
    /\ MaxCacheableTraceBytes \in Nat
    /\ MaxLog \in Nat
    /\ MaxInvs \in Nat

ASSUME NoneAssumption ==
    /\ None \notin Callers \cup Listers
    /\ None \notin [trace : Nat, born : Nat]
    /\ Failed \notin Nat

VARIABLES
    status,        \* the provider: status of each job
    log,           \* the provider: bytes each job has written
    doneTier,      \* TerminalAwareCache.done
    liveTier,      \* TerminalAwareCache.live
    marker,        \* terminalJobs: "never" set, "set", or set once and "lost"
    jobsCache,     \* jobsCache: None, or the list as last stored
    traceGroup,    \* traceGroup[j]: the caller that leads j's flight, or None
    pc,            \* caller: where in GetJobTrace it is
    job,           \* caller: the jobID argument
    val,           \* caller: the trace it holds, Failed when it holds none
    terminal,      \* caller: what terminalJobs.Get said
    jobsFlight,    \* the lister that fetches for the jobs cache, or None
    lpc,           \* lister: where in ListPipelineJobs it is
    listed,        \* lister: the statuses it fetched
    unmarked,      \* lister: the jobs markTerminalJobs has yet to look at
    ipc,           \* invalidator: where in InvalidateCache it is
    keys,          \* invalidator: scanned keys still to be deleted
    invs,          \* history: invalidations begun
    fetched,       \* history: newest snapshot of each job read so far
    floor          \* history: fetched[job[c]] when c's request arrived

provVars == <<status, log>>
tierVars == <<doneTier, liveTier>>
callVars == <<traceGroup, pc, job, val, terminal>>
listVars == <<marker, jobsCache, jobsFlight, lpc, listed, unmarked>>
invVars  == <<ipc, keys, invs>>
histVars == <<fetched, floor>>
vars == <<provVars, tierVars, callVars, listVars, invVars, histVars>>

-----------------------------------------------------------------------------
(* Job statuses and traces.                                                *)

\* "manual" stands for every status a job may still leave.
Status == {"manual", "running", "success", "failed", "canceled", "skipped"}
Ended  == Status \ {"manual", "running"}

\* Mutants of isTerminalJobStatus: one that takes a job nobody has played yet
\* for finished, and one that forgets a status.
TakesManualForTerminal(s) == s \in Ended \cup {"manual"}
ForgetsCanceled(s) == s \in Ended \ {"canceled"}

isTerminalJobStatus(s) == s \in {"success", "failed", "canceled", "skipped"}

\* io.ReadAll over a LimitReader of maxTraceBytes+1.
Snapshot(n)  == IF n > MaxTraceBytes THEN MaxTraceBytes + 1 ELSE n
Truncated(n) == n > MaxTraceBytes
ContentLen(n) == IF Truncated(n) THEN MaxTraceBytes ELSE n
Cacheable(n) == ~Truncated(n) /\ ContentLen(n) <= MaxCacheableTraceBytes

Traces  == 0 .. (MaxTraceBytes + 1)
Results == Traces \cup {Failed}
Stored  == {n \in Traces : Cacheable(n)}
Entries == [trace : Stored, born : 0 .. MaxInvs]
Lists   == [jobs : [Jobs -> Status], born : 0 .. MaxInvs]

Leads(c)   == pc[c] \in {"recheckDone", "recheckLive", "fetch", "classify",
                         "store", "finish"}
Waiters(j) == {c \in Callers : pc[c] = "wait" /\ job[c] = j}

-----------------------------------------------------------------------------
Init ==
    /\ status \in [Jobs -> {"manual", "running"}]
    /\ log = [j \in Jobs |-> 0]
    /\ doneTier = [j \in Jobs |-> None]
    /\ liveTier = [j \in Jobs |-> None]
    /\ marker = [j \in Jobs |-> "never"]
    /\ jobsCache = None
    /\ traceGroup = [j \in Jobs |-> None]
    /\ pc = [c \in Callers |-> "idle"]
    /\ job \in [Callers -> Jobs]
    /\ val = [c \in Callers |-> Failed]
    /\ terminal = [c \in Callers |-> FALSE]
    /\ jobsFlight = None
    /\ lpc = [l \in Listers |-> "idle"]
    /\ listed = [l \in Listers |-> [j \in Jobs |-> "manual"]]
    /\ unmarked = [l \in Listers |-> {}]
    /\ ipc = "idle"
    /\ keys = {}
    /\ invs = 0
    /\ fetched = [j \in Jobs |-> 0]
    /\ floor = [c \in Callers |-> 0]

-----------------------------------------------------------------------------
(* The provider (external): a job is started, writes, and ends for good.   *)

JobStarts(j) ==
    /\ status[j] = "manual"
    /\ status' = [status EXCEPT ![j] = "running"]
    /\ UNCHANGED <<log, tierVars, callVars, listVars, invVars, histVars>>

JobLogs(j) ==
    /\ status[j] = "running"
    /\ log[j] < MaxLog
    /\ log' = [log EXCEPT ![j] = @ + 1]
    /\ UNCHANGED <<status, tierVars, callVars, listVars, invVars, histVars>>

JobEnds(j) ==
    /\ \/ status[j] = "running" /\ \E s \in Ended \ {"skipped"} :
                                      status' = [status EXCEPT ![j] = s]
       \/ status[j] = "manual"  /\ \E s \in {"canceled", "skipped"} :
                                      status' = [status EXCEPT ![j] = s]
    /\ UNCHANGED <<log, tierVars, callVars, listVars, invVars, histVars>>

-----------------------------------------------------------------------------
(* Expiry and forced eviction in the stores (external, sturdyc).           *)

DropDone(j) ==
    /\ doneTier[j] # None
    /\ doneTier' = [doneTier EXCEPT ![j] = None]
    /\ UNCHANGED <<provVars, liveTier, callVars, listVars, invVars, histVars>>

DropLive(j) ==
    /\ liveTier[j] # None
    /\ liveTier' = [liveTier EXCEPT ![j] = None]
    /\ UNCHANGED <<provVars, doneTier, callVars, listVars, invVars, histVars>>

DropMarker(j) ==
    /\ marker[j] = "set"
    /\ marker' = [marker EXCEPT ![j] = "lost"]
    /\ UNCHANGED <<provVars, tierVars, callVars, jobsCache, jobsFlight, lpc,
                   listed, unmarked, invVars, histVars>>

DropJobs ==
    /\ jobsCache # None
    /\ jobsCache' = None
    /\ UNCHANGED <<provVars, tierVars, callVars, marker, jobsFlight, lpc,
                   listed, unmarked, invVars, histVars>>

-----------------------------------------------------------------------------
(* GetJobTrace.                                                            *)

\* A request for j's trace arrives.
Request(c, j) ==
    /\ pc[c] = "idle"
    /\ pc' = [pc EXCEPT ![c] = "getDone"]
    /\ job' = [job EXCEPT ![c] = j]
    /\ floor' = [floor EXCEPT ![c] = fetched[j]]
    /\ UNCHANGED <<provVars, tierVars, traceGroup, val, terminal, listVars,
                   invVars, fetched>>

\* One tier of TerminalAwareCache.Get: at pc `from` look the job up in `tier`,
\* go to `hit` holding the entry, or to `miss`.
GetFrom(c, tier, from, hit, miss) ==
    LET e == tier[job[c]] IN
    /\ pc[c] = from
    /\ \/ /\ e # None
          /\ pc' = [pc EXCEPT ![c] = hit]
          /\ val' = [val EXCEPT ![c] = e.trace]
       \/ /\ e = None
          /\ pc' = [pc EXCEPT ![c] = miss]
          /\ UNCHANGED val
    /\ UNCHANGED <<provVars, tierVars, traceGroup, job, terminal, listVars,
                   invVars, histVars>>

\* Get looks in the done tier, then in the live tier.
GetDone(c) == GetFrom(c, doneTier, "getDone", "answered", "getLive")
GetLive(c) == GetFrom(c, liveTier, "getLive", "answered", "do")

\* Mutant of Do: every caller fetches for itself.
DoAlone(c) ==
    /\ pc[c] = "do"
    /\ traceGroup' = [traceGroup EXCEPT ![job[c]] = c]
    /\ pc' = [pc EXCEPT ![c] = "recheckDone"]
    /\ UNCHANGED <<provVars, tierVars, job, val, terminal, listVars, invVars,
                   histVars>>

\* traceGroup.Do: wait for the flight of the job when there is one, lead
\* it otherwise.
Do(c) ==
    LET j == job[c] IN
    /\ pc[c] = "do"
    /\ \/ /\ traceGroup[j] # None
          /\ pc' = [pc EXCEPT ![c] = "wait"]
          /\ UNCHANGED traceGroup
       \/ /\ traceGroup[j] = None
          /\ traceGroup' = [traceGroup EXCEPT ![j] = c]
          /\ pc' = [pc EXCEPT ![c] = "recheckDone"]
    /\ UNCHANGED <<provVars, tierVars, job, val, terminal, listVars, invVars,
                   histVars>>

\* Mutant of RecheckDone: the flight does not look into the cache again.
NoRecheck(c) == GetFrom(c, [j \in Jobs |-> None], "recheckDone", "finish", "fetch")

\* The re-check under the flight.
RecheckDone(c) == GetFrom(c, doneTier, "recheckDone", "finish", "recheckLive")
RecheckLive(c) == GetFrom(c, liveTier, "recheckLive", "finish", "fetch")

\* The provider answers with the log as it is now.  A trace too large to be
\* cached goes straight to the callers.
Fetch(c) ==
    LET j == job[c]  n == Snapshot(log[j]) IN
    /\ pc[c] = "fetch"
    /\ val' = [val EXCEPT ![c] = n]
    /\ pc' = [pc EXCEPT ![c] = IF Cacheable(n) THEN "classify" ELSE "finish"]
    /\ fetched' = [fetched EXCEPT ![j] = n]
    /\ UNCHANGED <<provVars, tierVars, traceGroup, job, terminal, listVars,
                   invVars, floor>>

\* Mutant of FetchFails: the error is not looked at.
FetchErrorIgnored(c) ==
    /\ pc[c] = "fetch"
    /\ pc' = [pc EXCEPT ![c] = "classify"]
    /\ UNCHANGED <<provVars, tierVars, traceGroup, job, val, terminal,
                   listVars, invVars, histVars>>

\* The provider fails, the 30 s timeout fires, or the leader's client leaves.
FetchFails(c) ==
    /\ pc[c] = "fetch"
    /\ pc' = [pc EXCEPT ![c] = "finish"]
    /\ UNCHANGED <<provVars, tierVars, traceGroup, job, val, terminal,
                   listVars, invVars, histVars>>

\* terminalJobs.Get, after the fetch.
Classify(c) ==
    /\ pc[c] = "classify"
    /\ terminal' = [terminal EXCEPT ![c] = marker[job[c]] = "set"]
    /\ pc' = [pc EXCEPT ![c] = "store"]
    /\ UNCHANGED <<provVars, tierVars, traceGroup, job, val, listVars,
                   invVars, histVars>>

\* TerminalAwareCache.Set.
Store(c) ==
    LET j == job[c]
        e == [trace |-> val[c], born |-> invs] IN
    /\ pc[c] = "store"
    /\ \/ /\ terminal[c]
          /\ doneTier' = [doneTier EXCEPT ![j] = e]
          /\ UNCHANGED liveTier
       \/ /\ ~terminal[c]
          /\ liveTier' = [liveTier EXCEPT ![j] = e]
          /\ UNCHANGED doneTier
    /\ pc' = [pc EXCEPT ![c] = "finish"]
    /\ UNCHANGED <<provVars, traceGroup, job, val, terminal, listVars,
                   invVars, histVars>>

\* Mutant of Finish: the flight of a failed fetch is left behind.
FinishUnlessFailed(c) ==
    /\ pc[c] = "finish"
    /\ traceGroup' = IF val[c] = Failed THEN traceGroup
                     ELSE [traceGroup EXCEPT ![job[c]] = None]
    /\ LET S == IF val[c] = Failed THEN {c} ELSE Waiters(job[c]) \cup {c} IN
       /\ val' = [d \in Callers |-> IF d \in S THEN val[c] ELSE val[d]]
       /\ pc' = [d \in Callers |-> IF d \in S THEN "answered" ELSE pc[d]]
    /\ UNCHANGED <<provVars, tierVars, job, terminal, listVars, invVars,
                   histVars>>

\* Mutant of Finish: a failed flight answers with the zero JobTrace.
FinishDropsError(c) ==
    LET j == job[c]  S == Waiters(j) \cup {c}
        v == IF val[c] = Failed THEN 0 ELSE val[c] IN
    /\ pc[c] = "finish"
    /\ traceGroup' = [traceGroup EXCEPT ![j] = None]
    /\ val' = [d \in Callers |-> IF d \in S THEN v ELSE val[d]]
    /\ pc' = [d \in Callers |-> IF d \in S THEN "answered" ELSE pc[d]]
    /\ UNCHANGED <<provVars, tierVars, job, terminal, listVars, invVars,
                   histVars>>

\* The flight's function returns: the flight is forgotten, and its result
\* goes to the leader and to everyone who waited for it.
Finish(c) ==
    LET j == job[c]  S == Waiters(j) \cup {c} IN
    /\ pc[c] = "finish"
    /\ traceGroup' = [traceGroup EXCEPT ![j] = None]
    /\ val' = [d \in Callers |-> IF d \in S THEN val[c] ELSE val[d]]
    /\ pc' = [d \in Callers |-> IF d \in S THEN "answered" ELSE pc[d]]
    /\ UNCHANGED <<provVars, tierVars, job, terminal, listVars, invVars,
                   histVars>>

\* The response is written; the caller's locals are gone.
Reset(c) ==
    /\ pc[c] = "answered"
    /\ pc' = [pc EXCEPT ![c] = "idle"]
    /\ val' = [val EXCEPT ![c] = Failed]
    /\ terminal' = [terminal EXCEPT ![c] = FALSE]
    /\ UNCHANGED <<provVars, tierVars, traceGroup, job, listVars, invVars,
                   histVars>>

Steps(c) == \/ GetDone(c) \/ GetLive(c) \/ Do(c) \/ RecheckDone(c)
            \/ RecheckLive(c) \/ Fetch(c) \/ FetchFails(c) \/ Classify(c)
            \/ Store(c) \/ Finish(c)

-----------------------------------------------------------------------------
(* ListPipelineJobs, through sturdyc's GetOrFetch.                         *)

\* A hit is answered at once and changes nothing.
ListMiss(l) ==
    /\ lpc[l] = "idle"
    /\ jobsCache = None
    /\ lpc' = [lpc EXCEPT ![l] = "missed"]
    /\ UNCHANGED <<provVars, tierVars, callVars, marker, jobsCache,
                   jobsFlight, listed, unmarked, invVars, histVars>>

\* GetOrFetch does not look again before it fetches.
ListDo(l) ==
    /\ lpc[l] = "missed"
    /\ \/ /\ jobsFlight # None
          /\ lpc' = [lpc EXCEPT ![l] = "wait"]
          /\ UNCHANGED jobsFlight
       \/ /\ jobsFlight = None
          /\ jobsFlight' = l
          /\ lpc' = [lpc EXCEPT ![l] = "fetch"]
    /\ UNCHANGED <<provVars, tierVars, callVars, marker, jobsCache, listed,
                   unmarked, invVars, histVars>>

\* The provider lists the jobs; the cap of 500 jobs is out of reach here.
ListFetch(l) ==
    /\ lpc[l] = "fetch"
    /\ listed' = [listed EXCEPT ![l] = status]
    /\ unmarked' = [unmarked EXCEPT ![l] = Jobs]
    /\ lpc' = [lpc EXCEPT ![l] = "mark"]
    /\ UNCHANGED <<provVars, tierVars, callVars, marker, jobsCache,
                   jobsFlight, invVars, histVars>>

\* Every lister of the flight goes back to its client.
ListReturn(l) ==
    /\ jobsFlight' = None
    /\ lpc' = [m \in Listers |-> IF m = l \/ lpc[m] = "wait" THEN "idle"
                                                             ELSE lpc[m]]
    /\ listed' = [listed EXCEPT ![l] = [j \in Jobs |-> "manual"]]
    /\ UNCHANGED unmarked

ListFails(l) ==
    /\ lpc[l] = "fetch"
    /\ ListReturn(l)
    /\ UNCHANGED <<provVars, tierVars, callVars, marker, jobsCache, invVars,
                   histVars>>

\* One job of the list after the other, those that have ended are marked.
markTerminalJobs(l) ==
    /\ lpc[l] = "mark"
    /\ \/ \E j \in unmarked[l] :
             /\ marker' = IF isTerminalJobStatus(listed[l][j])
                          THEN [marker EXCEPT ![j] = "set"] ELSE marker
             /\ unmarked' = [unmarked EXCEPT ![l] = @ \ {j}]
             /\ UNCHANGED lpc
       \/ /\ unmarked[l] = {}
          /\ lpc' = [lpc EXCEPT ![l] = "store"]
          /\ UNCHANGED <<marker, unmarked>>
    /\ UNCHANGED <<provVars, tierVars, callVars, jobsCache, jobsFlight,
                   listed, invVars, histVars>>

\* The list is cached and returned.
ListStore(l) ==
    /\ lpc[l] = "store"
    /\ jobsCache' = [jobs |-> listed[l], born |-> invs]
    /\ ListReturn(l)
    /\ UNCHANGED <<provVars, tierVars, callVars, marker, invVars, histVars>>

ListSteps(l) == \/ ListDo(l) \/ ListFetch(l) \/ ListFails(l)
                \/ markTerminalJobs(l) \/ ListStore(l)

-----------------------------------------------------------------------------
(* InvalidateCache("pipelines"): each store's keys are scanned, then       *)
(* deleted one at a time.  The pipeline list is in module ListReads.       *)

Invalidate ==
    /\ ipc = "idle"
    /\ invs < MaxInvs
    /\ invs' = invs + 1
    /\ ipc' = "scanJobs"
    /\ UNCHANGED <<provVars, tierVars, callVars, listVars, keys, histVars>>

ScanJobs ==
    /\ ipc = "scanJobs"
    /\ ipc' = IF jobsCache = None THEN "scanDone" ELSE "deleteJobs"
    /\ UNCHANGED <<provVars, tierVars, callVars, listVars, keys, invs,
                   histVars>>

DeleteJobs ==
    /\ ipc = "deleteJobs"
    /\ jobsCache' = None
    /\ ipc' = "scanDone"
    /\ UNCHANGED <<provVars, tierVars, callVars, marker, jobsFlight, lpc,
                   listed, unmarked, keys, invs, histVars>>

\* TerminalAwareCache.Invalidate: the done tier, then the live tier.
ScanDone ==
    /\ ipc = "scanDone"
    /\ keys' = {j \in Jobs : doneTier[j] # None}
    /\ ipc' = "deleteDone"
    /\ UNCHANGED <<provVars, tierVars, callVars, listVars, invs, histVars>>

\* Mutant of DeleteDone: the live tier is forgotten.
DeleteDoneOnly ==
    /\ ipc = "deleteDone"
    /\ \/ \E j \in keys :
             /\ doneTier' = [doneTier EXCEPT ![j] = None]
             /\ keys' = keys \ {j}
             /\ UNCHANGED ipc
       \/ keys = {} /\ ipc' = "idle" /\ UNCHANGED <<doneTier, keys>>
    /\ UNCHANGED <<provVars, liveTier, callVars, listVars, invs, histVars>>

DeleteDone ==
    /\ ipc = "deleteDone"
    /\ \/ \E j \in keys :
             /\ doneTier' = [doneTier EXCEPT ![j] = None]
             /\ keys' = keys \ {j}
             /\ UNCHANGED ipc
       \/ keys = {} /\ ipc' = "scanLive" /\ UNCHANGED <<doneTier, keys>>
    /\ UNCHANGED <<provVars, liveTier, callVars, listVars, invs, histVars>>

ScanLive ==
    /\ ipc = "scanLive"
    /\ keys' = {j \in Jobs : liveTier[j] # None}
    /\ ipc' = "deleteLive"
    /\ UNCHANGED <<provVars, tierVars, callVars, listVars, invs, histVars>>

DeleteLive ==
    /\ ipc = "deleteLive"
    /\ \/ \E j \in keys :
             /\ liveTier' = [liveTier EXCEPT ![j] = None]
             /\ keys' = keys \ {j}
             /\ UNCHANGED ipc
       \/ keys = {} /\ ipc' = "idle" /\ UNCHANGED <<liveTier, keys>>
    /\ UNCHANGED <<provVars, doneTier, callVars, listVars, invs, histVars>>

InvSteps == \/ ScanJobs \/ DeleteJobs \/ ScanDone \/ DeleteDone \/ ScanLive
            \/ DeleteLive

-----------------------------------------------------------------------------
Provider(j) == JobStarts(j) \/ JobLogs(j) \/ JobEnds(j)
Drop(j)     == DropDone(j) \/ DropLive(j) \/ DropMarker(j)

Next ==
    \/ \E j \in Jobs : Provider(j) \/ Drop(j)
    \/ DropJobs
    \/ \E c \in Callers : (\E j \in Jobs : Request(c, j)) \/ Steps(c) \/ Reset(c)
    \/ \E l \in Listers : ListMiss(l) \/ ListSteps(l)
    \/ Invalidate \/ InvSteps

Spec == Init /\ [][Next]_vars

\* A goroutine that can run does; a fetch ends, with a trace or with the
\* error of its 30 s timeout.  Nothing is assumed of clients, of the provider
\* and of expiry.
Fairness ==
    /\ \A c \in Callers : WF_vars(Steps(c))
    /\ \A l \in Listers : WF_vars(ListSteps(l))
    /\ WF_vars(InvSteps)

FairSpec == Spec /\ Fairness

-----------------------------------------------------------------------------
(* Properties.                                                             *)

CallerPC == {"idle", "getDone", "getLive", "do", "wait", "recheckDone",
             "recheckLive", "fetch", "classify", "store", "finish", "answered"}
ListerPC == {"idle", "missed", "wait", "fetch", "mark", "store"}
InvalidatorPC == {"idle", "scanJobs", "deleteJobs", "scanDone", "deleteDone",
                  "scanLive", "deleteLive"}

\* Every variable has its type; a tier, and the caller about to fill it, holds
\* a trace that is neither truncated nor oversized.
TypeOK ==
    /\ status \in [Jobs -> Status]
    /\ log \in [Jobs -> Nat]
    /\ doneTier \in [Jobs -> Entries \cup {None}]
    /\ liveTier \in [Jobs -> Entries \cup {None}]
    /\ marker \in [Jobs -> {"never", "set", "lost"}]
    /\ jobsCache \in Lists \cup {None}
    /\ traceGroup \in [Jobs -> Callers \cup {None}]
    /\ pc \in [Callers -> CallerPC]
    /\ job \in [Callers -> Jobs]
    /\ val \in [Callers -> Results]
    /\ terminal \in [Callers -> BOOLEAN]
    /\ jobsFlight \in Listers \cup {None}
    /\ lpc \in [Listers -> ListerPC]
    /\ listed \in [Listers -> [Jobs -> Status]]
    /\ unmarked \in [Listers -> SUBSET Jobs]
    /\ ipc \in InvalidatorPC
    /\ keys \subseteq Jobs
    /\ invs \in 0 .. MaxInvs
    /\ fetched \in [Jobs -> Traces]
    /\ floor \in [Callers -> Traces]
    /\ \A c \in Callers : pc[c] \in {"classify", "store"} => val[c] \in Stored

\* A job's trace is never in both tiers: a finished trace is not shadowed by,
\* and does not outlive, a stale live one (comment of TerminalAwareCache),
\* although Set writes one tier and looks at neither.
OneTier == \A j \in Jobs : doneTier[j] = None \/ liveTier[j] = None

\* A caller is never answered with less of the log than the service had read
\* before the caller asked, whoever read it and wherever it is cached.
ReadsNeverGoBack ==
    \A c \in Callers :
        pc[c] = "answered" /\ val[c] # Failed => floor[c] <= val[c]

\* singleflight collapses concurrent misses for the same job into a single
\* fetch and store.
OneFetchPerJob ==
    \A c, d \in Callers :
        /\ pc[c] \in {"fetch", "classify", "store"}
        /\ pc[d] \in {"fetch", "classify", "store"}
        /\ job[c] = job[d]
        => c = d

\* Only jobs that have ended are marked, and only their traces are kept in
\* the done tier.
FinishedOnly ==
    \A j \in Jobs : marker[j] = "set" \/ doneTier[j] # None => status[j] \in Ended

\* Nobody reads in the list of jobs that a job has ended before the job was
\* marked: a client that goes on to read its trace finds the marker, unless
\* the store has dropped it since.
ListedIsMarked ==
    jobsCache # None =>
        \A j \in Jobs : jobsCache.jobs[j] \in Ended => marker[j] # "never"

\* When InvalidateCache returns, nothing that was stored before it was called
\* is left in the jobs cache or in a tier.
InvalidateClears ==
    ipc = "idle" =>
        /\ jobsCache # None => jobsCache.born = invs
        /\ \A j \in Jobs : /\ doneTier[j] # None => doneTier[j].born = invs
                          /\ liveTier[j] # None => liveTier[j].born = invs

\* Every request for a trace and for the list of jobs is answered, also those
\* that wait for somebody else's fetch and that fetch fails, and whatever is
\* dropped on the way.
RequestAnswered ==
    /\ \A c \in Callers : pc[c] = "getDone" ~> pc[c] = "answered"
    /\ \A l \in Listers : lpc[l] = "missed" ~> lpc[l] = "idle"

\* The done tier holds whole traces of ended jobs ("finished traces long
\* (done)", pipeline_job_trace_cache.go:12).
DoneTierIsFinal ==
    \A j \in Jobs : doneTier[j] # None => doneTier[j].trace = Snapshot(log[j])

\* Reading through the tiers and the flight is reading a trace.
phase == [c \in Callers |-> CASE pc[c] = "idle" -> "idle"
                               [] pc[c] = "answered" -> "answered"
                               [] OTHER -> "open"]
Reads == INSTANCE TraceReads WITH
            Snapshots <- Traces,
            known  <- fetched,
            asked  <- job,
            answer <- [c \in Callers |-> IF pc[c] = "answered" THEN val[c]
                                                              ELSE Failed]

\* The service implements TraceReads: an answer is a failure or a snapshot the
\* provider handed out, of the job asked for, at least as new as what was
\* known when the request arrived.
ReadsSpec == Reads!Spec
=============================================================================
