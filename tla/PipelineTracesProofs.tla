------------------------ MODULE PipelineTracesProofs ------------------------
(***************************************************************************)
(* Proofs about PipelineTraces, for any sets of jobs, callers and listers, *)
(* any sizes and any bounds.                                               *)
(***************************************************************************)
EXTENDS PipelineTraces, TLAPS

-----------------------------------------------------------------------------
(* Types.                                                                  *)

\* A snapshot is a number of bytes a read may return, and a trace that is not
\* truncated is all the log.
LEMMA SnapshotType ==
    ASSUME NEW n \in Nat
    PROVE  /\ Snapshot(n) \in Traces
           /\ \A m \in Nat : n <= m => Snapshot(n) <= Snapshot(m)
  BY SizesAssumption DEF Snapshot, Traces

\* The initial states have the types.
LEMMA InitType == Init => TypeOK
  BY SizesAssumption DEF Init, TypeOK, Status, Traces, Results, CallerPC, ListerPC, InvalidatorPC

\* The steps of the provider and of the stores keep the types.
LEMMA EnvironmentType ==
    ASSUME TypeOK, NEW j \in Jobs, Provider(j) \/ Drop(j)
    PROVE  TypeOK'
  <1>1. CASE JobStarts(j)
    BY <1>1 DEF TypeOK, JobStarts, Status, tierVars, callVars, listVars, invVars, histVars
  <1>2. CASE JobLogs(j)
    BY <1>2 DEF TypeOK, JobLogs, tierVars, callVars, listVars, invVars, histVars
  <1>3. CASE JobEnds(j)
    <2>1. status' \in [Jobs -> Status]
      BY <1>3 DEF TypeOK, JobEnds, Status, Ended
    <2>2. UNCHANGED <<log, tierVars, callVars, listVars, invVars, histVars>>
      BY <1>3 DEF JobEnds
    <2> QED
      BY <2>1, <2>2 DEF TypeOK, tierVars, callVars, listVars, invVars, histVars
  <1>4. CASE DropDone(j)
    BY <1>4 DEF TypeOK, DropDone, provVars, callVars, listVars, invVars, histVars
  <1>5. CASE DropLive(j)
    BY <1>5 DEF TypeOK, DropLive, provVars, callVars, listVars, invVars, histVars
  <1>6. CASE DropMarker(j)
    BY <1>6 DEF TypeOK, DropMarker, provVars, tierVars, callVars, invVars, histVars
  <1> QED BY <1>1, <1>2, <1>3, <1>4, <1>5, <1>6 DEF Provider, Drop

\* Dropping the list of jobs keeps the types.
LEMMA DropJobsType == TypeOK /\ DropJobs => TypeOK'
  BY DEF TypeOK, DropJobs, provVars, tierVars, callVars, invVars, histVars

\* One look into a tier keeps the types.
LEMMA GetFromType ==
    ASSUME TypeOK, NEW c \in Callers, NEW tier \in [Jobs -> Entries \cup {None}],
           NEW from \in CallerPC,
           NEW hit \in CallerPC \ {"classify", "store"},
           NEW miss \in CallerPC \ {"classify", "store"},
           GetFrom(c, tier, from, hit, miss)
    PROVE  TypeOK'
  <1>1. job[c] \in Jobs
    BY DEF TypeOK
  <1>2. tier[job[c]] # None => tier[job[c]].trace \in Results
    BY <1>1 DEF Entries, Stored, Results
  <1>3. /\ pc' \in [Callers -> CallerPC]
        /\ pc'[c] \notin {"classify", "store"}
        /\ \A d \in Callers : pc'[d] \in {"classify", "store"} => pc'[d] = pc[d] /\ d # c
    BY DEF TypeOK, GetFrom
  <1>4. /\ val' \in [Callers -> Results]
        /\ \A d \in Callers \ {c} : val'[d] = val[d]
    BY <1>1, <1>2 DEF TypeOK, GetFrom
  <1>5. UNCHANGED <<provVars, tierVars, traceGroup, job, terminal, listVars, invVars, histVars>>
    BY DEF GetFrom
  <1> QED
    BY <1>3, <1>4, <1>5 DEF TypeOK, provVars, tierVars, listVars, invVars, histVars

\* An entry stored in one tier leaves both tiers with their types.
LEMMA TiersType ==
    ASSUME NEW j \in Jobs, NEW e \in Entries,
           doneTier \in [Jobs -> Entries \cup {None}],
           liveTier \in [Jobs -> Entries \cup {None}],
           \/ doneTier' = [doneTier EXCEPT ![j] = e] /\ liveTier' = liveTier
           \/ liveTier' = [liveTier EXCEPT ![j] = e] /\ doneTier' = doneTier
    PROVE  /\ doneTier' \in [Jobs -> Entries \cup {None}]
           /\ liveTier' \in [Jobs -> Entries \cup {None}]
  OBVIOUS

\* The steps of a caller keep the types.
LEMMA CallerType ==
    ASSUME TypeOK, NEW c \in Callers, NEW j \in Jobs,
           Request(c, j) \/ Steps(c) \/ Reset(c)
    PROVE  TypeOK'
  <1> USE DEF TypeOK
  <1>0. job[c] \in Jobs
    OBVIOUS
  <1>1. CASE Request(c, j)
    BY <1>1 DEF Request, CallerPC, provVars, tierVars, listVars, invVars
  <1>2. CASE GetDone(c)
    BY <1>2, GetFromType DEF GetDone, CallerPC
  <1>3. CASE GetLive(c)
    BY <1>3, GetFromType DEF GetLive, CallerPC
  <1>4. CASE Do(c)
    <2>1. traceGroup' \in [Jobs -> Callers \cup {None}]
      BY <1>0, <1>4 DEF Do
    <2>2. /\ pc' \in [Callers -> CallerPC]
          /\ \A d \in Callers : pc'[d] \in {"classify", "store"} => pc'[d] = pc[d]
      BY <1>4 DEF Do, CallerPC
    <2>3. UNCHANGED <<provVars, tierVars, job, val, terminal, listVars, invVars, histVars>>
      BY <1>4 DEF Do
    <2> QED BY <2>1, <2>2, <2>3 DEF provVars, tierVars, listVars, invVars, histVars
  <1>5. CASE RecheckDone(c)
    BY <1>5, GetFromType DEF RecheckDone, CallerPC
  <1>6. CASE RecheckLive(c)
    BY <1>6, GetFromType DEF RecheckLive, CallerPC
  <1>7. CASE Fetch(c)
    <2>1. Snapshot(log[job[c]]) \in Traces
      BY <1>0, SnapshotType
    <2>2. Cacheable(Snapshot(log[job[c]])) => Snapshot(log[job[c]]) \in Stored
      BY <2>1 DEF Stored
    <2> QED BY <1>0, <1>7, <2>1, <2>2 DEF Fetch, CallerPC, Results, provVars, tierVars, listVars, invVars
  <1>8. CASE FetchFails(c)
    BY <1>8 DEF FetchFails, CallerPC, provVars, tierVars, listVars, invVars, histVars
  <1>9. CASE Classify(c)
    BY <1>9 DEF Classify, CallerPC, provVars, tierVars, listVars, invVars, histVars
  <1>12. CASE Store(c)
    <2>1. [trace |-> val[c], born |-> invs] \in Entries
      BY <1>12 DEF Store, Entries
    <2>2. /\ doneTier' \in [Jobs -> Entries \cup {None}]
          /\ liveTier' \in [Jobs -> Entries \cup {None}]
      BY <1>0, <1>12, <2>1, TiersType DEF Store
    <2>3. /\ pc' \in [Callers -> CallerPC]
          /\ \A d \in Callers : pc'[d] \in {"classify", "store"} => pc'[d] = pc[d]
      BY <1>12 DEF Store, CallerPC
    <2>4. UNCHANGED <<provVars, traceGroup, job, val, terminal, listVars, invVars, histVars>>
      BY <1>12 DEF Store
    <2> QED BY <2>2, <2>3, <2>4 DEF provVars, listVars, invVars, histVars
  <1>10. CASE Finish(c)
    BY <1>0, <1>10 DEF Finish, CallerPC, provVars, tierVars, listVars, invVars, histVars
  <1>11. CASE Reset(c)
    BY <1>11 DEF Reset, CallerPC, Results, provVars, tierVars, listVars, invVars, histVars
  <1> QED BY <1>1, <1>2, <1>3, <1>4, <1>5, <1>6, <1>7, <1>8, <1>9, <1>10, <1>11, <1>12 DEF Steps

\* The steps of a lister keep the types.
LEMMA ListerType ==
    ASSUME TypeOK, NEW l \in Listers, ListMiss(l) \/ ListSteps(l)
    PROVE  TypeOK'
  <1> USE DEF TypeOK
  <1>0. [j \in Jobs |-> "manual"] \in [Jobs -> Status]
    BY DEF Status
  <1>1. CASE ListMiss(l)
    BY <1>1 DEF ListMiss, ListerPC, provVars, tierVars, callVars, invVars, histVars
  <1>2. CASE ListDo(l)
    BY <1>2 DEF ListDo, ListerPC, provVars, tierVars, callVars, invVars, histVars
  <1>3. CASE ListFetch(l)
    BY <1>3 DEF ListFetch, ListerPC, provVars, tierVars, callVars, invVars, histVars
  <1>4. CASE ListFails(l)
    BY <1>0, <1>4 DEF ListFails, ListReturn, ListerPC, provVars, tierVars, callVars, invVars, histVars
  <1>5. CASE markTerminalJobs(l)
    <2>1. marker' \in [Jobs -> {"never", "set", "lost"}]
      BY <1>5 DEF markTerminalJobs
    <2>2. unmarked' \in [Listers -> SUBSET Jobs]
      <3>1. \A j \in Jobs : [unmarked EXCEPT ![l] = @ \ {j}] \in [Listers -> SUBSET Jobs]
        OBVIOUS
      <3> QED
        BY <1>5, <3>1 DEF markTerminalJobs
    <2>3. lpc' \in [Listers -> ListerPC]
      BY <1>5 DEF markTerminalJobs, ListerPC
    <2>4. UNCHANGED <<provVars, tierVars, callVars, jobsCache, jobsFlight, listed, invVars, histVars>>
      BY <1>5 DEF markTerminalJobs
    <2> QED
      BY <2>1, <2>2, <2>3, <2>4 DEF provVars, tierVars, callVars, invVars, histVars
  <1>6. CASE ListStore(l)
    <2>1. [jobs |-> listed[l], born |-> invs] \in Lists
      BY DEF Lists
    <2> QED
      BY <1>0, <1>6, <2>1 DEF ListStore, ListReturn, ListerPC, provVars, tierVars, callVars, invVars, histVars
  <1> QED BY <1>1, <1>2, <1>3, <1>4, <1>5, <1>6 DEF ListSteps

\* The steps of the invalidator keep the types.
LEMMA InvalidatorType ==
    ASSUME TypeOK, Invalidate \/ InvSteps
    PROVE  TypeOK'
  <1> USE DEF TypeOK, InvalidatorPC
  <1>1. CASE Invalidate
    BY <1>1, SizesAssumption DEF Invalidate, provVars, tierVars, callVars, listVars, histVars
  <1>2. CASE ScanJobs
    BY <1>2 DEF ScanJobs, provVars, tierVars, callVars, listVars, histVars
  <1>3. CASE DeleteJobs
    BY <1>3 DEF DeleteJobs, provVars, tierVars, callVars, histVars
  <1>4. CASE ScanDone
    BY <1>4 DEF ScanDone, provVars, tierVars, callVars, listVars, histVars
  <1>5. CASE DeleteDone
    BY <1>5 DEF DeleteDone, provVars, callVars, listVars, histVars
  <1>6. CASE ScanLive
    BY <1>6 DEF ScanLive, provVars, tierVars, callVars, listVars, histVars
  <1>7. CASE DeleteLive
    BY <1>7 DEF DeleteLive, provVars, callVars, listVars, histVars
  <1> QED BY <1>1, <1>2, <1>3, <1>4, <1>5, <1>6, <1>7 DEF InvSteps

\* A step that changes nothing keeps the types.
LEMMA StutterType == TypeOK /\ UNCHANGED vars => TypeOK'
  BY DEF TypeOK, vars, provVars, tierVars, callVars, listVars, invVars, histVars

\* Type correctness: in every reachable state every variable has its type.
THEOREM TypeCorrect == Spec => []TypeOK
  <1>1. TypeOK /\ [Next]_vars => TypeOK'
    <2> SUFFICES ASSUME TypeOK, [Next]_vars PROVE TypeOK'
      OBVIOUS
    <2>1. ASSUME NEW c \in Callers, Steps(c) PROVE TypeOK'
      <3>1. job[c] \in Jobs
        BY DEF TypeOK
      <3> QED BY <2>1, <3>1, CallerType
    <2>2. ASSUME NEW c \in Callers, Reset(c) PROVE TypeOK'
      <3>1. job[c] \in Jobs
        BY DEF TypeOK
      <3> QED BY <2>2, <3>1, CallerType
    <2>3. ASSUME NEW c \in Callers, NEW j \in Jobs, Request(c, j) PROVE TypeOK'
      BY <2>3, CallerType
    <2>4. ASSUME NEW l \in Listers, ListMiss(l) \/ ListSteps(l) PROVE TypeOK'
      BY <2>4, ListerType
    <2>5. ASSUME NEW j \in Jobs, Provider(j) \/ Drop(j) PROVE TypeOK'
      BY <2>5, EnvironmentType
    <2> QED
      BY <2>1, <2>2, <2>3, <2>4, <2>5, DropJobsType, InvalidatorType, StutterType DEF Next
  <1> QED BY InitType, <1>1, PTL DEF Spec

-----------------------------------------------------------------------------
(* Reading.  ReadInv is the inductive invariant behind OneTier,            *)
(* OneFetchPerJob and ReadsNeverGoBack: the flight of a job has one        *)
(* leader, which has seen both tiers empty since it took the flight, and   *)
(* what the tiers and the leader hold is the newest snapshot of the job.   *)

Holding == {"classify", "store", "finish", "answered"}

CallerInv(c) ==
    LET j == job[c] IN
    /\ Leads(c) => traceGroup[j] = c
    /\ pc[c] = "recheckLive" => doneTier[j] = None
    /\ pc[c] \in {"fetch", "classify", "store"} =>
           doneTier[j] = None /\ liveTier[j] = None
    /\ pc[c] \in {"classify", "store"} => val[c] = fetched[j]
    /\ pc[c] = "finish" => val[c] \in {Failed, fetched[j]}
    /\ pc[c] = "answered" =>
           val[c] = Failed \/ (floor[c] <= val[c] /\ val[c] <= fetched[j])
    /\ pc[c] \notin Holding => val[c] = Failed
    /\ floor[c] <= fetched[j]

JobInv(j) ==
    /\ doneTier[j] = None \/ liveTier[j] = None
    /\ doneTier[j] # None => doneTier[j].trace = fetched[j]
    /\ liveTier[j] # None => liveTier[j].trace = fetched[j]
    /\ fetched[j] <= Snapshot(log[j])

ReadInv == (\A c \in Callers : CallerInv(c)) /\ (\A j \in Jobs : JobInv(j))

\* ReadInv implies the three properties.
LEMMA ReadInvSuffices ==
    ASSUME TypeOK, ReadInv
    PROVE  OneTier /\ OneFetchPerJob /\ ReadsNeverGoBack
  BY DEF TypeOK, ReadInv, CallerInv, JobInv, Leads, OneTier, OneFetchPerJob, ReadsNeverGoBack

\* ReadInv holds initially.
LEMMA ReadInvInit == Init => ReadInv
  BY SizesAssumption DEF Init, ReadInv, CallerInv, JobInv, Leads, Holding, Snapshot

\* The provider and the stores keep ReadInv.
LEMMA EnvironmentRead ==
    ASSUME TypeOK, ReadInv, NEW j \in Jobs, Provider(j) \/ Drop(j)
    PROVE  ReadInv'
  <1> USE DEF TypeOK, ReadInv, CallerInv, JobInv, Leads, Holding, callVars, histVars
  <1>1. CASE JobStarts(j)
    BY <1>1 DEF JobStarts, tierVars
  <1>2. CASE JobLogs(j)
    <2>1. \A i \in Jobs : Snapshot(log[i]) <= Snapshot(log'[i])
      BY <1>2, SnapshotType DEF JobLogs
    <2>2. \A i \in Jobs : Snapshot(log[i]) \in Nat /\ Snapshot(log'[i]) \in Nat /\ fetched[i] \in Nat
      BY <1>2, SizesAssumption DEF JobLogs, Snapshot, Traces
    <2> QED BY <1>2, <2>1, <2>2 DEF JobLogs, tierVars
  <1>3. CASE JobEnds(j)
    BY <1>3 DEF JobEnds, tierVars
  <1>4. CASE DropDone(j)
    BY <1>4 DEF DropDone, provVars
  <1>5. CASE DropLive(j)
    BY <1>5 DEF DropLive, provVars
  <1>6. CASE DropMarker(j)
    BY <1>6 DEF DropMarker, provVars, tierVars
  <1> QED BY <1>1, <1>2, <1>3, <1>4, <1>5, <1>6 DEF Provider, Drop

\* Two leaders of the same job are one; what they and the tiers hold is a
\* number of bytes.
LEMMA LeaderUnique ==
    ASSUME TypeOK, ReadInv
    PROVE  /\ \A c, d \in Callers : Leads(c) /\ Leads(d) /\ job[c] = job[d] => c = d
           /\ \A j \in Jobs : fetched[j] \in Nat /\ Snapshot(log[j]) \in Nat
           /\ \A c \in Callers : floor[c] \in Nat /\ job[c] \in Jobs
           /\ \A c \in Callers : val[c] # Failed => val[c] \in Nat
           /\ \A c \in Callers : traceGroup[job[c]] = None => ~Leads(c)
  BY SizesAssumption, NoneAssumption
  DEF TypeOK, ReadInv, CallerInv, Traces, Results, Snapshot

\* Looking up a tier keeps ReadInv: an entry holds the newest snapshot.
LEMMA GetFromRead ==
    ASSUME TypeOK, ReadInv, NEW c \in Callers,
           NEW tier, tier \in {doneTier, liveTier},
           NEW from \in CallerPC, NEW hit \in CallerPC, NEW miss \in CallerPC,
           GetFrom(c, tier, from, hit, miss),
           <<from, hit>> \in {<<"getDone", "answered">>, <<"getLive", "answered">>,
                             <<"recheckDone", "finish">>, <<"recheckLive", "finish">>},
           \/ from \in {"getDone", "getLive"} /\ miss \in {"getLive", "do"}
           \/ from = "recheckDone" /\ tier = doneTier /\ miss = "recheckLive"
           \/ from = "recheckLive" /\ tier = liveTier /\ miss = "fetch"
    PROVE  ReadInv'
  <1> USE DEF GetFrom, provVars, tierVars, listVars, invVars, histVars
  <1>1. /\ job' = job /\ doneTier' = doneTier /\ liveTier' = liveTier
        /\ traceGroup' = traceGroup /\ fetched' = fetched /\ floor' = floor
        /\ log' = log
    OBVIOUS
  <1>2. \A j \in Jobs : JobInv(j)'
    BY <1>1 DEF ReadInv, JobInv, Snapshot
  <1>3. ASSUME NEW d \in Callers, d # c PROVE CallerInv(d)'
    <2>1. pc'[d] = pc[d] /\ val'[d] = val[d]
      BY <1>3 DEF TypeOK
    <2> QED BY <1>1, <2>1 DEF ReadInv, CallerInv, Leads, Holding
  <1>4. CallerInv(c)'
    <2>1. CASE tier[job[c]] # None
      <3>1. /\ pc'[c] = hit /\ val'[c] = tier[job[c]].trace /\ pc[c] = from
        BY <2>1 DEF TypeOK
      <3>2. tier[job[c]].trace = fetched[job[c]]
        BY <2>1, LeaderUnique DEF ReadInv, JobInv
      <3> QED
        BY <1>1, <3>1, <3>2, LeaderUnique DEF ReadInv, CallerInv, Leads, Holding
    <2>2. CASE tier[job[c]] = None
      <3>1. /\ pc'[c] = miss /\ val'[c] = val[c] /\ pc[c] = from
        BY <2>2 DEF TypeOK
      <3> QED
        BY <1>1, <2>2, <3>1 DEF ReadInv, CallerInv, Leads, Holding
    <2> QED BY <2>1, <2>2
  <1> QED BY <1>2, <1>3, <1>4 DEF ReadInv

\* The steps of a caller keep ReadInv.
LEMMA CallerRead ==
    ASSUME TypeOK, ReadInv, NEW c \in Callers, NEW j \in Jobs,
           Request(c, j) \/ Steps(c) \/ Reset(c)
    PROVE  ReadInv'
  <1> USE LeaderUnique DEF TypeOK, ReadInv, CallerInv, JobInv, Leads, Holding
  <1>1. CASE Request(c, j)
    BY <1>1 DEF Request, provVars, tierVars
  <1>2. CASE GetDone(c)
    BY <1>2, GetFromRead DEF GetDone, CallerPC
  <1>3. CASE GetLive(c)
    BY <1>3, GetFromRead DEF GetLive, CallerPC
  <1>4. CASE Do(c)
    BY <1>4 DEF Do, provVars, tierVars, histVars
  <1>5. CASE RecheckDone(c)
    BY <1>5, GetFromRead DEF RecheckDone, CallerPC
  <1>6. CASE RecheckLive(c)
    BY <1>6, GetFromRead DEF RecheckLive, CallerPC
  <1>7. CASE Fetch(c)
    BY <1>7 DEF Fetch, provVars, tierVars
  <1>8. CASE FetchFails(c)
    BY <1>8 DEF FetchFails, provVars, tierVars, histVars
  <1>9. CASE Classify(c)
    BY <1>9 DEF Classify, provVars, tierVars, histVars
  <1>10. CASE Store(c)
    <2> USE <1>10 DEF Store, provVars, histVars
    <2>1. /\ doneTier[job[c]] = None /\ liveTier[job[c]] = None
          /\ val[c] = fetched[job[c]]
      OBVIOUS
    <2>2. \A i \in Jobs : JobInv(i)'
      BY <2>1
    <2>3. \A d \in Callers \ {c} : Leads(d) => job[d] # job[c]
      OBVIOUS
    <2>4. \A d \in Callers : CallerInv(d)'
      BY <2>3
    <2> QED BY <2>2, <2>4
  <1>11. CASE Finish(c)
    BY <1>11 DEF Finish, Waiters, provVars, tierVars, histVars
  <1>12. CASE Reset(c)
    BY <1>12 DEF Reset, provVars, tierVars, histVars
  <1> QED BY <1>1, <1>2, <1>3, <1>4, <1>5, <1>6, <1>7, <1>8, <1>9, <1>10, <1>11, <1>12 DEF Steps

\* A step of somebody who is not a caller and who adds nothing to a tier
\* keeps ReadInv.
LEMMA OtherRead ==
    ASSUME TypeOK, ReadInv, UNCHANGED <<log, callVars, histVars>>,
           \A j \in Jobs : doneTier'[j] = None \/ doneTier'[j] = doneTier[j],
           \A j \in Jobs : liveTier'[j] = None \/ liveTier'[j] = liveTier[j]
    PROVE  ReadInv'
  BY DEF TypeOK, ReadInv, CallerInv, JobInv, Leads, Holding, callVars, histVars, Snapshot

\* The listers, the invalidator and the dropped list are such steps.
LEMMA OthersRead ==
    ASSUME TypeOK, ReadInv,
           \/ \E l \in Listers : ListMiss(l) \/ ListSteps(l)
           \/ DropJobs \/ Invalidate \/ InvSteps
    PROVE  ReadInv'
  <1> USE OtherRead DEF provVars, tierVars, callVars, histVars
  <1>1. ASSUME NEW l \in Listers, ListMiss(l) \/ ListSteps(l) PROVE ReadInv'
    BY <1>1 DEF ListMiss, ListSteps, ListDo, ListFetch, ListFails, markTerminalJobs, ListStore
  <1>2. CASE DropJobs
    BY <1>2 DEF DropJobs
  <1>3. CASE Invalidate \/ ScanJobs \/ DeleteJobs \/ ScanDone \/ ScanLive
    BY <1>3 DEF Invalidate, ScanJobs, DeleteJobs, ScanDone, ScanLive
  <1>4. CASE DeleteDone
    BY <1>4 DEF DeleteDone, TypeOK
  <1>5. CASE DeleteLive
    BY <1>5 DEF DeleteLive, TypeOK
  <1> QED BY <1>1, <1>2, <1>3, <1>4, <1>5 DEF InvSteps

\* ReadInv is an invariant.
THEOREM ReadInvariant == Spec => []ReadInv
  <1>1. TypeOK /\ ReadInv /\ [Next]_vars => ReadInv'
    <2> SUFFICES ASSUME TypeOK, ReadInv, [Next]_vars PROVE ReadInv'
      OBVIOUS
    <2>1. ASSUME NEW c \in Callers, Steps(c) \/ Reset(c) PROVE ReadInv'
      <3>1. job[c] \in Jobs
        BY DEF TypeOK
      <3> QED BY <2>1, <3>1, CallerRead
    <2>2. ASSUME NEW c \in Callers, NEW j \in Jobs, Request(c, j) PROVE ReadInv'
      BY <2>2, CallerRead
    <2>3. ASSUME NEW j \in Jobs, Provider(j) \/ Drop(j) PROVE ReadInv'
      BY <2>3, EnvironmentRead
    <2>4. CASE UNCHANGED vars
      BY <2>4, OtherRead DEF vars, provVars, tierVars
    <2> QED BY <2>1, <2>2, <2>3, <2>4, OthersRead DEF Next
  <1> QED BY ReadInvInit, TypeCorrect, <1>1, PTL DEF Spec

\* A job's trace is never in both tiers.
THEOREM TiersExclude == Spec => []OneTier
  <1>1. TypeOK /\ ReadInv => OneTier
    BY ReadInvSuffices
  <1> QED BY TypeCorrect, ReadInvariant, <1>1, PTL

\* At most one fetch of a job is under way, whatever the number of callers.
THEOREM FetchesCollapse == Spec => []OneFetchPerJob
  <1>1. TypeOK /\ ReadInv => OneFetchPerJob
    BY ReadInvSuffices
  <1> QED BY TypeCorrect, ReadInvariant, <1>1, PTL

\* No caller is answered with less than was read before it asked.
THEOREM ReadsAreMonotonic == Spec => []ReadsNeverGoBack
  <1>1. TypeOK /\ ReadInv => ReadsNeverGoBack
    BY ReadInvSuffices
  <1> QED BY TypeCorrect, ReadInvariant, <1>1, PTL

-----------------------------------------------------------------------------
(* Markers.  MarkInv adds to FinishedOnly and ListedIsMarked what a lister *)
(* and a caller hold on the way to the stores.                             *)

\* The loop of a lister has passed the job.
Passed(l, j) == lpc[l] = "store" \/ (lpc[l] = "mark" /\ j \notin unmarked[l])

MarkInv ==
    /\ FinishedOnly
    /\ ListedIsMarked
    /\ \A c \in Callers : pc[c] = "store" /\ terminal[c] => status[job[c]] \in Ended
    /\ \A l \in Listers, j \in Jobs : listed[l][j] \in Ended => status[j] \in Ended
    /\ \A l \in Listers, j \in Jobs :
           Passed(l, j) /\ listed[l][j] \in Ended => marker[j] # "never"

\* MarkInv holds initially.
LEMMA MarkInvInit == Init => MarkInv
  BY NoneAssumption DEF Init, MarkInv, Passed, FinishedOnly, ListedIsMarked, Ended

\* The provider and the stores keep MarkInv: a job that has ended stays so.
LEMMA EnvironmentMark ==
    ASSUME TypeOK, MarkInv,
           (\E j \in Jobs : Provider(j) \/ Drop(j)) \/ DropJobs
    PROVE  MarkInv'
  <1> USE DEF TypeOK, MarkInv, Passed, FinishedOnly, ListedIsMarked, callVars, invVars, histVars
  <1>1. ASSUME NEW j \in Jobs, Provider(j) PROVE MarkInv'
    <2>1. \A i \in Jobs : status[i] \in Ended => status'[i] \in Ended
      BY <1>1 DEF Provider, JobStarts, JobLogs, JobEnds, Ended, Status
    <2>2. UNCHANGED <<tierVars, callVars, listVars, invVars>>
      BY <1>1 DEF Provider, JobStarts, JobLogs, JobEnds
    <2> QED BY <2>1, <2>2 DEF tierVars, listVars
  <1>2. ASSUME NEW j \in Jobs, Drop(j) PROVE MarkInv'
    BY <1>2 DEF Drop, DropDone, DropLive, DropMarker, provVars, tierVars, listVars
  <1>3. CASE DropJobs
    BY <1>3 DEF DropJobs, provVars, tierVars
  <1> QED BY <1>1, <1>2, <1>3

\* A caller stores a trace in the done tier only when it saw the marker.
LEMMA CallerMark ==
    ASSUME TypeOK, MarkInv, NEW c \in Callers,
           Steps(c) \/ Reset(c) \/ \E j \in Jobs : Request(c, j)
    PROVE  MarkInv'
  <1> USE DEF TypeOK, MarkInv, Passed, FinishedOnly, ListedIsMarked, provVars, listVars
  <1>1. CASE Store(c)
    BY <1>1 DEF Store
  <1>2. CASE Classify(c)
    BY <1>2 DEF Classify, tierVars
  <1>3. CASE \E j \in Jobs : Request(c, j)
    BY <1>3 DEF Request, tierVars
  <1>4. CASE Do(c) \/ Reset(c) \/ FetchFails(c) \/ Finish(c)
    BY <1>4 DEF Do, Reset, FetchFails, Finish, tierVars
  <1>5. CASE Fetch(c)
    BY <1>5 DEF Fetch, tierVars
  <1>6. CASE GetDone(c) \/ GetLive(c) \/ RecheckDone(c) \/ RecheckLive(c)
    BY <1>6 DEF GetDone, GetLive, RecheckDone, RecheckLive, GetFrom, tierVars
  <1> QED BY <1>1, <1>2, <1>3, <1>4, <1>5, <1>6 DEF Steps

\* A lister marks before it stores.
LEMMA ListerMark ==
    ASSUME TypeOK, MarkInv, NEW l \in Listers, ListMiss(l) \/ ListSteps(l)
    PROVE  MarkInv'
  <1> USE DEF TypeOK, MarkInv, Passed, FinishedOnly, ListedIsMarked, provVars, tierVars, callVars, Ended
  <1>1. CASE ListMiss(l) \/ ListDo(l)
    BY <1>1 DEF ListMiss, ListDo
  <1>2. CASE ListFetch(l)
    BY <1>2 DEF ListFetch
  <1>3. CASE ListFails(l)
    BY <1>3 DEF ListFails, ListReturn
  <1>4. CASE markTerminalJobs(l)
    <2>1. \A s \in Status : isTerminalJobStatus(s) <=> s \in Ended
      BY DEF isTerminalJobStatus, Status
    <2>2. UNCHANGED <<status, tierVars, callVars, jobsCache, listed>>
      BY <1>4 DEF markTerminalJobs
    <2>3. CASE unmarked[l] = {}
      BY <1>4, <2>2, <2>3 DEF markTerminalJobs
    <2>4. ASSUME NEW j \in unmarked[l],
                 marker' = IF isTerminalJobStatus(listed[l][j])
                           THEN [marker EXCEPT ![j] = "set"] ELSE marker,
                 unmarked' = [unmarked EXCEPT ![l] = @ \ {j}],
                 UNCHANGED lpc
          PROVE  MarkInv'
      <3>1. j \in Jobs /\ listed[l][j] \in Status
        OBVIOUS
      <3>2. \A i \in Jobs : marker'[i] = IF i = j /\ listed[l][j] \in Ended THEN "set" ELSE marker[i]
        BY <2>1, <2>4, <3>1
      <3>3. FinishedOnly' /\ ListedIsMarked'
        BY <2>2, <3>1, <3>2
      <3>4. \A m \in Listers, i \in Jobs : Passed(m, i)' => Passed(m, i) \/ (m = l /\ i = j)
        BY <2>4, <3>1
      <3>5. \A m \in Listers, i \in Jobs :
               Passed(m, i)' /\ listed'[m][i] \in Ended => marker'[i] # "never"
        BY <2>2, <3>2, <3>4
      <3> QED
        BY <2>2, <3>3, <3>5
    <2> QED
      BY <1>4, <2>3, <2>4 DEF markTerminalJobs
  <1>5. CASE ListStore(l)
    BY <1>5, NoneAssumption DEF ListStore, ListReturn
  <1> QED BY <1>1, <1>2, <1>3, <1>4, <1>5 DEF ListSteps

\* The invalidator leaves the markers alone.
LEMMA InvalidatorMark ==
    ASSUME TypeOK, MarkInv, Invalidate \/ InvSteps
    PROVE  MarkInv'
  BY DEF TypeOK, MarkInv, Passed, FinishedOnly, ListedIsMarked, Invalidate, InvSteps, ScanJobs,
         DeleteJobs, ScanDone, DeleteDone, ScanLive, DeleteLive, provVars, tierVars,
         callVars, listVars

\* MarkInv is an invariant.
THEOREM MarkInvariant == Spec => []MarkInv
  <1>1. TypeOK /\ MarkInv /\ UNCHANGED vars => MarkInv'
    BY DEF MarkInv, Passed, FinishedOnly, ListedIsMarked, vars, provVars, tierVars, callVars, listVars
  <1>2. TypeOK /\ MarkInv /\ [Next]_vars => MarkInv'
    BY <1>1, EnvironmentMark, CallerMark, ListerMark, InvalidatorMark DEF Next
  <1> QED BY MarkInvInit, TypeCorrect, <1>2, PTL DEF Spec

\* Only ended jobs are marked, and only their traces are in the done tier.
THEOREM OnlyFinished == Spec => []FinishedOnly
  <1>1. MarkInv => FinishedOnly
    BY DEF MarkInv
  <1> QED BY MarkInvariant, <1>1, PTL

\* A list of jobs is not visible before the jobs it shows ended are marked.
THEOREM MarkedBeforeListed == Spec => []ListedIsMarked
  <1>1. MarkInv => ListedIsMarked
    BY DEF MarkInv
  <1> QED BY MarkInvariant, <1>1, PTL

-----------------------------------------------------------------------------
(* Invalidation.  What ClearInv says of a store holds once its deletions   *)
(* are over, and of the keys already deleted while they are under way.     *)

Fresh(entry) == entry # None => entry.born = invs

ClearInv ==
    /\ ipc \notin {"scanJobs", "deleteJobs"} => Fresh(jobsCache)
    /\ ipc = "deleteDone" => \A j \in Jobs \ keys : Fresh(doneTier[j])
    /\ ipc \in {"scanLive", "deleteLive", "idle"} => \A j \in Jobs : Fresh(doneTier[j])
    /\ ipc = "deleteLive" => \A j \in Jobs \ keys : Fresh(liveTier[j])
    /\ ipc = "idle" => \A j \in Jobs : Fresh(liveTier[j])

\* A step of anybody but the invalidator leaves in a store what was there,
\* nothing, or an entry born in the current invalidation.
LEMMA OthersClear ==
    ASSUME TypeOK, ClearInv, UNCHANGED invVars,
           \/ jobsCache' \in {jobsCache, None}
           \/ jobsCache'.born = invs,
           \A j \in Jobs : \/ doneTier'[j] \in {doneTier[j], None}
                          \/ doneTier'[j].born = invs,
           \A j \in Jobs : \/ liveTier'[j] \in {liveTier[j], None}
                          \/ liveTier'[j].born = invs
    PROVE  ClearInv'
  <1>1. UNCHANGED <<ipc, keys, invs>>
    BY DEF invVars
  <1>2. Fresh(jobsCache) => Fresh(jobsCache)'
    BY <1>1 DEF Fresh
  <1>3. \A j \in Jobs : Fresh(doneTier[j]) => Fresh(doneTier[j])'
    BY <1>1 DEF Fresh
  <1>4. \A j \in Jobs : Fresh(liveTier[j]) => Fresh(liveTier[j])'
    BY <1>1 DEF Fresh
  <1> QED BY <1>1, <1>2, <1>3, <1>4 DEF ClearInv

\* The invalidator keeps ClearInv.
LEMMA InvalidatorClear ==
    ASSUME TypeOK, ClearInv, Invalidate \/ InvSteps
    PROVE  ClearInv'
  <1> USE DEF TypeOK, ClearInv, Fresh, provVars, tierVars, callVars, listVars, histVars
  <1>1. CASE Invalidate
    BY <1>1 DEF Invalidate
  <1>2. CASE ScanJobs
    BY <1>2 DEF ScanJobs
  <1>3. CASE DeleteJobs
    BY <1>3 DEF DeleteJobs
  <1>4. CASE ScanDone
    BY <1>4 DEF ScanDone
  <1>5. CASE DeleteDone
    BY <1>5 DEF DeleteDone
  <1>6. CASE ScanLive
    BY <1>6 DEF ScanLive
  <1>7. CASE DeleteLive
    BY <1>7 DEF DeleteLive
  <1> QED BY <1>1, <1>2, <1>3, <1>4, <1>5, <1>6, <1>7 DEF InvSteps

\* When InvalidateCache returns, nothing stored before it was called is left.
THEOREM InvalidationClears == Spec => []InvalidateClears
  <1>1. Init => ClearInv
    BY DEF Init, ClearInv, Fresh
  <1>2. TypeOK /\ ClearInv /\ [Next]_vars => ClearInv'
    <2> SUFFICES ASSUME TypeOK, ClearInv, [Next]_vars PROVE ClearInv'
      OBVIOUS
    <2> USE OthersClear DEF provVars, tierVars, callVars, listVars, invVars, histVars
    <2>1. ASSUME NEW j \in Jobs, Provider(j) \/ Drop(j) PROVE ClearInv'
      BY <2>1 DEF Provider, Drop, JobStarts, JobLogs, JobEnds, DropDone, DropLive, DropMarker, TypeOK
    <2>2. CASE DropJobs \/ UNCHANGED vars
      BY <2>2 DEF DropJobs, vars
    <2>3. ASSUME NEW c \in Callers, Steps(c) \/ Reset(c) \/ \E j \in Jobs : Request(c, j)
          PROVE  ClearInv'
      <3>1. CASE Store(c)
        BY <3>1 DEF Store, TypeOK
      <3>2. CASE UNCHANGED <<doneTier, liveTier, jobsCache, invVars>>
        BY <3>2
      <3> QED
        BY <2>3, <3>1, <3>2 DEF Steps, Reset, Request, GetDone, GetLive, Do, RecheckDone,
           RecheckLive, GetFrom, Fetch, FetchFails, Classify, Finish
    <2>4. ASSUME NEW l \in Listers, ListMiss(l) \/ ListSteps(l) PROVE ClearInv'
      <3>1. CASE ListStore(l)
        BY <3>1 DEF ListStore, TypeOK
      <3> QED
        BY <2>4, <3>1 DEF ListMiss, ListSteps, ListDo, ListFetch, ListFails, markTerminalJobs
    <2> QED BY <2>1, <2>2, <2>3, <2>4, InvalidatorClear DEF Next
  <1>3. ClearInv => InvalidateClears
    BY DEF ClearInv, Fresh, InvalidateClears
  <1> QED BY TypeCorrect, <1>1, <1>2, <1>3, PTL DEF Spec

-----------------------------------------------------------------------------
(* PipelineTraces implements TraceReads, step by step.                     *)

\* The steps of a caller between its request and its answer.
Open == CallerPC \ {"idle", "answered"}

readAnswer == [c \in Callers |-> IF pc[c] = "answered" THEN val[c] ELSE Failed]

\* What the mapped variables see of a step.
Unseen == /\ UNCHANGED <<fetched, job, floor>>
          /\ phase' = phase
          /\ readAnswer' = readAnswer

\* The initial states map to initial states of TraceReads.
LEMMA InitMaps == Init => Reads!Init
  BY DEF Init, Reads!Init, phase

\* An unseen step is a stutter of TraceReads.
LEMMA UnseenStutters == Unseen => UNCHANGED Reads!readVars
  BY DEF Unseen, Reads!readVars, readAnswer

\* Steps that leave the callers' pc and val alone are unseen.
LEMMA OthersUnseen ==
    ASSUME UNCHANGED <<pc, val, job, fetched, floor>>
    PROVE  Unseen
  BY DEF Unseen, phase, readAnswer

\* A caller that moves from one open step to another is unseen.
LEMMA InnerUnseen ==
    ASSUME TypeOK, NEW c \in Callers, NEW p \in Open, pc[c] \in Open,
           pc' = [pc EXCEPT ![c] = p],
           \A d \in Callers \ {c} : val'[d] = val[d],
           UNCHANGED <<job, fetched, floor>>
    PROVE  Unseen
  <1>1. \A d \in Callers \ {c} : pc'[d] = pc[d]
    BY DEF TypeOK
  <1>2. pc'[c] = p
    BY DEF TypeOK
  <1>3. phase' = phase
    BY <1>1, <1>2 DEF phase, Open
  <1>4. readAnswer' = readAnswer
    BY <1>1, <1>2 DEF readAnswer, Open
  <1> QED BY <1>3, <1>4 DEF Unseen

\* Answering the callers in S, all with the same admissible result, is Reply.
LEMMA AnswerMaps ==
    ASSUME TypeOK, NEW S \in SUBSET Callers, NEW v \in Results,
           \A c \in S : pc[c] \in Open,
           \A c \in S : v = Failed \/ Reads!Admissible(c, v),
           pc' = [c \in Callers |-> IF c \in S THEN "answered" ELSE pc[c]],
           \A c \in S : val'[c] = v,
           \A c \in Callers \ S : val'[c] = val[c],
           UNCHANGED <<job, fetched, floor>>
    PROVE  Reads!Reply(S)
  <1>1. \A c \in S : phase[c] = "open"
    BY DEF phase, Open
  <1>2. phase' = [c \in Callers |-> IF c \in S THEN "answered" ELSE phase[c]]
    BY DEF phase
  <1>3. \A c \in Callers : \/ c \notin S /\ readAnswer'[c] = readAnswer[c]
                           \/ c \in S /\ readAnswer'[c] = Failed
                           \/ c \in S /\ Reads!Admissible(c, readAnswer'[c])
    <2> SUFFICES ASSUME NEW c \in Callers
                 PROVE  \/ c \notin S /\ readAnswer'[c] = readAnswer[c]
                        \/ c \in S /\ readAnswer'[c] = Failed
                        \/ c \in S /\ Reads!Admissible(c, readAnswer'[c])
      OBVIOUS
    <2>1. CASE c \in S
      BY <2>1 DEF readAnswer
    <2>2. CASE c \notin S
      BY <2>2 DEF readAnswer
    <2> QED BY <2>1, <2>2
  <1> QED BY <1>1, <1>2, <1>3 DEF Reads!Reply, readAnswer

\* The newest snapshot of its job is an admissible answer to an open caller.
LEMMA NewestAdmissible ==
    ASSUME TypeOK, ReadInv, NEW c \in Callers
    PROVE  Reads!Admissible(c, fetched[job[c]])
  BY SizesAssumption DEF TypeOK, ReadInv, CallerInv, Reads!Admissible, Traces

\* A look into a tier answers the caller, when it is not under the flight, or
\* is unseen.
LEMMA GetFromMaps ==
    ASSUME TypeOK, ReadInv, NEW c \in Callers, NEW tier \in {doneTier, liveTier},
           NEW from \in Open, NEW hit \in CallerPC \ {"idle"}, NEW miss \in Open,
           GetFrom(c, tier, from, hit, miss)
    PROVE  Reads!Reply({c}) \/ Unseen
  <1> USE DEF GetFrom, histVars
  <1>1. CASE tier[job[c]] = None
    BY <1>1, InnerUnseen
  <1>2. CASE tier[job[c]] # None /\ hit \in Open
    <2>1. \A d \in Callers \ {c} : val'[d] = val[d]
      BY <1>2 DEF TypeOK
    <2> QED BY <1>2, <2>1, InnerUnseen
  <1>3. CASE tier[job[c]] # None /\ hit = "answered"
    <2> DEFINE v == tier[job[c]].trace
    <2>1. v = fetched[job[c]]
      BY <1>3, LeaderUnique DEF ReadInv, JobInv
    <2>2. Reads!Admissible(c, v) /\ v \in Results
      BY <2>1, NewestAdmissible DEF TypeOK, Results
    <2>3. /\ val'[c] = v
          /\ \A d \in Callers \ {c} : val'[d] = val[d]
          /\ pc[c] \in Open
          /\ pc' = [d \in Callers |-> IF d \in {c} THEN "answered" ELSE pc[d]]
      BY <1>3 DEF TypeOK
    <2> HIDE DEF v
    <2>4. Reads!Reply({c})
      BY <2>2, <2>3, AnswerMaps
    <2> QED BY <2>4
  <1> QED BY <1>1, <1>2, <1>3 DEF Open

\* Every step of a caller is a step of TraceReads or is unseen.
LEMMA CallerMaps ==
    ASSUME TypeOK, ReadInv, NEW c \in Callers, Steps(c)
    PROVE  Reads!Next \/ Unseen
  <1>0. job[c] \in Jobs /\ {c} \in SUBSET Callers
    BY DEF TypeOK
  <1>1. CASE GetDone(c)
    BY <1>1, <1>0, GetFromMaps DEF GetDone, Open, CallerPC, Reads!Next
  <1>2. CASE GetLive(c)
    BY <1>2, <1>0, GetFromMaps DEF GetLive, Open, CallerPC, Reads!Next
  <1>3. CASE RecheckDone(c)
    BY <1>3, <1>0, GetFromMaps DEF RecheckDone, Open, CallerPC, Reads!Next
  <1>4. CASE RecheckLive(c)
    BY <1>4, <1>0, GetFromMaps DEF RecheckLive, Open, CallerPC, Reads!Next
  <1>5. CASE Do(c)
    BY <1>5, InnerUnseen DEF Do, Open, CallerPC, histVars
  <1>6. CASE FetchFails(c)
    BY <1>6, InnerUnseen DEF FetchFails, Open, CallerPC, histVars
  <1>7. CASE Classify(c)
    BY <1>7, InnerUnseen DEF Classify, Open, CallerPC, histVars
  <1>8. CASE Store(c)
    BY <1>8, InnerUnseen DEF Store, Open, CallerPC, histVars
  <1>9. CASE Fetch(c)
    <2> DEFINE n == Snapshot(log[job[c]])
               p == IF Cacheable(n) THEN "classify" ELSE "finish"
    <2>1. n \in Traces /\ n >= fetched[job[c]]
      BY <1>0, SnapshotType, LeaderUnique DEF ReadInv, JobInv, TypeOK
    <2>2. p \in Open /\ pc[c] \in Open /\ pc' = [pc EXCEPT ![c] = p]
      BY <1>9 DEF Fetch, Open, CallerPC
    <2>3. \A d \in Callers \ {c} : val'[d] = val[d]
      BY <1>9 DEF Fetch, TypeOK
    <2>4. phase' = phase /\ readAnswer' = readAnswer
      BY <2>2, <2>3 DEF TypeOK, phase, readAnswer, Open
    <2>5. Reads!Learn(job[c])
      BY <1>9, <2>1, <2>4 DEF Fetch, Reads!Learn, readAnswer
    <2> QED BY <1>0, <2>5 DEF Reads!Next
  <1>10. CASE Finish(c)
    <2>0. PICK S \in SUBSET Callers : S = Waiters(job[c]) \cup {c}
      BY DEF Waiters
    <2>1. \A d \in S : pc[d] \in Open /\ job[d] = job[c]
      BY <1>10, <2>0 DEF Finish, Waiters, Open, CallerPC
    <2>2. val[c] \in Results /\ val[c] \in {Failed, fetched[job[c]]}
      BY <1>10 DEF Finish, ReadInv, CallerInv, TypeOK
    <2>3. \A d \in S : val[c] = Failed \/ Reads!Admissible(d, val[c])
      BY <2>1, <2>2, NewestAdmissible
    <2>4. /\ pc' = [d \in Callers |-> IF d \in S THEN "answered" ELSE pc[d]]
          /\ \A d \in S : val'[d] = val[c]
          /\ \A d \in Callers \ S : val'[d] = val[d]
          /\ UNCHANGED <<job, fetched, floor>>
      BY <1>10, <2>0 DEF Finish, histVars
    <2>5. Reads!Reply(S)
      <3>1. PICK v \in Results : v = val[c]
        BY <2>2
      <3> QED BY <3>1, <2>1, <2>3, <2>4, AnswerMaps
    <2> QED BY <2>5 DEF Reads!Next
  <1> QED BY <1>1, <1>2, <1>3, <1>4, <1>5, <1>6, <1>7, <1>8, <1>9, <1>10 DEF Steps

\* A request is Ask, a written response Done.
LEMMA ClientMaps ==
    ASSUME TypeOK, ReadInv, NEW c \in Callers
    PROVE  /\ \A j \in Jobs : Request(c, j) => Reads!Ask(c, j)
           /\ Reset(c) => Reads!Done(c)
  <1>1. ASSUME NEW j \in Jobs, Request(c, j) PROVE Reads!Ask(c, j)
    <2>1. phase[c] = "idle" /\ phase' = [phase EXCEPT ![c] = "open"]
      BY <1>1 DEF Request, phase, TypeOK
    <2>2. readAnswer' = readAnswer
      BY <1>1 DEF Request, readAnswer, TypeOK
    <2> QED BY <1>1, <2>1, <2>2 DEF Request, Reads!Ask, readAnswer
  <1>2. ASSUME Reset(c) PROVE Reads!Done(c)
    <2>1. phase[c] = "answered" /\ phase' = [phase EXCEPT ![c] = "idle"]
      BY <1>2 DEF Reset, phase, TypeOK
    <2>2. readAnswer' = [readAnswer EXCEPT ![c] = Failed]
      BY <1>2 DEF Reset, readAnswer, TypeOK
    <2> QED BY <1>2, <2>1, <2>2 DEF Reset, Reads!Done, readAnswer, histVars
  <1> QED BY <1>1, <1>2

\* The steps of everybody else are unseen.
LEMMA RestUnseen ==
    ASSUME \/ \E j \in Jobs : Provider(j) \/ Drop(j)
           \/ \E l \in Listers : ListMiss(l) \/ ListSteps(l)
           \/ DropJobs \/ Invalidate \/ InvSteps \/ UNCHANGED vars
    PROVE  Unseen
  <1>1. UNCHANGED <<callVars, histVars>>
    BY DEF Provider, JobStarts, JobLogs, JobEnds, Drop, DropDone, DropLive, DropMarker,
           ListMiss, ListSteps, ListDo, ListFetch, ListFails, markTerminalJobs, ListStore,
           DropJobs, Invalidate, InvSteps, ScanJobs, DeleteJobs, ScanDone, DeleteDone,
           ScanLive, DeleteLive, vars
  <1> QED BY <1>1, OthersUnseen DEF callVars, histVars

\* PipelineTraces implements TraceReads.
THEOREM Implementation == Spec => ReadsSpec
  <1>1. TypeOK /\ ReadInv /\ [Next]_vars => [Reads!Next]_(Reads!readVars)
    <2> SUFFICES ASSUME TypeOK, ReadInv, [Next]_vars
                 PROVE  Reads!Next \/ UNCHANGED Reads!readVars
      OBVIOUS
    <2>1. ASSUME NEW c \in Callers, Steps(c) PROVE Reads!Next \/ Unseen
      BY <2>1, CallerMaps
    <2>2. ASSUME NEW c \in Callers, NEW j \in Jobs, Request(c, j) PROVE Reads!Next
      BY <2>2, ClientMaps DEF Reads!Next
    <2>3. ASSUME NEW c \in Callers, Reset(c) PROVE Reads!Next
      BY <2>3, ClientMaps DEF Reads!Next
    <2> QED BY <2>1, <2>2, <2>3, RestUnseen, UnseenStutters DEF Next
  <1> QED BY InitMaps, TypeCorrect, ReadInvariant, <1>1, PTL DEF Spec, ReadsSpec, Reads!Spec

=============================================================================
