----------------------------- MODULE TraceReads -----------------------------
(***************************************************************************)
(* What reading a job's trace through GitFusion promises, with no cache,   *)
(* no tier and no flight in sight.                                         *)
(*                                                                         *)
(* A trace is the log of a CI job.  It only grows, so a snapshot of it is  *)
(* identified with the number of bytes the service read.  known[j] is the  *)
(* newest snapshot of job j the provider has ever handed to the service.   *)
(* A caller that asks for j is later answered with a snapshot that is at   *)
(* least as new as what was known when it asked, and that the provider did *)
(* hand out; or it is told that the read failed.  Several callers may be   *)
(* answered in one step (they shared a fetch).                             *)
(*                                                                         *)
(* PipelineTraces implements this specification.                           *)
(***************************************************************************)
EXTENDS Naturals

CONSTANTS Jobs,     \* job IDs
          Callers,  \* requests for a trace, one goroutine each
          Snapshots,\* what a read may return: numbers of bytes
          Failed    \* the answer of a read that failed

VARIABLES known,    \* known[j]: newest snapshot of j the service was given
          phase,    \* phase[c]: "idle", "open" or "answered"
          asked,    \* asked[c]: the job c asked for last
          floor,    \* floor[c]: known[asked[c]] when c asked
          answer    \* answer[c]: what c was told, Failed unless "answered"

readVars == <<known, phase, asked, floor, answer>>

Init ==
    /\ known = [j \in Jobs |-> 0]
    /\ phase = [c \in Callers |-> "idle"]
    /\ asked \in [Callers -> Jobs]
    /\ floor = [c \in Callers |-> 0]
    /\ answer = [c \in Callers |-> Failed]

\* The provider hands the service a newer snapshot of j.
Learn(j) ==
    /\ \E n \in Snapshots :
          /\ n >= known[j]
          /\ known' = [known EXCEPT ![j] = n]
    /\ UNCHANGED <<phase, asked, floor, answer>>

\* Caller c asks for the trace of j.
Ask(c, j) ==
    /\ phase[c] = "idle"
    /\ phase' = [phase EXCEPT ![c] = "open"]
    /\ asked' = [asked EXCEPT ![c] = j]
    /\ floor' = [floor EXCEPT ![c] = known[j]]
    /\ UNCHANGED <<known, answer>>

\* A snapshot c may be answered with.
Admissible(c, n) ==
    n \in Snapshots /\ floor[c] <= n /\ n <= known[asked[c]]

\* The open callers in S are answered.
Reply(S) ==
    /\ \A c \in S : phase[c] = "open"
    /\ phase' = [c \in Callers |-> IF c \in S THEN "answered" ELSE phase[c]]
    /\ \A c \in Callers : \/ c \notin S /\ answer'[c] = answer[c]
                          \/ c \in S /\ answer'[c] = Failed
                          \/ c \in S /\ Admissible(c, answer'[c])
    /\ UNCHANGED <<known, asked, floor>>

\* The response of c has been written; c may ask again.
Done(c) ==
    /\ phase[c] = "answered"
    /\ phase' = [phase EXCEPT ![c] = "idle"]
    /\ answer' = [answer EXCEPT ![c] = Failed]
    /\ UNCHANGED <<known, asked, floor>>

Next ==
    \/ \E j \in Jobs : Learn(j)
    \/ \E c \in Callers, j \in Jobs : Ask(c, j)
    \/ \E S \in SUBSET Callers : Reply(S)
    \/ \E c \in Callers : Done(c)

Spec == Init /\ [][Next]_readVars
=============================================================================
