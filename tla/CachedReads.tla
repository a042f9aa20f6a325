---------------------------- MODULE CachedReads ----------------------------
(***************************************************************************)
(* What reading a list through GitFusion promises, with no cache, no       *)
(* settings, no fetch and no refresh in sight.                             *)
(*                                                                         *)
(* A list is the number of its version.  A client that asks for a list is  *)
(* later answered with a version that the provider has had by then, and    *)
(* that is no older than what the last clearing promised before the client *)
(* asked; or it is told that the read failed.  It is answered once, and    *)
(* several may be answered in one step.                                    *)
(*                                                                         *)
(* A clearing begins, and when it is over, it promises for some keys that  *)
(* nobody who asks from then on sees a list from before it began.          *)
(*                                                                         *)
(* ListReads implements this specification, and says for which keys.       *)
(***************************************************************************)
EXTENDS Naturals

CONSTANTS Callers,  \* requests for a list
          Keys,     \* the lists
          None,     \* no answer yet
          Failed    \* the answer of a read that failed

VARIABLES version,  \* version[k]: the provider's list k
          phase,    \* phase[c]: "idle", "open" or "answered"
          asked,    \* asked[c]: the list c asked for last
          floor,    \* floor[c]: what was promised of it when c asked
          answer,   \* answer[c]: what c was told, None unless "answered"
          atWork,   \* is a clearing at work?
          pending,  \* the versions when the last clearing began
          promised  \* promised[k]: who asks from now on sees nothing older

readVars == <<version, phase, asked, floor, answer, atWork, pending, promised>>

Init ==
    /\ version = [k \in Keys |-> 0]
    /\ phase = [c \in Callers |-> "idle"]
    /\ asked \in [Callers -> Keys]
    /\ floor = [c \in Callers |-> 0]
    /\ answer = [c \in Callers |-> None]
    /\ atWork = FALSE
    /\ pending = [k \in Keys |-> 0]
    /\ promised = [k \in Keys |-> 0]

\* List k changes at the provider.
Change(k) ==
    /\ version' = [version EXCEPT ![k] = @ + 1]
    /\ UNCHANGED <<phase, asked, floor, answer, atWork, pending, promised>>

\* Client c asks for list k.
Ask(c, k) ==
    /\ phase[c] # "open"
    /\ phase' = [phase EXCEPT ![c] = "open"]
    /\ asked' = [asked EXCEPT ![c] = k]
    /\ floor' = [floor EXCEPT ![c] = promised[k]]
    /\ answer' = [answer EXCEPT ![c] = None]
    /\ UNCHANGED <<version, atWork, pending, promised>>

\* What c may be answered with.
Admissible(c, n) == n \in Nat /\ floor[c] <= n /\ n <= version[asked[c]]

\* The clients in S are answered.
Reply(S) ==
    /\ \A c \in S : phase[c] = "open"
    /\ phase' = [c \in Callers |-> IF c \in S THEN "answered" ELSE phase[c]]
    /\ \A c \in Callers : \/ c \notin S /\ answer'[c] = answer[c]
                          \/ c \in S /\ (answer'[c] = Failed \/ Admissible(c, answer'[c]))
    /\ UNCHANGED <<version, asked, floor, atWork, pending, promised>>

\* A clearing begins.
Clear ==
    /\ ~atWork /\ atWork' = TRUE
    /\ pending' = version
    /\ UNCHANGED <<version, phase, asked, floor, answer, promised>>

\* It is over, and keeps what it can promise of the lists in Q.
Cleared(Q) ==
    /\ atWork /\ atWork' = FALSE
    /\ promised' = [k \in Keys |-> IF k \in Q THEN pending[k] ELSE promised[k]]
    /\ UNCHANGED <<version, phase, asked, floor, answer, pending>>

Next ==
    \/ \E k \in Keys : Change(k)
    \/ \E c \in Callers, k \in Keys : Ask(c, k)
    \/ \E S \in SUBSET Callers : Reply(S)
    \/ Clear
    \/ \E Q \in SUBSET Keys : Cleared(Q)

Spec == Init /\ [][Next]_readVars
=============================================================================
