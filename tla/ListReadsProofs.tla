-------------------------- MODULE ListReadsProofs --------------------------
(***************************************************************************)
(* Theorems about ListReads, for any number of requests and keys, however  *)
(* often the lists change and the token is rotated.                        *)
(***************************************************************************)
EXTENDS ListReads, TLAPS

-----------------------------------------------------------------------------
(* Types.                                                                  *)

\* The histories keep their types too.
HistoryOK ==
    /\ tokenFloor \in Tokens
    /\ cleared \in [any : [Keys -> Lists], quiet : [Keys -> Lists]]
    /\ clearing \in [any : [Keys -> Lists], quiet : SUBSET Keys]
    /\ need \in [Callers -> [any : Lists, quiet : Lists, token : Tokens]]

Types == TypeOK /\ HistoryOK

\* The steps of a request that have to do with its settings.
SettingsSteps ==
    \/ \E c \in Callers : GetSettings(c) \/ ResolveDo(c)
    \/ ResolveRead \/ ResolveDone \/ ResolveFails

\* Those that have to do with the list.
ListSteps ==
    \/ \E c \in Callers : GetHit(c) \/ GetMiss(c) \/ FetchDo(c)
    \/ \E k \in Keys : FetchRead(k) \/ FetchDone(k) \/ FetchFails(k)
    \/ \E k \in Keys : RefreshRead(k) \/ RefreshDone(k) \/ RefreshFails(k)

\* The environment's.
WorldSteps ==
    \/ \E k \in Keys : Update(k) \/ Drop(k) \/ Age(k)
    \/ Rotate \/ DropSettings

ClearSteps == ScanKeys \/ Invalidated \/ \E k \in Keys : Delete(k)

LEMMA NextSteps ==
    Next <=> \/ SettingsSteps \/ ListSteps \/ WorldSteps \/ ClearSteps
             \/ \E c \in Callers, k \in Keys : Request(c, k)
  BY DEF Next, SettingsSteps, ListSteps, WorldSteps, ClearSteps

LEMMA Apart ==
    /\ None \notin Lists /\ None \notin Tokens /\ Begun \notin Tokens /\ None # Begun
    /\ None # Failed /\ Failed \notin Lists /\ Failed \notin Nat /\ None \notin Nat
    /\ Lists \subseteq Nat /\ Tokens \subseteq Nat /\ 0 \in Lists /\ 0 \in Tokens
    /\ None \notin Fetches
  BY NoneAssumption DEF Lists, Tokens

LEMMA UnreadType == \A t \in Tokens : Unread(t) \in Fetches /\ Unread(t) # None /\ Unread(t).list = None
  BY Apart DEF Unread, Fetches

LEMMA InitTypes == Init => Types
  BY Apart, NoneAssumption DEF Init, Types, TypeOK, HistoryOK

\* A fetch or refresh that has not been read yet is read.
LEMMA ReadType ==
    ASSUME NEW fs \in [Keys -> Fetches \cup {None}], NEW k \in Keys, fs[k] # None, NEW v \in Lists
    PROVE  /\ [fs EXCEPT ![k].list = v] \in [Keys -> Fetches \cup {None}]
           /\ [fs EXCEPT ![k].list = v][k].list = v
           /\ [fs EXCEPT ![k].list = v][k] # None
           /\ \A j \in Keys \ {k} : [fs EXCEPT ![k].list = v][j] = fs[j]
  <1> DEFINE f == [fs[k] EXCEPT !.list = v]
  <1>1. fs[k] \in Fetches
    OBVIOUS
  <1>2. f \in Fetches /\ f.list = v
    BY <1>1 DEF Fetches
  <1>3. [fs EXCEPT ![k].list = v] = [fs EXCEPT ![k] = f]
    OBVIOUS
  <1> HIDE DEF f
  <1> QED
    BY <1>2, <1>3, Apart

\* What changes only the provider or an entry keeps the types.
LEMMA WorldTypes == ASSUME Types, WorldSteps \/ ClearSteps PROVE Types'
  <1> USE Apart, NoneAssumption DEF Types, TypeOK, provider, request, cached, history
  <1>1. ASSUME NEW k \in Keys, Update(k) PROVE Types'
    <2>1. version[k] + 1 \in Lists
      BY <1>1 DEF Update, Lists
    <2> QED
      BY <1>1, <2>1 DEF Update, HistoryOK
  <1>2. ASSUME NEW k \in Keys, Drop(k) PROVE Types'
    BY <1>2 DEF Drop, HistoryOK
  <1>3. ASSUME NEW k \in Keys, Age(k) PROVE Types'
    <2>1. PICK a \in Ages : entry' = [entry EXCEPT ![k].age = a]
      BY <1>3 DEF Age
    <2>2. entry[k] \in [list : Lists, age : Ages]
      BY <1>3 DEF Age
    <2> DEFINE e == [entry[k] EXCEPT !.age = a]
    <2>3. e \in [list : Lists, age : Ages] /\ entry' = [entry EXCEPT ![k] = e]
      BY <2>1, <2>2
    <2> HIDE DEF e
    <2>4. entry' \in [Keys -> [list : Lists, age : Ages] \cup {None}]
      BY <2>3
    <2> QED
      BY <1>3, <2>4 DEF Age, HistoryOK
  <1>4. CASE Rotate
    <2>1. secret + 1 \in Tokens
      BY <1>4 DEF Rotate, Tokens
    <2> QED
      BY <1>4, <2>1 DEF Rotate, HistoryOK
  <1>5. CASE DropSettings
    BY <1>5 DEF DropSettings, HistoryOK
  <1>6. CASE ScanKeys
    <2>1. Scanned \in SUBSET Keys /\ {k \in Keys : fetch[k] = None /\ refresh[k] = None} \in SUBSET Keys
      BY DEF Scanned
    <2> QED
      BY <1>6, <2>1 DEF ScanKeys, HistoryOK
  <1>7. CASE Invalidated
    <2>1. cleared' \in [any : [Keys -> Lists], quiet : [Keys -> Lists]]
      BY <1>7 DEF Invalidated, HistoryOK
    <2> QED
      BY <1>7, <2>1 DEF Invalidated, HistoryOK
  <1>8. ASSUME NEW k \in Keys, Delete(k) PROVE Types'
    <2>1. scanned' \in (SUBSET Keys) \cup {None}
      BY <1>8 DEF Delete
    <2> QED
      BY <1>8, <2>1 DEF Delete, HistoryOK
  <1> QED
    BY <1>1, <1>2, <1>3, <1>4, <1>5, <1>6, <1>7, <1>8 DEF WorldSteps, ClearSteps

\* Getting the settings keeps the types.
LEMMA SettingsTypes ==
    ASSUME Types, SettingsSteps \/ \E c \in Callers, k \in Keys : Request(c, k)
    PROVE  Types'
  <1> USE Apart, NoneAssumption DEF Types, TypeOK, provider, request, cached, history
  <1>1. ASSUME NEW c \in Callers, NEW k \in Keys, Request(c, k) PROVE Types'
    <2>1. [any |-> cleared.any[k], quiet |-> cleared.quiet[k], token |-> tokenFloor]
             \in [any : Lists, quiet : Lists, token : Tokens]
      BY DEF HistoryOK
    <2>2. need' \in [Callers -> [any : Lists, quiet : Lists, token : Tokens]]
      BY <1>1, <2>1 DEF Request, HistoryOK
    <2> QED
      BY <1>1, <2>2 DEF Request, HistoryOK
  <1>2. ASSUME NEW c \in Callers, GetSettings(c) PROVE Types'
    BY <1>2 DEF GetSettings, HistoryOK
  <1>3. ASSUME NEW c \in Callers, ResolveDo(c) PROVE Types'
    BY <1>3 DEF ResolveDo, HistoryOK
  <1>4. CASE ResolveRead
    BY <1>4 DEF ResolveRead, HistoryOK
  <1>5. CASE ResolveDone
    BY <1>5 DEF ResolveDone, HistoryOK
  <1>6. CASE ResolveFails
    BY <1>6 DEF ResolveFails, HistoryOK
  <1> QED
    BY <1>1, <1>2, <1>3, <1>4, <1>5, <1>6 DEF SettingsSteps

\* So do the steps that have to do with the list.
LEMMA ListTypes == ASSUME Types, ListSteps PROVE Types'
  <1> USE Apart, NoneAssumption DEF Types, TypeOK, provider, request, cached, history
  <1>1. ASSUME NEW c \in Callers, GetHit(c) PROVE Types'
    <2>1. entry[key[c]] \in [list : Lists, age : Ages] /\ token[c] \in Tokens
      BY <1>1 DEF GetHit
    <2> DEFINE e == [entry[key[c]] EXCEPT !.age = "new"]
    <2>2. e \in [list : Lists, age : Ages] /\ Unread(token[c]) \in Fetches
      BY <2>1, UnreadType DEF Ages
    <2>3. /\ entry' \in {entry, [entry EXCEPT ![key[c]] = e]}
          /\ refresh' \in {refresh, [refresh EXCEPT ![key[c]] = Unread(token[c])]}
      BY <1>1 DEF GetHit, FetchToken
    <2> HIDE DEF e
    <2>4. /\ entry' \in [Keys -> [list : Lists, age : Ages] \cup {None}]
          /\ refresh' \in [Keys -> Fetches \cup {None}]
      BY <2>2, <2>3
    <2>5. answer' \in [Callers -> Lists \cup {None, Failed}]
      BY <1>1, <2>1 DEF GetHit
    <2> QED
      BY <1>1, <2>4, <2>5 DEF GetHit, HistoryOK
  <1>2. ASSUME NEW c \in Callers, GetMiss(c) PROVE Types'
    BY <1>2 DEF GetMiss, HistoryOK
  <1>3. ASSUME NEW c \in Callers, FetchDo(c) PROVE Types'
    <2>1. Unread(token[c]) \in Fetches /\ Unread(token[c]) # None
      BY <1>3, UnreadType DEF FetchDo
    <2>2. fetch' \in {fetch, [fetch EXCEPT ![key[c]] = Unread(token[c])]} /\ fetch'[key[c]] # None
      BY <1>3, <2>1 DEF FetchDo, FetchToken
    <2>3. /\ fetch' \in [Keys -> Fetches \cup {None}]
          /\ \A k \in Keys : fetch[k] # None => fetch'[k] # None
      BY <2>1, <2>2
    <2> HIDE DEF Fetches
    <2> QED
      BY <1>3, <2>2, <2>3 DEF FetchDo, HistoryOK
  <1>4. ASSUME NEW k \in Keys, FetchRead(k) PROVE Types'
    <2>1. /\ fetch' \in [Keys -> Fetches \cup {None}]
          /\ \A j \in Keys : fetch[j] # None => fetch'[j] # None
      BY <1>4, ReadType DEF FetchRead
    <2> QED
      BY <1>4, <2>1 DEF FetchRead, HistoryOK
  <1>5. ASSUME NEW k \in Keys, FetchDone(k) PROVE Types'
    <2>1. fetch[k].list \in Lists
      BY <1>5 DEF FetchDone, Fetches
    <2>2. /\ entry' \in [Keys -> [list : Lists, age : Ages] \cup {None}]
          /\ answer' \in [Callers -> Lists \cup {None, Failed}]
      BY <1>5, <2>1 DEF FetchDone, Ages
    <2>3. \A c \in Callers : pc'[c] = "waiting" => pc[c] = "waiting" /\ key[c] # k
      BY <1>5 DEF FetchDone, Waiting
    <2>4. \A c \in Callers : pc'[c] \in {pc[c], "done"}
      BY <1>5 DEF FetchDone
    <2>5. pc' \in [Callers -> {"idle", "settings", "unresolved", "resolving",
                               "list", "missed", "waiting", "done"}]
      BY <1>5 DEF FetchDone
    <2> QED
      BY <1>5, <2>2, <2>3, <2>4, <2>5 DEF FetchDone, HistoryOK
  <1>6. ASSUME NEW k \in Keys, FetchFails(k) PROVE Types'
    <2>1. \A c \in Callers : pc'[c] = "waiting" => pc[c] = "waiting" /\ key[c] # k
      BY <1>6 DEF FetchFails, AfterFailure, Waiting
    <2> QED
      BY <1>6, <2>1 DEF FetchFails, AfterFailure, HistoryOK
  <1>7. ASSUME NEW k \in Keys, RefreshRead(k) PROVE Types'
    <2>1. refresh' \in [Keys -> Fetches \cup {None}]
      BY <1>7, ReadType DEF RefreshRead
    <2> QED
      BY <1>7, <2>1 DEF RefreshRead, HistoryOK
  <1>8. ASSUME NEW k \in Keys, RefreshDone(k) PROVE Types'
    <2>1. refresh[k].list \in Lists
      BY <1>8 DEF RefreshDone, Fetches
    <2>2. entry' \in [Keys -> [list : Lists, age : Ages] \cup {None}]
      BY <1>8, <2>1 DEF RefreshDone, Ages
    <2> QED
      BY <1>8, <2>2 DEF RefreshDone, HistoryOK
  <1>9. ASSUME NEW k \in Keys, RefreshFails(k) PROVE Types'
    BY <1>9 DEF RefreshFails, HistoryOK
  <1> QED
    BY <1>1, <1>2, <1>3, <1>4, <1>5, <1>6, <1>7, <1>8, <1>9 DEF ListSteps

LEMMA TypesStep == Types /\ [Next]_vars => Types'
  <1>1. Types /\ UNCHANGED vars => Types'
    BY DEF vars, provider, cached, request, history, Types, TypeOK, HistoryOK
  <1> QED
    BY <1>1, NextSteps, WorldTypes, SettingsTypes, ListTypes

\* Every variable keeps its type, and who waits for a fetch or for settings has one
\* to wait for.
THEOREM TypeCorrect == Spec => []TypeOK
  <1>1. Types => TypeOK
    BY DEF Types
  <1> QED
    BY <1>1, InitTypes, TypesStep, PTL DEF Spec

-----------------------------------------------------------------------------
(* What invalidations promise.                                             *)

\* An entry of a key, and what is read for it, are no older than a version.
Fresh(k, n) == entry[k] # None => entry[k].list >= n

Flying(k, n) ==
    /\ fetch[k] # None /\ fetch[k].list # None     => fetch[k].list >= n
    /\ refresh[k] # None /\ refresh[k].list # None => refresh[k].list >= n

\* What the invalidations that are over have promised to requests that come.
Promised ==
    \A k \in Keys : /\ cleared.quiet[k] <= version[k]
                    /\ Fresh(k, cleared.quiet[k]) /\ Flying(k, cleared.quiet[k])

\* What the one at work is about to: of keys that were not being fetched when it
\* began, all that is newer, or still to be deleted.
Promising ==
    scanned # None => \A k \in Keys :
        /\ cleared.quiet[k] <= clearing.any[k] /\ clearing.any[k] <= version[k]
        /\ k \in clearing.quiet => /\ Flying(k, clearing.any[k])
                                   /\ k \notin scanned => Fresh(k, clearing.any[k])

\* What a request counts on was promised.
Counted == \A c \in Callers : need[c].quiet <= cleared.quiet[key[c]]

Clearing == Types /\ Promised /\ Promising /\ Counted /\ QuietInvalidation

\* Whatever a step reads, stores or drops, it makes nothing older.
LEMMA NothingOlder ==
    ASSUME Types, Next, NEW k \in Keys, NEW n \in Nat, n <= version[k], Flying(k, n)
    PROVE  /\ n <= version'[k]
           /\ Flying(k, n)'
           /\ Fresh(k, n) => Fresh(k, n)'
  <1> USE DEF provider, request, cached, history
  <1>1. /\ version \in [Keys -> Lists] /\ key \in [Callers -> Keys] /\ token \in [Callers -> Tokens \cup {None}]
        /\ entry \in [Keys -> [list : Lists, age : Ages] \cup {None}]
        /\ fetch \in [Keys -> Fetches \cup {None}]
        /\ refresh \in [Keys -> Fetches \cup {None}]
        /\ Types'
        /\ \A c \in Callers : pc[c] \in {"list", "missed", "waiting"} => token[c] \in Tokens
    BY TypesStep DEF Types, TypeOK
  <1>2. Lists \subseteq Nat
    BY Apart
  <1>3. ASSUME UNCHANGED version,
               \A j \in Keys : entry'[j] = entry[j] \/ entry'[j] = None
                               \/ (entry[j] # None /\ entry'[j].list = entry[j].list),
               UNCHANGED <<fetch, refresh>>
        PROVE  /\ n <= version'[k]
               /\ Flying(k, n)'
               /\ Fresh(k, n) => Fresh(k, n)'
    BY <1>3 DEF Flying, Fresh
  <1>4. CASE WorldSteps
    <2>1. ASSUME NEW j \in Keys, Update(j)
          PROVE  n <= version'[k] /\ UNCHANGED <<entry, fetch, refresh>>
      <3>1. version' = [version EXCEPT ![j] = version[j] + 1] /\ UNCHANGED <<entry, fetch, refresh>>
        BY <2>1 DEF Update
      <3>2. version[k] \in Nat
        BY <1>1, <1>2
      <3>3. version'[k] \in {version[k], version[k] + 1}
        BY <1>1, <3>1
      <3> QED
        BY <3>1, <3>2, <3>3
    <2>2. ASSUME NEW j \in Keys, Drop(j) \/ Age(j)
          PROVE  /\ UNCHANGED <<version, fetch, refresh>>
                 /\ \A i \in Keys : entry'[i] = entry[i] \/ entry'[i] = None
                               \/ (entry[i] # None /\ entry'[i].list = entry[i].list)
      <3>1. CASE Drop(j)
        BY <1>1, <3>1 DEF Drop
      <3>2. CASE Age(j)
        <4>1. PICK a \in Ages : entry' = [entry EXCEPT ![j].age = a]
          BY <3>2 DEF Age
        <4>2. entry[j] \in [list : Lists, age : Ages] /\ entry[j] # None
          BY <1>1, <3>2 DEF Age
        <4>3. entry'[j].list = entry[j].list
          BY <1>1, <4>1, <4>2
        <4>4. \A i \in Keys \ {j} : entry'[i] = entry[i]
          BY <1>1, <4>1
        <4> QED
          BY <3>2, <4>2, <4>3, <4>4 DEF Age
      <3> QED
        BY <2>2, <3>1, <3>2
    <2>3. CASE Rotate \/ DropSettings
      BY <1>3, <2>3 DEF Rotate, DropSettings
    <2> QED
      BY <1>3, <1>4, <2>1, <2>2, <2>3 DEF WorldSteps, Flying, Fresh
  <1>5. CASE SettingsSteps \/ \E c \in Callers, j \in Keys : Request(c, j)
    BY <1>3, <1>5 DEF SettingsSteps, Request, GetSettings, ResolveDo, ResolveRead, ResolveDone, ResolveFails
  <1>6. CASE ClearSteps
    BY <1>1, <1>3, <1>6 DEF ClearSteps, ScanKeys, Invalidated, Delete
  <1>7. ASSUME NEW c \in Callers, GetHit(c) \/ GetMiss(c) \/ FetchDo(c)
        PROVE  /\ n <= version'[k]
               /\ Flying(k, n)'
               /\ Fresh(k, n) => Fresh(k, n)'
    <2>1. CASE GetHit(c)
      <3>1. /\ Unread(token[c]).list = None
            /\ refresh' \in {refresh, [refresh EXCEPT ![key[c]] = Unread(token[c])]}
            /\ UNCHANGED <<version, fetch>>
        BY <1>1, <2>1, UnreadType DEF GetHit, FetchToken
      <3>2. Flying(k, n)'
        BY <1>1, <3>1 DEF Flying
      <3>3. entry' \in {entry, [entry EXCEPT ![key[c]].age = "new"]} /\ entry[key[c]] # None
        BY <2>1 DEF GetHit
      <3>4. entry[key[c]] \in [list : Lists, age : Ages]
        BY <1>1, <3>3
      <3>5. \A i \in Keys : entry'[i] = entry[i] \/ (entry[i] # None /\ entry'[i].list = entry[i].list)
        BY <1>1, <3>3, <3>4
      <3> QED
        BY <3>1, <3>2, <3>5 DEF Fresh
    <2>2. CASE GetMiss(c)
      BY <1>3, <2>2 DEF GetMiss
    <2>3. CASE FetchDo(c)
      <3>1. /\ Unread(token[c]).list = None
            /\ fetch' \in {fetch, [fetch EXCEPT ![key[c]] = Unread(token[c])]}
            /\ UNCHANGED <<version, refresh, entry>>
        BY <1>1, <2>3, UnreadType DEF FetchDo, FetchToken
      <3> QED
        BY <1>1, <3>1 DEF Flying, Fresh
    <2> QED
      BY <1>7, <2>1, <2>2, <2>3
  <1>8. ASSUME NEW j \in Keys, \/ FetchRead(j) \/ FetchDone(j) \/ FetchFails(j)
                               \/ RefreshRead(j) \/ RefreshDone(j) \/ RefreshFails(j)
        PROVE  /\ n <= version'[k]
               /\ Flying(k, n)'
               /\ Fresh(k, n) => Fresh(k, n)'
    <2>1. CASE FetchRead(j)
      BY <1>1, <2>1, ReadType DEF FetchRead, Flying, Fresh
    <2>2. CASE RefreshRead(j)
      BY <1>1, <2>2, ReadType DEF RefreshRead, Flying, Fresh
    <2>3. CASE FetchDone(j)
      BY <1>1, <2>3 DEF FetchDone, Flying, Fresh
    <2>4. CASE RefreshDone(j)
      BY <1>1, <2>4 DEF RefreshDone, Flying, Fresh
    <2>5. CASE FetchFails(j) \/ RefreshFails(j)
      BY <1>1, <2>5 DEF FetchFails, RefreshFails, Flying, Fresh
    <2> QED
      BY <1>8, <2>1, <2>2, <2>3, <2>4, <2>5
  <1> QED
    BY <1>4, <1>5, <1>6, <1>7, <1>8, NextSteps DEF ListSteps

\* A step of a request leaves the promises as they are, and what it answers keeps them.
LEMMA AnswersKept ==
    ASSUME Clearing, ListSteps \/ SettingsSteps \/ WorldSteps
    PROVE  /\ UNCHANGED <<cleared, clearing, need, key, scanned>>
           /\ QuietInvalidation'
  <1> USE DEF provider, request, cached, history
  <1>1. /\ UNCHANGED <<cleared, clearing, need, key, scanned>>
    BY DEF ListSteps, SettingsSteps, WorldSteps, Update, Drop, Age, Rotate, DropSettings, GetSettings,
           ResolveDo, ResolveRead, ResolveDone, ResolveFails, GetHit, GetMiss, FetchDo, FetchRead,
           FetchDone, FetchFails, RefreshRead, RefreshDone, RefreshFails, AfterFailure
  <1>2. /\ answer \in [Callers -> Lists \cup {None, Failed}]
        /\ key \in [Callers -> Keys]
        /\ \A c \in Callers : need[c].quiet \in Nat
        /\ \A k \in Keys : cleared.quiet[k] \in Nat
    BY Apart DEF Clearing, Types, TypeOK, HistoryOK
  <1>3. \A c \in Callers : need[c].quiet <= cleared.quiet[key[c]]
    BY DEF Clearing, Counted
  <1>4. ASSUME \A c \in Callers : \/ answer'[c] = answer[c]
                                  \/ answer'[c] \notin Nat
                                  \/ answer'[c] \in Nat /\ answer'[c] >= cleared.quiet[key[c]]
        PROVE  QuietInvalidation'
    <2> SUFFICES ASSUME NEW c \in Callers, answer'[c] \in Nat
                 PROVE  answer'[c] >= need[c].quiet
      BY <1>1 DEF QuietInvalidation
    <2>1. CASE answer'[c] = answer[c]
      BY <2>1 DEF Clearing, QuietInvalidation
    <2>2. CASE answer'[c] >= cleared.quiet[key[c]]
      <3>1. need[c].quiet \in Nat /\ cleared.quiet[key[c]] \in Nat
        BY <1>2
      <3> QED
        BY <1>3, <2>2, <3>1
    <2> QED
      BY <1>4, <2>1, <2>2
  <1>5. ASSUME NEW c \in Callers, GetHit(c) PROVE QuietInvalidation'
    <2>1. /\ entry[key[c]] \in [list : Lists, age : Ages]
          /\ entry[key[c]].list >= cleared.quiet[key[c]]
      BY <1>2, <1>5 DEF GetHit, Clearing, Promised, Fresh, Types, TypeOK
    <2>2. answer' = [answer EXCEPT ![c] = entry[key[c]].list]
      BY <1>5 DEF GetHit
    <2> QED
      BY <1>2, <1>4, <2>1, <2>2, Apart
  <1>6. ASSUME NEW k \in Keys, FetchDone(k) PROVE QuietInvalidation'
    <2>1. fetch[k] \in Fetches /\ fetch[k].list \in Lists
      BY <1>6 DEF FetchDone, Clearing, Types, TypeOK, Fetches
    <2>2. fetch[k].list >= cleared.quiet[k]
      BY <1>6 DEF FetchDone, Clearing, Promised, Flying
    <2>3. \A c \in Callers : answer'[c] = answer[c] \/ (key[c] = k /\ answer'[c] = fetch[k].list)
      BY <1>6 DEF FetchDone, Waiting
    <2> QED
      BY <1>4, <2>1, <2>2, <2>3, Apart
  <1>7. ASSUME ResolveFails PROVE QuietInvalidation'
    BY <1>4, <1>7, Apart DEF ResolveFails
  <1>8. ASSUME NEW k \in Keys, FetchFails(k) PROVE QuietInvalidation'
    BY <1>4, <1>8, Apart DEF FetchFails, AfterFailure
  <1>9. ASSUME UNCHANGED answer PROVE QuietInvalidation'
    BY <1>4, <1>9
  <1>10. \/ UNCHANGED answer \/ ResolveFails \/ \E c \in Callers : GetHit(c)
         \/ \E k \in Keys : FetchDone(k) \/ FetchFails(k)
    BY DEF ListSteps, SettingsSteps, WorldSteps, Update, Drop, Age, Rotate, DropSettings, GetSettings,
           ResolveDo, ResolveRead, ResolveDone, GetMiss, FetchDo, FetchRead,
           RefreshRead, RefreshDone, RefreshFails
  <1> QED
    BY <1>1, <1>5, <1>6, <1>7, <1>8, <1>9, <1>10

LEMMA ClearingInit == Init => Clearing
  <1> SUFFICES ASSUME Init PROVE Clearing
    OBVIOUS
  <1>1. Types
    BY InitTypes
  <1>2. Promised /\ Counted
    BY DEF Init, Promised, Counted, Fresh, Flying
  <1>3. Promising
    BY Apart DEF Init, Promising
  <1>4. QuietInvalidation
    BY Apart DEF Init, QuietInvalidation
  <1> QED
    BY <1>1, <1>2, <1>3, <1>4 DEF Clearing

LEMMA ClearingStep == Clearing /\ [Next]_vars => Clearing'
  <1> SUFFICES ASSUME Clearing, [Next]_vars PROVE Clearing'
    OBVIOUS
  <1> USE DEF provider, request, cached, history
  <1>1. CASE UNCHANGED vars
    BY <1>1, TypesStep DEF vars, Clearing, Promised, Promising, Counted, QuietInvalidation, Fresh, Flying
  <1>2. Types /\ Types'
    BY TypesStep DEF Clearing
  <1>3. /\ \A k \in Keys : version[k] \in Nat /\ cleared.quiet[k] \in Nat /\ clearing.any[k] \in Nat
        /\ \A c \in Callers : key[c] \in Keys /\ need[c].quiet \in Nat
        /\ scanned \in (SUBSET Keys) \cup {None}
        /\ version \in [Keys -> Lists]
        /\ clearing.quiet \in SUBSET Keys
    BY <1>2, Apart DEF Types, TypeOK, HistoryOK
  <1>4. /\ Promised /\ Promising /\ Counted /\ QuietInvalidation
    BY DEF Clearing
  \* The promises are kept by steps that make none.
  <1>5. ASSUME Next, UNCHANGED <<cleared, clearing>>
        PROVE  Promised'
    BY <1>3, <1>4, <1>5, <1>2, NothingOlder DEF Promised, Fresh, Flying
  <1>6. ASSUME Next, UNCHANGED <<cleared, clearing, scanned>>
        PROVE  Promising'
    <2> SUFFICES ASSUME scanned # None, NEW k \in Keys
                 PROVE  /\ cleared.quiet[k] <= clearing.any[k] /\ clearing.any[k] <= version'[k]
                        /\ k \in clearing.quiet => /\ Flying(k, clearing.any[k])'
                                                   /\ k \notin scanned => Fresh(k, clearing.any[k])'
      BY <1>6 DEF Promising, Flying, Fresh
    <2>1. /\ cleared.quiet[k] <= clearing.any[k] /\ clearing.any[k] <= version[k]
          /\ k \in clearing.quiet => /\ Flying(k, clearing.any[k])
                                     /\ k \notin scanned => Fresh(k, clearing.any[k])
      BY <1>4 DEF Promising
    <2>2. clearing.any[k] \in Nat /\ clearing.any[k] <= version'[k]
      <3>1. version'[k] >= version[k] /\ version'[k] \in Nat
        <4>1. \A j \in Keys : Update(j) => version' = [version EXCEPT ![j] = version[j] + 1]
          BY DEF Update
        <4>2. (\E j \in Keys : Update(j)) \/ version' = version
          BY <1>6, NextSteps DEF ListSteps, SettingsSteps, WorldSteps, ClearSteps, Request, Drop, Age, Rotate,
             DropSettings, GetSettings, ResolveDo, ResolveRead, ResolveDone, ResolveFails, GetHit, GetMiss,
             FetchDo, FetchRead, FetchDone, FetchFails, RefreshRead, RefreshDone, RefreshFails,
             ScanKeys, Invalidated, Delete
        <4> QED
          BY <1>3, <4>1, <4>2
      <3> QED
        BY <1>3, <2>1, <3>1
    <2>3. Flying(k, clearing.any[k]) => Flying(k, clearing.any[k])'
      BY <1>2, <1>3, <1>6, <2>1, <2>2, NothingOlder DEF Flying
    <2>4. Flying(k, clearing.any[k]) /\ Fresh(k, clearing.any[k]) => Fresh(k, clearing.any[k])'
      BY <1>2, <1>3, <1>6, <2>1, <2>2, NothingOlder DEF Fresh
    <2> QED
      BY <2>1, <2>2, <2>3, <2>4
  <1>7. CASE ListSteps \/ SettingsSteps \/ WorldSteps
    <2>1. UNCHANGED <<cleared, clearing, need, key, scanned>> /\ QuietInvalidation' /\ Next
      BY <1>7, AnswersKept, NextSteps
    <2>2. Counted'
      BY <1>4, <2>1 DEF Counted
    <2> QED
      BY <1>2, <1>5, <1>6, <2>1, <2>2 DEF Clearing
  <1>8. ASSUME NEW c \in Callers, NEW k \in Keys, Request(c, k) PROVE Clearing'
    <2>1. Next /\ UNCHANGED <<cleared, clearing, scanned>>
      BY <1>8, NextSteps DEF Request
    <2>2. /\ key' = [key EXCEPT ![c] = k]
          /\ answer' = [answer EXCEPT ![c] = None]
          /\ need' = [need EXCEPT ![c] = [any |-> cleared.any[k], quiet |-> cleared.quiet[k],
                                          token |-> tokenFloor]]
      BY <1>8 DEF Request
    <2>3. Counted'
      BY <1>2, <1>3, <1>4, <2>1, <2>2 DEF Counted, Types, TypeOK, HistoryOK
    <2>4. QuietInvalidation'
      BY <1>2, <1>3, <1>4, <2>2, Apart DEF QuietInvalidation, Types, TypeOK, HistoryOK
    <2> QED
      BY <1>2, <1>5, <1>6, <2>1, <2>3, <2>4 DEF Clearing
  <1>9. CASE ScanKeys
    <2>1. /\ Next /\ UNCHANGED <<provider, cached, request, cleared, need>>
          /\ scanned' = {k \in Keys : entry[k] # None}
          /\ clearing'.any = version
          /\ clearing'.quiet = {k \in Keys : fetch[k] = None /\ refresh[k] = None}
      BY <1>9, NextSteps DEF ClearSteps, ScanKeys, Scanned
    <2>2. Promised' /\ Counted' /\ QuietInvalidation'
      BY <1>4, <2>1 DEF Promised, Counted, QuietInvalidation, Fresh, Flying
    <2>3. Promising'
      BY <1>3, <1>4, <2>1 DEF Promising, Promised, Fresh, Flying
    <2> QED
      BY <1>2, <2>2, <2>3 DEF Clearing
  <1>10. CASE Invalidated
    <2>1. /\ UNCHANGED <<provider, cached, request, need>>
          /\ scanned = {} /\ scanned' = None
          /\ \A k \in Keys : cleared'.quiet[k] = IF k \in clearing.quiet THEN clearing.any[k]
                                                 ELSE cleared.quiet[k]
      BY <1>10 DEF Invalidated
    <2>2. Promised' /\ Counted'
      <3>1. scanned # None
        BY <2>1, NoneAssumption
      <3> QED
        BY <1>3, <1>4, <2>1, <3>1 DEF Promised, Promising, Counted, Fresh, Flying
    <2>3. Promising' /\ QuietInvalidation'
      BY <1>4, <2>1 DEF Promising, QuietInvalidation
    <2> QED
      BY <1>2, <2>2, <2>3 DEF Clearing
  <1>11. ASSUME NEW k \in Keys, Delete(k) PROVE Clearing'
    <2>1. /\ Next /\ UNCHANGED <<version, fetch, refresh, answer, key, need, cleared, clearing>>
          /\ scanned # None /\ scanned' = scanned \ {k}
          /\ entry' = [entry EXCEPT ![k] = None]
      BY <1>11, NextSteps DEF ClearSteps, Delete
    <2>2. Promised' /\ Counted' /\ QuietInvalidation'
      BY <1>4, <1>5, <2>1 DEF Counted, QuietInvalidation
    <2>3. \A j \in Keys : /\ entry'[j] \in {entry[j], None}
                          /\ j \notin scanned' => j \notin scanned \/ entry'[j] = None
      BY <1>2, <1>3, <2>1 DEF Types, TypeOK
    <2>4. Promising'
      BY <1>4, <2>1, <2>3 DEF Promising, Fresh, Flying
    <2> QED
      BY <1>2, <2>2, <2>4 DEF Clearing
  <1> QED
    BY <1>1, <1>7, <1>8, <1>9, <1>10, <1>11, NextSteps DEF ClearSteps

\* What is answered to a request that comes after the clearing is no older than it,
\* unless the list was being read when that began.
THEOREM ClearedStaysCleared == Spec => []QuietInvalidation
  <1>1. Clearing => QuietInvalidation
    BY DEF Clearing
  <1> QED
    BY <1>1, ClearingInit, ClearingStep, PTL DEF Spec

-----------------------------------------------------------------------------
(* What becomes of old tokens.                                             *)

\* No token below the floor is cached or being read, or in the secret, and a request
\* whose settings are known has one that it may count on.
Rotated ==
    /\ tokenFloor <= secret
    /\ settings # None => tokenFloor <= settings
    /\ resolve \in Tokens => tokenFloor <= resolve
    /\ \A c \in Callers : /\ need[c].token <= tokenFloor
                          /\ token[c] # None => need[c].token <= token[c]

RotatedInv == Types /\ Rotated

LEMMA RotatedInit == Init => RotatedInv
  BY InitTypes, Apart DEF Init, RotatedInv, Rotated

LEMMA RotatedStep == RotatedInv /\ [Next]_vars => RotatedInv'
  <1> SUFFICES ASSUME RotatedInv, [Next]_vars PROVE RotatedInv'
    OBVIOUS
  <1> USE DEF provider, request, cached, history
  <1>1. Types /\ Types'
    BY TypesStep DEF RotatedInv
  <1>2. /\ tokenFloor \in Nat /\ secret \in Nat
        /\ settings \in Nat \cup {None} /\ resolve \in Nat \cup {None, Begun}
        /\ resolve \in Tokens <=> resolve \in Nat /\ resolve \in Tokens
        /\ token \in [Callers -> Tokens \cup {None}]
        /\ need \in [Callers -> [any : Lists, quiet : Lists, token : Tokens]]
        /\ \A c \in Callers : need[c].token \in Nat /\ token[c] \in Nat \cup {None}
        /\ None \notin Nat /\ Begun \notin Nat /\ None # Begun
    BY <1>1, Apart, NoneAssumption DEF Types, TypeOK, HistoryOK
  <1>3. Rotated
    BY DEF RotatedInv
  <1>4. ASSUME UNCHANGED <<secret, settings, resolve, tokenFloor, need, token>>
        PROVE  RotatedInv'
    BY <1>1, <1>3, <1>4 DEF RotatedInv, Rotated
  <1>5. CASE UNCHANGED vars
    BY <1>4, <1>5 DEF vars
  <1>6. CASE ListSteps \/ ClearSteps
    BY <1>4, <1>6 DEF ListSteps, ClearSteps, ScanKeys, Invalidated, Delete, GetHit, GetMiss, FetchDo,
           FetchRead, FetchDone, FetchFails, RefreshRead, RefreshDone, RefreshFails, AfterFailure
  <1>7. CASE \E k \in Keys : Update(k) \/ Drop(k) \/ Age(k)
    BY <1>4, <1>7 DEF Update, Drop, Age
  <1>8. CASE Rotate
    BY <1>1, <1>2, <1>3, <1>8 DEF Rotate, RotatedInv, Rotated
  <1>9. CASE DropSettings
    <2>1. /\ tokenFloor' \in {tokenFloor, secret} /\ tokenFloor' = IF resolve = None THEN secret ELSE tokenFloor
          /\ settings' = None
          /\ UNCHANGED <<secret, resolve, need, token>>
      BY <1>9 DEF DropSettings
    <2>2. resolve \in Tokens => resolve # None
      BY Apart
    <2>3. tokenFloor <= tokenFloor' /\ tokenFloor' \in Nat
      BY <1>2, <1>3, <2>1 DEF Rotated
    <2>4. \A c \in Callers : need[c].token <= tokenFloor'
      BY <1>2, <1>3, <2>3 DEF Rotated
    <2> QED
      BY <1>1, <1>2, <1>3, <2>1, <2>2, <2>4 DEF RotatedInv, Rotated
  <1>10. ASSUME NEW c \in Callers, NEW k \in Keys, Request(c, k) PROVE RotatedInv'
    <2>1. /\ token' = [token EXCEPT ![c] = None]
          /\ need' = [need EXCEPT ![c] = [any |-> cleared.any[k], quiet |-> cleared.quiet[k],
                                          token |-> tokenFloor]]
          /\ UNCHANGED <<secret, settings, resolve, tokenFloor>>
      BY <1>10 DEF Request
    <2>2. \A d \in Callers : \/ need'[d] = need[d] /\ token'[d] = token[d]
                             \/ need'[d].token = tokenFloor /\ token'[d] = None
      BY <1>2, <2>1
    <2> QED
      BY <1>1, <1>2, <1>3, <2>1, <2>2 DEF RotatedInv, Rotated
  <1>11. ASSUME NEW c \in Callers, GetSettings(c) PROVE RotatedInv'
    <2>1. token' = [token EXCEPT ![c] = settings] /\ UNCHANGED <<secret, settings, resolve, tokenFloor, need>>
      BY <1>11 DEF GetSettings
    <2>2. settings # None => need[c].token <= settings
      BY <1>2, <1>3 DEF Rotated
    <2> QED
      BY <1>1, <1>2, <1>3, <2>1, <2>2 DEF RotatedInv, Rotated
  <1>12. CASE ResolveRead \/ \E c \in Callers : ResolveDo(c)
    <2>1. resolve' \in {resolve, Begun, secret} /\ UNCHANGED <<secret, settings, tokenFloor, need, token>>
      BY <1>12 DEF ResolveRead, ResolveDo
    <2>2. Begun \notin Tokens
      BY Apart
    <2> QED
      BY <1>1, <1>2, <1>3, <2>1, <2>2 DEF RotatedInv, Rotated
  <1>13. CASE ResolveDone
    <2>1. /\ resolve \in Tokens /\ settings' = resolve /\ resolve' = None
          /\ token' = [c \in Callers |-> IF pc[c] = "resolving" THEN resolve ELSE token[c]]
          /\ UNCHANGED <<secret, tokenFloor, need>>
      BY <1>13 DEF ResolveDone
    <2>2. \A c \in Callers : need[c].token <= resolve
      BY <1>2, <1>3, <2>1 DEF Rotated
    <2>3. None \notin Tokens
      BY Apart
    <2> QED
      BY <1>1, <1>2, <1>3, <2>1, <2>2, <2>3 DEF RotatedInv, Rotated
  <1>14. CASE ResolveFails
    BY <1>1, <1>3, <1>14, Apart DEF ResolveFails, RotatedInv, Rotated
  <1> QED
    BY <1>5, <1>6, <1>7, <1>8, <1>9, <1>10, <1>11, <1>12, <1>13, <1>14, NextSteps
       DEF WorldSteps, SettingsSteps

\* Once the cached settings have expired, no request that comes later starts a fetch
\* or a refresh with a token that was rotated before.
THEOREM OldTokensGo == Spec => RotatedTokenGoes
  <1> DEFINE Fetching(c) ==
                pc[c] = "missed" /\ pc'[c] = "waiting" /\ fetch[key[c]] = None
             Refreshing(c) ==
                pc[c] = "list" /\ refresh'[key[c]] # refresh[key[c]] /\ pc'[c] = "done"
             Good == \A c \in Callers :
                        /\ Fetching(c) => fetch'[key[c]].token >= need[c].token
                        /\ Refreshing(c) => refresh'[key[c]].token >= need[c].token
  <1>1. ASSUME RotatedInv, [Next]_vars PROVE [Good]_vars
    <2> SUFFICES ASSUME Next, NEW c \in Callers
                 PROVE  /\ Fetching(c) => fetch'[key[c]].token >= need[c].token
                        /\ Refreshing(c) => refresh'[key[c]].token >= need[c].token
      BY <1>1
    <2>1. /\ pc \in [Callers -> {"idle", "settings", "unresolved", "resolving",
                                 "list", "missed", "waiting", "done"}]
          /\ key \in [Callers -> Keys]
          /\ fetch \in [Keys -> Fetches \cup {None}]
          /\ refresh \in [Keys -> Fetches \cup {None}]
          /\ token[c] \in Tokens \cup {None} /\ need[c].token \in Nat
          /\ pc[c] \in {"list", "missed", "waiting"} => token[c] \in Tokens
          /\ Tokens \subseteq Nat /\ None \notin Tokens
          /\ token[c] # None => need[c].token <= token[c]
      BY <1>1, Apart DEF RotatedInv, Rotated, Types, TypeOK, HistoryOK
    <2>2. Fetching(c) => FetchDo(c)
      <3> SUFFICES ASSUME Fetching(c), ~FetchDo(c) PROVE FALSE
        OBVIOUS
      <3>1. pc[c] = "missed" /\ pc'[c] = "waiting"
        OBVIOUS
      <3>2. CASE SettingsSteps \/ WorldSteps \/ ClearSteps \/ \E d \in Callers, k \in Keys : Request(d, k)
        BY <2>1, <3>1, <3>2 DEF SettingsSteps, WorldSteps, ClearSteps, Update, Drop, Age, Rotate, DropSettings,
              GetSettings, ResolveDo, ResolveRead, ResolveDone, ResolveFails, Request,
              ScanKeys, Invalidated, Delete, request
      <3>3. CASE ListSteps
        BY <2>1, <3>1, <3>3 DEF ListSteps, GetHit, GetMiss, FetchDo, FetchRead, FetchDone, FetchFails,
              RefreshRead, RefreshDone, RefreshFails, AfterFailure, Waiting, request
      <3> QED
        BY <3>2, <3>3, NextSteps
    <2>3. Refreshing(c) => GetHit(c)
      <3> SUFFICES ASSUME Refreshing(c), ~GetHit(c) PROVE FALSE
        OBVIOUS
      <3>1. pc[c] = "list" /\ pc'[c] = "done"
        OBVIOUS
      <3>2. CASE SettingsSteps \/ WorldSteps \/ ClearSteps \/ \E d \in Callers, k \in Keys : Request(d, k)
        BY <2>1, <3>1, <3>2 DEF SettingsSteps, WorldSteps, ClearSteps, Update, Drop, Age, Rotate, DropSettings,
              GetSettings, ResolveDo, ResolveRead, ResolveDone, ResolveFails, Request,
              ScanKeys, Invalidated, Delete, request
      <3>3. CASE ListSteps
        BY <2>1, <3>1, <3>3 DEF ListSteps, GetHit, GetMiss, FetchDo, FetchRead, FetchDone, FetchFails,
              RefreshRead, RefreshDone, RefreshFails, AfterFailure, Waiting, request
      <3> QED
        BY <3>2, <3>3, NextSteps
    <2>4. Unread(token[c]).token = token[c]
      BY DEF Unread
    <2>5. ASSUME Fetching(c) PROVE fetch'[key[c]].token >= need[c].token
      <3>1. fetch'[key[c]] = Unread(token[c])
        BY <2>1, <2>2, <2>5 DEF FetchDo, FetchToken
      <3> QED
        BY <2>1, <2>4, <2>5, <3>1
    <2>6. ASSUME Refreshing(c) PROVE refresh'[key[c]].token >= need[c].token
      <3>1. refresh'[key[c]] = Unread(token[c])
        BY <2>1, <2>3, <2>6 DEF GetHit, FetchToken
      <3> QED
        BY <2>1, <2>4, <2>6, <3>1
    <2> QED
      BY <2>5, <2>6
  <1>2. [][Good]_vars => RotatedTokenGoes
    BY DEF RotatedTokenGoes
  <1> HIDE DEF Good
  <1> QED
    BY <1>1, <1>2, RotatedInit, RotatedStep, PTL DEF Spec

-----------------------------------------------------------------------------
(* ListReads implements CachedReads, step by step.                         *)

\* Nothing that is cached, or was read, is newer than the provider's list.
NotAhead ==
    \A k \in Keys :
        /\ entry[k] # None => entry[k].list <= version[k]
        /\ fetch[k] # None /\ fetch[k].list # None => fetch[k].list <= version[k]
        /\ refresh[k] # None /\ refresh[k].list # None => refresh[k].list <= version[k]

LEMMA NotAheadInit == Init => NotAhead
  BY DEF Init, NotAhead

LEMMA NotAheadStep == ASSUME Types, NotAhead, [Next]_vars PROVE NotAhead'
  <1> USE DEF provider, request, cached, history
  <1>1. /\ version \in [Keys -> Lists] /\ key \in [Callers -> Keys]
        /\ token \in [Callers -> Tokens \cup {None}]
        /\ entry \in [Keys -> [list : Lists, age : Ages] \cup {None}]
        /\ fetch \in [Keys -> Fetches \cup {None}]
        /\ refresh \in [Keys -> Fetches \cup {None}]
        /\ \A c \in Callers : pc[c] \in {"list", "missed", "waiting"} => token[c] \in Tokens
        /\ Lists \subseteq Nat
    BY Apart DEF Types, TypeOK
  <1>2. ASSUME UNCHANGED <<version, fetch, refresh>>,
               \A j \in Keys : entry'[j] = entry[j] \/ entry'[j] = None
                               \/ (entry[j] # None /\ entry'[j].list = entry[j].list)
        PROVE  NotAhead'
    BY <1>2 DEF NotAhead
  <1>3. ASSUME NEW k \in Keys, Update(k) PROVE NotAhead'
    <2>1. version' = [version EXCEPT ![k] = version[k] + 1] /\ UNCHANGED <<entry, fetch, refresh>>
      BY <1>3 DEF Update
    <2>2. \A j \in Keys : version[j] \in Nat /\ version'[j] \in Nat /\ version[j] <= version'[j]
      <3>1. \A j \in Keys : version[j] \in Nat /\ version'[j] \in {version[j], version[j] + 1}
        BY <1>1, <2>1
      <3> QED
        BY <3>1
    <2> SUFFICES ASSUME NEW j \in Keys
                 PROVE  /\ entry[j] # None => entry[j].list <= version'[j]
                        /\ fetch[j] # None /\ fetch[j].list # None => fetch[j].list <= version'[j]
                        /\ refresh[j] # None /\ refresh[j].list # None => refresh[j].list <= version'[j]
      BY <2>1 DEF NotAhead
    <2>3. entry[j] # None => entry[j].list \in Nat
      BY <1>1
    <2>4. /\ fetch[j] # None /\ fetch[j].list # None => fetch[j].list \in Nat
          /\ refresh[j] # None /\ refresh[j].list # None => refresh[j].list \in Nat
      BY <1>1 DEF Fetches
    <2> QED
      BY <2>2, <2>3, <2>4 DEF NotAhead
  <1>4. ASSUME NEW k \in Keys, Age(k) PROVE NotAhead'
    <2>1. PICK a \in Ages : entry' = [entry EXCEPT ![k].age = a]
      BY <1>4 DEF Age
    <2>2. entry[k] \in [list : Lists, age : Ages] /\ entry[k] # None
      BY <1>1, <1>4 DEF Age
    <2>3. entry'[k].list = entry[k].list
      BY <1>1, <2>1, <2>2
    <2>4. \A j \in Keys \ {k} : entry'[j] = entry[j]
      BY <1>1, <2>1
    <2> QED
      BY <1>2, <1>4, <2>2, <2>3, <2>4 DEF Age
  <1>5. CASE SettingsSteps \/ ClearSteps \/ Rotate \/ DropSettings
             \/ \E c \in Callers, j \in Keys : Request(c, j)
    BY <1>1, <1>2, <1>5 DEF SettingsSteps, ClearSteps, Rotate, DropSettings, Request, GetSettings, ResolveDo,
          ResolveRead, ResolveDone, ResolveFails, ScanKeys, Invalidated, Delete
  <1>6. ASSUME NEW c \in Callers, GetHit(c) PROVE NotAhead'
    <2>1. /\ Unread(token[c]).list = None
          /\ refresh' \in {refresh, [refresh EXCEPT ![key[c]] = Unread(token[c])]}
          /\ UNCHANGED <<version, fetch>>
      BY <1>1, <1>6, UnreadType DEF GetHit, FetchToken
    <2>2. entry' \in {entry, [entry EXCEPT ![key[c]].age = "new"]} /\ entry[key[c]] # None
      BY <1>6 DEF GetHit
    <2>3. entry[key[c]] \in [list : Lists, age : Ages]
      BY <1>1, <2>2
    <2>4. \A i \in Keys : entry'[i] = entry[i] \/ (entry[i] # None /\ entry'[i].list = entry[i].list)
      BY <1>1, <2>2, <2>3
    <2>5. \A i \in Keys : refresh'[i] = refresh[i] \/ refresh'[i].list = None
      BY <1>1, <2>1
    <2> QED
      BY <2>1, <2>4, <2>5 DEF NotAhead
  <1>7. ASSUME NEW c \in Callers, GetMiss(c) \/ FetchDo(c) PROVE NotAhead'
    <2>1. UNCHANGED <<version, refresh, entry>>
      BY <1>7 DEF GetMiss, FetchDo
    <2>2. fetch' = fetch \/ (FetchDo(c) /\ fetch' = [fetch EXCEPT ![key[c]] = Unread(token[c])])
      BY <1>7 DEF GetMiss, FetchDo, FetchToken
    <2>3. \A i \in Keys : fetch'[i] = fetch[i] \/ fetch'[i].list = None
      BY <1>1, <2>2, UnreadType DEF FetchDo
    <2> QED
      BY <2>1, <2>3 DEF NotAhead
  <1>8. ASSUME NEW k \in Keys, FetchRead(k) \/ RefreshRead(k) PROVE NotAhead'
    <2>1. version[k] \in Lists /\ version[k] \in Nat
      BY <1>1
    <2>2. CASE FetchRead(k)
      <3>1. /\ UNCHANGED <<version, entry, refresh>>
            /\ \A j \in Keys : fetch'[j] = fetch[j] \/ (j = k /\ fetch'[j].list = version[k])
        BY <1>1, <2>1, <2>2, ReadType DEF FetchRead
      <3> QED
        BY <1>1, <2>1, <3>1 DEF NotAhead
    <2>3. CASE RefreshRead(k)
      <3>1. /\ UNCHANGED <<version, entry, fetch>>
            /\ \A j \in Keys : refresh'[j] = refresh[j] \/ (j = k /\ refresh'[j].list = version[k])
        BY <1>1, <2>1, <2>3, ReadType DEF RefreshRead
      <3> QED
        BY <1>1, <2>1, <3>1 DEF NotAhead
    <2> QED
      BY <1>8, <2>2, <2>3
  <1>9. ASSUME NEW k \in Keys, FetchDone(k) \/ FetchFails(k) PROVE NotAhead'
    BY <1>1, <1>9 DEF FetchDone, FetchFails, NotAhead
  <1>10. ASSUME NEW k \in Keys, RefreshDone(k) \/ RefreshFails(k) PROVE NotAhead'
    BY <1>1, <1>10 DEF RefreshDone, RefreshFails, NotAhead
  <1>11. ASSUME NEW k \in Keys, Drop(k) PROVE NotAhead'
    BY <1>1, <1>2, <1>11 DEF Drop
  <1>12. CASE UNCHANGED vars
    BY <1>2, <1>12 DEF vars
  <1> QED
    BY <1>3, <1>4, <1>5, <1>6, <1>7, <1>8, <1>9, <1>10, <1>11, <1>12, NextSteps DEF WorldSteps, ListSteps

\* What the mapped variables see of a step, but for the clients.
Otherwise == UNCHANGED <<version, key, need, cleared, clearing>>
             /\ (scanned' # None <=> scanned # None)

Open == {"settings", "unresolved", "resolving", "list", "missed", "waiting"}

floors == [c \in Callers |-> need[c].quiet]

\* A step in which every client stays where it is, or goes from one open step to
\* another, is a stutter of CachedReads.
LEMMA Stutters ==
    ASSUME Otherwise, UNCHANGED answer,
           \A c \in Callers : pc'[c] = pc[c] \/ (pc[c] \in Open /\ pc'[c] \in Open)
    PROVE  UNCHANGED Reads!readVars
  <1>1. phase' = phase
    BY DEF phase, Open
  <1> QED
    BY <1>1 DEF Reads!readVars, Otherwise

\* Answering the clients in S, each with what it may be answered with, is Reply.
LEMMA Replies ==
    ASSUME Otherwise, NEW S \in SUBSET Callers,
           \A c \in S : pc[c] \in Open /\ pc'[c] = "done",
           \A c \in Callers \ S : pc'[c] = pc[c] /\ answer'[c] = answer[c],
           \A c \in S : \/ answer'[c] = Failed
                       \/ /\ answer'[c] \in Nat /\ need[c].quiet <= answer'[c]
                          /\ answer'[c] <= version[key[c]]
    PROVE  Reads!Reply(S)
  <1>1. \A c \in S : phase[c] = "open"
    BY DEF phase, Open
  <1>2. phase' = [c \in Callers |-> IF c \in S THEN "answered" ELSE phase[c]]
    BY DEF phase, Open
  <1>3. \A c \in S : answer'[c] = Failed \/ Reads!Admissible(c, answer'[c])
    BY DEF Reads!Admissible
  <1>4. UNCHANGED <<version, key, cleared, clearing, need>> /\ (scanned' # None <=> scanned # None)
    BY DEF Otherwise
  <1> QED
    BY <1>1, <1>2, <1>3, <1>4 DEF Reads!Reply

Mapping == Clearing /\ NotAhead

\* Asking for a list.
LEMMA RequestMaps ==
    ASSUME Mapping, NEW c \in Callers, NEW k \in Keys, Request(c, k)
    PROVE  Reads!Ask(c, k)
  <1>1. /\ pc[c] \in {"idle", "done"} /\ pc' = [pc EXCEPT ![c] = "settings"]
        /\ key' = [key EXCEPT ![c] = k] /\ answer' = [answer EXCEPT ![c] = None]
        /\ need' = [need EXCEPT ![c] = [any |-> cleared.any[k], quiet |-> cleared.quiet[k],
                                        token |-> tokenFloor]]
        /\ UNCHANGED <<version, scanned, cleared, clearing>>
    BY DEF Request, provider
  <1>2. /\ pc \in [Callers -> {"idle", "settings", "unresolved", "resolving",
                               "list", "missed", "waiting", "done"}]
        /\ need \in [Callers -> [any : Lists, quiet : Lists, token : Tokens]]
    BY DEF Mapping, Clearing, Types, TypeOK, HistoryOK
  <1>3. pc'[c] = "settings" /\ \A d \in Callers \ {c} : pc'[d] = pc[d]
    BY <1>1, <1>2
  <1>4. phase[c] # "open" /\ phase' = [phase EXCEPT ![c] = "open"]
    <2>1. phase[c] # "open"
      BY <1>1 DEF phase
    <2>2. phase' = [phase EXCEPT ![c] = "open"]
      BY <1>3 DEF phase
    <2> QED
      BY <2>1, <2>2
  <1>5. need'[c].quiet = cleared.quiet[k] /\ \A d \in Callers \ {c} : need'[d] = need[d]
    BY <1>1, <1>2
  <1>6. floors' = [floors EXCEPT ![c] = cleared.quiet[k]]
    BY <1>5 DEF floors
  <1> QED
    BY <1>1, <1>4, <1>6 DEF Reads!Ask, floors

\* Getting the settings is not seen, unless it fails.
LEMMA SettingsMap ==
    ASSUME Mapping, SettingsSteps
    PROVE  Reads!Next \/ UNCHANGED Reads!readVars
  <1> USE DEF provider, request, cached, history
  <1>1. Otherwise
    BY DEF SettingsSteps, Otherwise, GetSettings, ResolveDo, ResolveRead, ResolveDone, ResolveFails
  <1>2. /\ pc \in [Callers -> {"idle", "settings", "unresolved", "resolving",
                               "list", "missed", "waiting", "done"}]
        /\ answer \in [Callers -> Lists \cup {None, Failed}]
    BY DEF Mapping, Clearing, Types, TypeOK
  <1>3. CASE ResolveFails
    <2> DEFINE S == {c \in Callers : pc[c] = "resolving"}
    <2>1. /\ \A c \in S : pc[c] \in Open /\ pc'[c] = "done" /\ answer'[c] = Failed
          /\ \A c \in Callers \ S : pc'[c] = pc[c] /\ answer'[c] = answer[c]
      BY <1>3 DEF ResolveFails, Open
    <2>2. S \in SUBSET Callers
      OBVIOUS
    <2> HIDE DEF S
    <2>3. Reads!Reply(S)
      BY <1>1, <2>1, <2>2, Replies
    <2> QED
      BY <2>2, <2>3 DEF Reads!Next
  <1>4. CASE \E c \in Callers : GetSettings(c) \/ ResolveDo(c)
    BY <1>1, <1>2, <1>4, Stutters DEF GetSettings, ResolveDo, Open
  <1>5. CASE ResolveRead \/ ResolveDone
    BY <1>1, <1>2, <1>5, Stutters DEF ResolveRead, ResolveDone, Open
  <1> QED
    BY <1>3, <1>4, <1>5 DEF SettingsSteps

\* The world changes a list, or nothing that is seen.
LEMMA WorldMaps ==
    ASSUME Mapping, WorldSteps
    PROVE  Reads!Next \/ UNCHANGED Reads!readVars
  <1> USE DEF provider, request, cached, history
  <1>1. ASSUME NEW k \in Keys, Update(k) PROVE Reads!Next
    <2>1. version' = [version EXCEPT ![k] = version[k] + 1]
          /\ UNCHANGED <<pc, key, need, answer, scanned, clearing, cleared>>
      BY <1>1 DEF Update
    <2>2. phase' = phase
      BY <2>1 DEF phase
    <2>3. Reads!Change(k)
      BY <2>1, <2>2 DEF Reads!Change
    <2> QED
      BY <2>3 DEF Reads!Next
  <1>2. CASE Rotate \/ DropSettings \/ \E k \in Keys : Drop(k) \/ Age(k)
    BY <1>2, Stutters DEF Rotate, DropSettings, Drop, Age, Otherwise
  <1> QED
    BY <1>1, <1>2 DEF WorldSteps

\* An answer from the cache, or from the fetch that a client waits for, is one that
\* CachedReads admits.
LEMMA ListMaps ==
    ASSUME Mapping, ListSteps
    PROVE  Reads!Next \/ UNCHANGED Reads!readVars
  <1> USE DEF provider, request, cached, history
  <1>1. Otherwise
    BY DEF ListSteps, Otherwise, GetHit, GetMiss, FetchDo, FetchRead, FetchDone, FetchFails, AfterFailure,
           RefreshRead, RefreshDone, RefreshFails
  <1>2. /\ pc \in [Callers -> {"idle", "settings", "unresolved", "resolving",
                               "list", "missed", "waiting", "done"}]
        /\ answer \in [Callers -> Lists \cup {None, Failed}]
        /\ key \in [Callers -> Keys]
        /\ entry \in [Keys -> [list : Lists, age : Ages] \cup {None}]
        /\ fetch \in [Keys -> Fetches \cup {None}]
        /\ Lists \subseteq Nat
        /\ \A c \in Callers : need[c].quiet \in Nat
        /\ \A k \in Keys : cleared.quiet[k] \in Nat
    BY Apart DEF Mapping, Clearing, Types, TypeOK, HistoryOK
  <1>3. \A c \in Callers : need[c].quiet <= cleared.quiet[key[c]]
    BY DEF Mapping, Clearing, Counted
  <1>4. ASSUME NEW c \in Callers, GetHit(c) PROVE Reads!Next
    <2> DEFINE n == entry[key[c]].list
    <2>1. n \in Nat /\ cleared.quiet[key[c]] <= n /\ n <= version[key[c]]
      BY <1>2, <1>4 DEF GetHit, Mapping, Clearing, Promised, Fresh, NotAhead
    <2>2. need[c].quiet <= n
      <3> HIDE DEF n
      <3>1. need[c].quiet \in Nat /\ cleared.quiet[key[c]] \in Nat /\ key[c] \in Keys
        BY <1>2
      <3> QED
        BY <1>3, <2>1, <3>1
    <2>3. /\ pc[c] \in Open /\ pc'[c] = "done" /\ answer'[c] = n
          /\ \A d \in Callers \ {c} : pc'[d] = pc[d] /\ answer'[d] = answer[d]
      BY <1>2, <1>4 DEF GetHit, Open
    <2> HIDE DEF n
    <2>4. {c} \in SUBSET Callers
      OBVIOUS
    <2>5. Reads!Reply({c})
      BY <1>1, <2>1, <2>2, <2>3, <2>4, Replies
    <2> QED
      BY <2>4, <2>5 DEF Reads!Next
  <1>5. ASSUME NEW k \in Keys, FetchDone(k) PROVE Reads!Next
    <2> DEFINE n == fetch[k].list
    <2>1. n \in Nat /\ cleared.quiet[k] <= n /\ n <= version[k]
      BY <1>2, <1>5 DEF FetchDone, Mapping, Clearing, Promised, Flying, NotAhead, Fetches
    <2>2. \A c \in Waiting(k) : need[c].quiet <= n /\ key[c] = k
      <3> HIDE DEF n
      <3> SUFFICES ASSUME NEW c \in Waiting(k) PROVE need[c].quiet <= n /\ key[c] = k
        OBVIOUS
      <3>1. c \in Callers /\ key[c] = k
        BY DEF Waiting
      <3>2. need[c].quiet \in Nat /\ cleared.quiet[k] \in Nat /\ need[c].quiet <= cleared.quiet[k]
        BY <1>2, <1>3, <3>1
      <3> QED
        BY <2>1, <3>1, <3>2
    <2>3. /\ \A c \in Waiting(k) : pc[c] \in Open /\ pc'[c] = "done" /\ answer'[c] = n
          /\ \A c \in Callers \ Waiting(k) : pc'[c] = pc[c] /\ answer'[c] = answer[c]
      BY <1>5 DEF FetchDone, Open, Waiting
    <2> HIDE DEF n
    <2>4. Waiting(k) \in SUBSET Callers
      BY DEF Waiting
    <2>5. Reads!Reply(Waiting(k))
      BY <1>1, <2>1, <2>2, <2>3, <2>4, Replies
    <2> QED
      BY <2>4, <2>5 DEF Reads!Next
  <1>6. ASSUME NEW k \in Keys, FetchFails(k) PROVE Reads!Next
    <2>1. /\ \A c \in Waiting(k) : pc[c] \in Open /\ pc'[c] = "done" /\ answer'[c] = Failed
          /\ \A c \in Callers \ Waiting(k) : pc'[c] = pc[c] /\ answer'[c] = answer[c]
      BY <1>6 DEF FetchFails, AfterFailure, Open, Waiting
    <2>2. Waiting(k) \in SUBSET Callers
      BY DEF Waiting
    <2>3. Reads!Reply(Waiting(k))
      BY <1>1, <2>1, <2>2, Replies
    <2> QED
      BY <2>2, <2>3 DEF Reads!Next
  <1>7. CASE \E c \in Callers : GetMiss(c) \/ FetchDo(c)
    BY <1>1, <1>2, <1>7, Stutters DEF GetMiss, FetchDo, Open
  <1>8. CASE \E k \in Keys : FetchRead(k) \/ RefreshRead(k) \/ RefreshDone(k) \/ RefreshFails(k)
    BY <1>1, <1>8, Stutters DEF FetchRead, RefreshRead, RefreshDone, RefreshFails
  <1> QED
    BY <1>4, <1>5, <1>6, <1>7, <1>8 DEF ListSteps

\* The scan of the keys begins a clearing, the answer to who asked for it ends it,
\* and what is deleted in between is not seen.
LEMMA ClearMaps ==
    ASSUME Mapping, ClearSteps
    PROVE  Reads!Next \/ UNCHANGED Reads!readVars
  <1> USE DEF provider, request, cached, history
  <1>1. \A S \in SUBSET Keys : S # None
    BY NoneAssumption
  <1>2. scanned \in (SUBSET Keys) \cup {None} /\ clearing.quiet \in SUBSET Keys
    BY DEF Mapping, Clearing, Types, TypeOK, HistoryOK
  <1>3. CASE ScanKeys
    <2>1. scanned = None /\ scanned' \in SUBSET Keys /\ clearing'.any = version
          /\ UNCHANGED <<version, pc, key, need, answer, cleared>>
      BY <1>3 DEF ScanKeys, Scanned
    <2>2. phase' = phase
      BY <2>1 DEF phase
    <2>3. Reads!Clear
      BY <1>1, <2>1, <2>2 DEF Reads!Clear
    <2> QED
      BY <2>3 DEF Reads!Next
  <1>4. CASE Invalidated
    <2>1. scanned = {} /\ scanned' = None
          /\ cleared'.quiet = [k \in Keys |-> IF k \in clearing.quiet THEN clearing.any[k]
                                              ELSE cleared.quiet[k]]
          /\ UNCHANGED <<version, pc, key, need, answer, clearing>>
      BY <1>4 DEF Invalidated
    <2>2. phase' = phase /\ scanned # None
      BY <1>1, <2>1 DEF phase
    <2>3. Reads!Cleared(clearing.quiet)
      BY <2>1, <2>2 DEF Reads!Cleared
    <2> QED
      BY <1>2, <2>3 DEF Reads!Next
  <1>5. ASSUME NEW k \in Keys, Delete(k) PROVE UNCHANGED Reads!readVars
    <2>1. scanned # None /\ scanned' = scanned \ {k}
          /\ UNCHANGED <<version, pc, key, need, answer, cleared, clearing>>
      BY <1>5 DEF Delete
    <2>2. scanned' # None
      BY <1>1, <1>2, <2>1
    <2> QED
      BY <2>1, <2>2, Stutters DEF Otherwise
  <1> QED
    BY <1>3, <1>4, <1>5 DEF ClearSteps

\* Whatever the caches, the fetches and refreshes and the clearings do, a request is
\* answered once, with a failure or with a list that the provider has had under its
\* key, no older than what was promised when it came.
THEOREM Implementation == Spec => ReadsSpec
  <1>1. Init => Mapping
    BY ClearingInit, NotAheadInit DEF Mapping
  <1>2. Mapping /\ [Next]_vars => Mapping'
    BY ClearingStep, NotAheadStep DEF Mapping, Clearing
  <1>3. Init => Reads!Init
    BY DEF Init, Reads!Init, phase
  <1>4. Mapping /\ [Next]_vars => [Reads!Next]_Reads!readVars
    <2> SUFFICES ASSUME Mapping, [Next]_vars
                 PROVE  Reads!Next \/ UNCHANGED Reads!readVars
      OBVIOUS
    <2>1. ASSUME NEW c \in Callers, NEW k \in Keys, Request(c, k) PROVE Reads!Next
      BY <2>1, RequestMaps DEF Reads!Next
    <2>2. CASE UNCHANGED vars
      BY <2>2, Stutters DEF vars, provider, cached, request, history, Otherwise
    <2> QED
      BY <2>1, <2>2, SettingsMap, WorldMaps, ListMaps, ClearMaps, NextSteps
  <1> QED
    BY <1>1, <1>2, <1>3, <1>4, PTL DEF Spec, ReadsSpec, Reads!Spec
=============================================================================
