----------------------------- MODULE ListReads -----------------------------
(***************************************************************************)
(* Reading a cached list: repositories, organizations, branches, pull      *)
(* requests or pipelines.  A request takes the settings of its git server, *)
(* with the provider's token, from a cache or from Kubernetes, and the     *)
(* list from a sturdyc cache with early refreshes: an entry that has aged  *)
(* is refreshed behind the answer's back, an older one while the caller    *)
(* waits, and misses of a key share one fetch.  Every fetch uses the       *)
(* settings its request had.  Somebody may clear the cache, which is done  *)
(* key by key.                                                             *)
(*                                                                         *)
(* A list is the number of its version, a token the number of its rotation.*)
(* Expiry and eviction are one step, possible at any time; so is ageing.   *)
(***************************************************************************)
EXTENDS Naturals

CONSTANTS Callers,    \* the requests being served
          Keys,       \* cache keys of one git server's lists
          None,       \* no entry, no fetch, nothing read yet
          Begun,      \* settings being resolved that have not been read yet
          Failed,     \* an error answer
          MaxVersion, \* bound: changes of a list at the provider
          MaxToken,   \* bound: rotations of the token
          MaxChanges  \* bound: changes of a list and rotations of the token together

Lists  == 0 .. MaxVersion
Tokens == 0 .. MaxToken
Ages   == {"new", "refresh", "old"}

\* A fetch or refresh: the token it uses, and the list once it has been read.
Unread(t) == [token |-> t, list |-> None]
Fetches  == [token : Tokens, list : Lists \cup {None}]

ASSUME NoneAssumption ==
    /\ None \notin Nat /\ Failed \notin Nat
    /\ Begun \notin Nat
    /\ None # Failed /\ None # Begun
    /\ None \notin Fetches /\ \A S \in SUBSET Keys : None # S
    /\ MaxVersion \in Nat /\ MaxToken \in Nat /\ MaxChanges \in Nat

VARIABLES version,    \* the provider's list under each key
          secret,     \* the token in the git server's secret
          settings,   \* settingsCache: a token or None
          resolve,    \* settings being resolved: None, Begun, or the token read
          entry,      \* the list cache: None or [list, age]
          fetch,      \* the fetch that misses of a key share: None or [token, list]
          refresh,    \* the background refresh of a key: likewise
          pc,         \* where each request is
          key,        \* the key it asks for
          token,      \* the token in its settings
          answer,     \* its answer
          scanned,    \* the invalidator's keys still to delete, or None
          tokenFloor, \* history: tokens below are in nobody's hands but of older fetches
          cleared,    \* history: the versions when the last finished invalidation began
          clearing,   \* history: those of the one at work, and the keys not being fetched then
          need        \* history: what a request may count on since it came

provider == <<version, secret>>
cached   == <<settings, resolve, entry, fetch, refresh>>
request  == <<pc, key, token, answer>>
history  == <<tokenFloor, cleared, clearing, need>>
vars     == <<provider, cached, request, scanned, history>>

TypeOK ==
    /\ version \in [Keys -> Lists] /\ secret \in Tokens
    /\ settings \in Tokens \cup {None}
    /\ resolve \in Tokens \cup {None, Begun}
    /\ entry \in [Keys -> [list : Lists, age : Ages] \cup {None}]
    /\ fetch \in [Keys -> Fetches \cup {None}]
    /\ refresh \in [Keys -> Fetches \cup {None}]
    /\ pc \in [Callers -> {"idle", "settings", "unresolved", "resolving",
                           "list", "missed", "waiting", "done"}]
    /\ key \in [Callers -> Keys]
    /\ token \in [Callers -> Tokens \cup {None}]
    /\ answer \in [Callers -> Lists \cup {None, Failed}]
    /\ scanned \in (SUBSET Keys) \cup {None}
    \* requests wait only for what is at work
    /\ \A c \in Callers : /\ pc[c] = "resolving" => resolve # None
                          /\ pc[c] = "waiting" => fetch[key[c]] # None
                          /\ pc[c] \in {"list", "missed", "waiting"} => token[c] \in Tokens

Init ==
    /\ version = [k \in Keys |-> 0]
    /\ secret = 0
    /\ settings = None
    /\ resolve = None
    /\ entry = [k \in Keys |-> None]
    /\ fetch = [k \in Keys |-> None]
    /\ refresh = [k \in Keys |-> None]
    /\ pc = [c \in Callers |-> "idle"]
    /\ key \in [Callers -> Keys]
    /\ token = [c \in Callers |-> None]
    /\ answer = [c \in Callers |-> None]
    /\ scanned = None
    /\ tokenFloor = 0
    /\ cleared = [any |-> [k \in Keys |-> 0], quiet |-> [k \in Keys |-> 0]]
    /\ clearing = [any |-> [k \in Keys |-> 0], quiet |-> {}]
    /\ need = [c \in Callers |-> [any |-> 0, quiet |-> 0, token |-> 0]]

-----------------------------------------------------------------------------
(* The environment.                                                        *)

\* The list under a key changes at the provider.
Update(k) ==
    /\ version[k] < MaxVersion /\ version[k] + secret < MaxChanges
    /\ version' = [version EXCEPT ![k] = @ + 1]
    /\ UNCHANGED <<secret, cached, request, scanned, history>>

\* The token in the secret is rotated.
Rotate ==
    /\ secret < MaxToken /\ \A k \in Keys : version[k] + secret < MaxChanges
    /\ secret' = secret + 1
    /\ UNCHANGED <<version, cached, request, scanned, history>>

\* The settings expire, or are evicted.  From now on, unless they are just
\* being resolved, whoever asks for settings gets the token of the secret.
DropSettings ==
    /\ settings # None
    /\ settings' = None
    /\ tokenFloor' = IF resolve = None THEN secret ELSE tokenFloor
    /\ UNCHANGED <<provider, resolve, entry, fetch, refresh, request, scanned,
                   cleared, clearing, need>>

\* An entry expires, or is evicted.
Drop(k) ==
    /\ entry[k] # None
    /\ entry' = [entry EXCEPT ![k] = None]
    /\ UNCHANGED <<provider, settings, resolve, fetch, refresh, request, scanned, history>>

\* An entry gets older: due for a background refresh, then for a synchronous one.
Age(k) ==
    /\ entry[k] # None
    /\ \E a \in Ages :
          /\ <<entry[k].age, a>> \in {<<"new", "refresh">>, <<"new", "old">>, <<"refresh", "old">>}
          /\ entry' = [entry EXCEPT ![k].age = a]
    /\ UNCHANGED <<provider, settings, resolve, fetch, refresh, request, scanned, history>>

-----------------------------------------------------------------------------
(* GetGitProviderSettings.                                                 *)

\* A request comes in.
Request(c, k) ==
    /\ pc[c] \in {"idle", "done"}
    /\ pc' = [pc EXCEPT ![c] = "settings"]
    /\ key' = [key EXCEPT ![c] = k]
    /\ token' = [token EXCEPT ![c] = None]
    /\ answer' = [answer EXCEPT ![c] = None]
    /\ need' = [need EXCEPT ![c] = [any   |-> cleared.any[k],
                                    quiet |-> cleared.quiet[k],
                                    token |-> tokenFloor]]
    /\ UNCHANGED <<provider, cached, scanned, tokenFloor, cleared, clearing>>

\* The settings are cached, or not.
GetSettings(c) ==
    /\ pc[c] = "settings"
    /\ token' = [token EXCEPT ![c] = settings]
    /\ pc' = [pc EXCEPT ![c] = IF settings # None THEN "list" ELSE "unresolved"]
    /\ UNCHANGED <<provider, cached, key, answer, scanned, history>>

\* A miss starts to resolve the settings, or waits for who does.
ResolveDo(c) ==
    /\ pc[c] = "unresolved"
    /\ resolve' = IF resolve = None THEN Begun ELSE resolve
    /\ pc' = [pc EXCEPT ![c] = "resolving"]
    /\ UNCHANGED <<provider, settings, entry, fetch, refresh, key, token, answer,
                   scanned, history>>

\* The git server and its secret are read from Kubernetes.
ResolveRead ==
    /\ resolve = Begun
    /\ resolve' = secret
    /\ UNCHANGED <<provider, settings, entry, fetch, refresh, request, scanned, history>>

\* The settings are cached, and everybody who waits goes on with them.
ResolveDone ==
    /\ resolve \in Tokens
    /\ settings' = resolve
    /\ resolve' = None
    /\ token' = [c \in Callers |-> IF pc[c] = "resolving" THEN resolve ELSE token[c]]
    /\ pc' = [c \in Callers |-> IF pc[c] = "resolving" THEN "list" ELSE pc[c]]
    /\ UNCHANGED <<provider, entry, fetch, refresh, key, answer, scanned, history>>

\* The git server or its secret is not there, the token is empty, or the
\* context is done: an error, which is not cached.
ResolveFails ==
    /\ resolve # None
    /\ resolve' = None
    /\ answer' = [c \in Callers |-> IF pc[c] = "resolving" THEN Failed ELSE answer[c]]
    /\ pc' = [c \in Callers |-> IF pc[c] = "resolving" THEN "done" ELSE pc[c]]
    /\ UNCHANGED <<provider, settings, entry, fetch, refresh, key, token, scanned, history>>

-----------------------------------------------------------------------------
(* GetOrFetch on the list.                                                 *)

\* Mutant of FetchToken: the fetch function is made once for a key, with the
\* settings of the first request.
FirstToken(c) == 0

\* The token the fetch function of a request uses: of the settings it closes over.
FetchToken(c) == token[c]

\* The list is cached: it is the answer, and an aged one is refreshed behind it,
\* or not yet again, when a refresh was tried not long ago.
GetHit(c) ==
    LET k == key[c] IN
    /\ pc[c] = "list" /\ entry[k] # None
    /\ entry[k].age # "old"
    /\ answer' = [answer EXCEPT ![c] = entry[k].list]
    /\ pc' = [pc EXCEPT ![c] = "done"]
    /\ \/ /\ entry[k].age = "refresh" /\ refresh[k] = None
          /\ refresh' = [refresh EXCEPT ![k] = Unread(FetchToken(c))]
          /\ entry' = [entry EXCEPT ![k].age = "new"]
       \/ UNCHANGED <<refresh, entry>>
    /\ UNCHANGED <<provider, settings, resolve, fetch, key, token, scanned, history>>

\* There is no entry, or one so old that the caller waits for a new one.
GetMiss(c) ==
    /\ pc[c] = "list"
    /\ entry[key[c]] # None => entry[key[c]].age = "old"
    /\ pc' = [pc EXCEPT ![c] = "missed"]
    /\ UNCHANGED <<provider, cached, key, token, answer, scanned, history>>

\* A miss fetches, or waits for the fetch at work.
FetchDo(c) ==
    LET k == key[c] IN
    /\ pc[c] = "missed"
    /\ pc' = [pc EXCEPT ![c] = "waiting"]
    /\ fetch' = IF fetch[k] # None THEN fetch ELSE [fetch EXCEPT ![k] = Unread(FetchToken(c))]
    /\ UNCHANGED <<provider, settings, resolve, entry, refresh, key, token, answer,
                   scanned, history>>

\* The provider answers the fetch.
FetchRead(k) ==
    /\ fetch[k] # None /\ fetch[k].list = None
    /\ fetch' = [fetch EXCEPT ![k].list = version[k]]
    /\ UNCHANGED <<provider, settings, resolve, entry, refresh, request, scanned, history>>

\* Mutant of Waiting: who has been told already is told again.
WaitingOrTold(k) == {c \in Callers : pc[c] \in {"waiting", "done"} /\ key[c] = k}

\* The requests that wait for the fetch of a key.
Waiting(k) == {c \in Callers : pc[c] = "waiting" /\ key[c] = k}

\* The list is cached and is the answer to everybody who waits.
FetchDone(k) ==
    /\ fetch[k] # None /\ fetch[k].list # None
    /\ entry' = [entry EXCEPT ![k] = [list |-> fetch[k].list, age |-> "new"]]
    /\ answer' = [c \in Callers |-> IF c \in Waiting(k) THEN fetch[k].list ELSE answer[c]]
    /\ pc' = [c \in Callers |-> IF c \in Waiting(k) THEN "done" ELSE pc[c]]
    /\ fetch' = [fetch EXCEPT ![k] = None]
    /\ UNCHANGED <<provider, settings, resolve, refresh, key, token, scanned, history>>

\* Mutant of AfterFailure: a failed refresh leaves its caller waiting.
NobodyTold(k) == UNCHANGED <<pc, answer>>

\* The error is the answer to everybody who waits, whatever was cached.
AfterFailure(k) ==
    /\ answer' = [c \in Callers |-> IF c \in Waiting(k) THEN Failed ELSE answer[c]]
    /\ pc' = [c \in Callers |-> IF c \in Waiting(k) THEN "done" ELSE pc[c]]

\* The provider fails, or the context of the request that fetches is done.
FetchFails(k) ==
    /\ fetch[k] # None
    /\ fetch' = [fetch EXCEPT ![k] = None]
    /\ AfterFailure(k)
    /\ UNCHANGED <<provider, settings, resolve, entry, refresh, key, token, scanned, history>>

\* The provider answers the background refresh.
RefreshRead(k) ==
    /\ refresh[k] # None /\ refresh[k].list = None
    /\ refresh' = [refresh EXCEPT ![k].list = version[k]]
    /\ UNCHANGED <<provider, settings, resolve, entry, fetch, request, scanned, history>>

\* The refreshed list is cached, whatever is cached by now.
RefreshDone(k) ==
    /\ refresh[k] # None /\ refresh[k].list # None
    /\ entry' = [entry EXCEPT ![k] = [list |-> refresh[k].list, age |-> "new"]]
    /\ refresh' = [refresh EXCEPT ![k] = None]
    /\ UNCHANGED <<provider, settings, resolve, fetch, request, scanned, history>>

\* The background refresh fails; the entry stays.
RefreshFails(k) ==
    /\ refresh[k] # None
    /\ refresh' = [refresh EXCEPT ![k] = None]
    /\ UNCHANGED <<provider, settings, resolve, entry, fetch, request, scanned, history>>

-----------------------------------------------------------------------------
(* Manager.InvalidateCache.                                                *)

\* Mutant of Scanned: entries that are due for a refresh are left to it.
ScannedNew == {k \in Keys : entry[k] # None /\ entry[k].age = "new"}

\* The keys of the cache.
Scanned == {k \in Keys : entry[k] # None}

\* An invalidation lists the keys.
ScanKeys ==
    /\ scanned = None
    /\ scanned' = Scanned
    /\ clearing' = [any   |-> version,
                    quiet |-> {k \in Keys : fetch[k] = None /\ refresh[k] = None}]
    /\ UNCHANGED <<provider, cached, request, tokenFloor, cleared, need>>

\* It deletes one of them.
Delete(k) ==
    /\ scanned # None /\ k \in scanned
    /\ scanned' = scanned \ {k}
    /\ entry' = [entry EXCEPT ![k] = None]
    /\ UNCHANGED <<provider, settings, resolve, fetch, refresh, request, history>>

\* All are deleted: the client is told.
Invalidated ==
    /\ scanned = {}
    /\ scanned' = None
    /\ cleared' = [any   |-> clearing.any,
                   quiet |-> [k \in Keys |-> IF k \in clearing.quiet THEN clearing.any[k]
                                               ELSE cleared.quiet[k]]]
    /\ UNCHANGED <<provider, cached, request, tokenFloor, clearing, need>>

-----------------------------------------------------------------------------
Next ==
    \/ \E k \in Keys : Update(k) \/ Drop(k) \/ Age(k)
    \/ Rotate \/ DropSettings
    \/ \E c \in Callers, k \in Keys : Request(c, k)
    \/ \E c \in Callers : GetSettings(c) \/ ResolveDo(c)
    \/ ResolveRead \/ ResolveDone \/ ResolveFails
    \/ \E c \in Callers : GetHit(c) \/ GetMiss(c) \/ FetchDo(c)
    \/ \E k \in Keys : FetchRead(k) \/ FetchDone(k) \/ FetchFails(k)
    \/ \E k \in Keys : RefreshRead(k) \/ RefreshDone(k) \/ RefreshFails(k)
    \/ ScanKeys \/ Invalidated
    \/ \E k \in Keys : Delete(k)

Spec == Init /\ [][Next]_vars

\* A request's goroutine goes on, and what it waits for answers or fails: the
\* server's middleware ends its context after 60 seconds, and a client that takes
\* the context stops then.  go-bitbucket's, which reads branches and repositories,
\* takes none, and is assumed to be answered by the provider.  Nothing is assumed of
\* background refreshes, or of who invalidates.
FairSpec ==
    /\ Spec
    /\ \A c \in Callers : WF_vars(GetSettings(c)) /\ WF_vars(ResolveDo(c))
                          /\ WF_vars(GetHit(c) \/ GetMiss(c)) /\ WF_vars(FetchDo(c))
    /\ WF_vars(ResolveDone \/ ResolveFails)
    /\ \A k \in Keys : WF_vars(FetchDone(k) \/ FetchFails(k))

-----------------------------------------------------------------------------
(* Properties.                                                             *)

\* A rotated token dies out: once the cached settings have expired, with nobody
\* just resolving them, no request that comes later has the old token, and no
\* fetch or refresh it starts uses it, though entries, fetches and refreshes
\* made with the old token live on.
RotatedTokenGoes ==
    [][\A c \in Callers :
          /\ pc[c] = "missed" /\ pc'[c] = "waiting" /\ fetch[key[c]] = None
                 => fetch'[key[c]].token >= need[c].token
          /\ pc[c] = "list" /\ refresh'[key[c]] # refresh[key[c]] /\ pc'[c] = "done"
                 => refresh'[key[c]].token >= need[c].token]_vars

\* A request that comes after an invalidation is answered with a list no older
\* than the invalidation, if its key was not being fetched when that began.
QuietInvalidation ==
    \A c \in Callers : answer[c] \in Nat => answer[c] >= need[c].quiet

\* Reading through the caches is reading a list.
phase == [c \in Callers |-> CASE pc[c] = "idle" -> "idle"
                               [] pc[c] = "done" -> "answered"
                               [] OTHER -> "open"]
Reads == INSTANCE CachedReads WITH
            asked    <- key,
            floor    <- [c \in Callers |-> need[c].quiet],
            atWork   <- scanned # None,
            pending  <- clearing.any,
            promised <- cleared.quiet

\* The cached lists implement CachedReads: each request is answered once, with a
\* failure or with a list of its own key that the provider has had, no older than
\* promised; and a clearing promises what was there when it began, of the keys
\* that were not being fetched then.
ReadsSpec == Reads!Spec

\* After an invalidation every request is answered with a list no older than it.
Invalidation ==
    \A c \in Callers : answer[c] \in Nat => answer[c] >= need[c].any

\* Every request is answered, though the list and the token change under it,
\* entries come and go, and fetches fail.
Answered == \A c \in Callers : pc[c] = "settings" ~> pc[c] = "done"
=============================================================================
