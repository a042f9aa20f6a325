--------------------------- MODULE Organizations ---------------------------
(***************************************************************************)
(* The organizations of the user of each git server: how a provider's are  *)
(* read, by GitHub's two goroutines at once; the cache they are kept in;   *)
(* and the goroutines that fill it when the server starts, next to the     *)
(* requests of clients.                                                    *)
(*                                                                         *)
(* A list is what it is made of: the user himself, and so many pages.  An  *)
(* entry is there or not; what becomes of one that ages, and of tokens     *)
(* that are rotated, is in ListReads.                                      *)
(***************************************************************************)
EXTENDS Naturals

CONSTANTS Servers,     \* git servers; the goroutine that warms one up has its name
          Callers,     \* requests of clients
          None,        \* no list, no fetch, no answer yet
          Failed,      \* the answer is an error
          GitProvider, \* spec.gitProvider of each git server
          Pages        \* how many pages the listing of a provider has

Goroutines == Callers \cup Servers

Progress == {"reading", "read", "failed"}
Lists    == [user : BOOLEAN, pages : 0..Pages]
Flights  == [by : Goroutines, user : Progress, organizations : Progress, pages : 0..Pages]

ASSUME OrganizationsAssumption ==
    /\ Callers \cap Servers = {}
    /\ GitProvider \in [Servers -> {"github", "gitlab", "bitbucket", "another"}]
    /\ Pages \in Nat \ {0}
    /\ None # Failed
    /\ None \notin Lists /\ Failed \notin Lists /\ None \notin Flights

VARIABLES warm,   \* the warm-up: "off", "list", "settings", "spawned" or "failed"
          unread, \* git servers whose secret it has still to read
          cache,  \* the organizations cache, by git server
          flight, \* the fetch at work for a git server
          pc,     \* where a request, or the warm-up of a git server, is
          server, \* the git server it is about
          answer  \* what it got

warmVars == <<warm, unread>>
goVars   == <<pc, server, answer>>
orgVars  == <<warmVars, cache, flight, goVars>>

PC == {"idle", "settings", "list", "missed", "waiting", "done"}

OrgInit ==
    /\ warm = "off" /\ unread = {}
    /\ cache = [s \in Servers |-> None]
    /\ flight = [s \in Servers |-> None]
    /\ pc = [g \in Goroutines |-> "idle"]
    /\ server \in [Goroutines -> Servers]
    /\ \A s \in Servers : server[s] = s
    /\ answer = [g \in Goroutines |-> None]

-----------------------------------------------------------------------------
(* Reading the organizations of one git server.                            *)

\* Only GitHub's user is an organization of his own.
HasUser(s) == GitProvider[s] = "github"

\* GitHub and GitLab are read to the end, Bitbucket's workspaces with one request.
LastPage(s) == IF GitProvider[s] = "bitbucket" THEN 1 ELSE Pages

\* A fetch begins: at GitHub two goroutines, for the user and for the pages.
Begun(g, s) == [by            |-> g,
                user          |-> IF HasUser(s) THEN "reading" ELSE "read",
                organizations |-> "reading",
                pages         |-> 0]

\* The provider answers with the user.
ReadUser(s) ==
    /\ flight[s] # None /\ flight[s].user = "reading"
    /\ flight' = [flight EXCEPT ![s].user = "read"]
    /\ UNCHANGED <<warmVars, cache, goVars>>

\* The provider answers with a page, which is appended to the result.
ReadPage(s) ==
    /\ flight[s] # None /\ flight[s].organizations = "reading"
    /\ flight' = [flight EXCEPT
                    ![s].pages = @ + 1,
                    ![s].organizations = IF flight[s].pages + 1 = LastPage(s)
                                         THEN "read" ELSE "reading"]
    /\ UNCHANGED <<warmVars, cache, goVars>>

\* One of the two fails: the provider says no, the request's context is done,
\* or the other has failed and the context of the group is cancelled.
ReadFails(s) ==
    /\ flight[s] # None
    /\ \/ /\ flight[s].user = "reading"
          /\ flight' = [flight EXCEPT ![s].user = "failed"]
       \/ /\ flight[s].organizations = "reading"
          /\ flight' = [flight EXCEPT ![s].organizations = "failed"]
    /\ UNCHANGED <<warmVars, cache, goVars>>

\* eg.Wait waits for both.
Read(s) == flight[s] # None /\ "reading" \notin {flight[s].user, flight[s].organizations}

\* Mutant of Erred: the error of the goroutine that reads the user is not looked at.
PagesErred(s) == flight[s].organizations = "failed"

Erred(s) == "failed" \in {flight[s].user, flight[s].organizations}

\* Those who wait for the fetch of a git server, its leader among them.
Waiting(s) == {g \in Goroutines : pc[g] = "waiting" /\ server[g] = s}

\* Mutant of Tell: a fetch that fails is an answer to its leader only.
TellLeader(s, result) ==
    LET told == IF result = Failed THEN {flight[s].by} ELSE Waiting(s) IN
    /\ answer' = [g \in Goroutines |-> IF g \in told THEN result ELSE answer[g]]
    /\ pc' = [g \in Goroutines |-> IF g \in told THEN "done" ELSE pc[g]]

Tell(s, result) ==
    /\ answer' = [g \in Goroutines |-> IF g \in Waiting(s) THEN result ELSE answer[g]]
    /\ pc' = [g \in Goroutines |-> IF g \in Waiting(s) THEN "done" ELSE pc[g]]

\* The fetch is over: its list, if nothing failed, is cached and everybody's answer.
FetchDone(s) ==
    LET list == [user  |-> HasUser(s) /\ flight[s].user = "read",
                 pages |-> flight[s].pages] IN
    /\ Read(s)
    /\ \/ ~Erred(s) /\ cache' = [cache EXCEPT ![s] = list] /\ Tell(s, list)
       \/ Erred(s) /\ UNCHANGED cache /\ Tell(s, Failed)
    /\ flight' = [flight EXCEPT ![s] = None]
    /\ UNCHANGED <<warmVars, server>>

-----------------------------------------------------------------------------
(* MultiProviderOrganizationsService.ListUserOrganizations.                *)

Moves(g, from, to) == pc[g] = from /\ pc' = [pc EXCEPT ![g] = to]
Gets(g, result)    == answer' = [answer EXCEPT ![g] = result]

\* There is no provider of that name.
Unsupported(g) ==
    /\ Moves(g, "list", "done")
    /\ GitProvider[server[g]] = "another"
    /\ Gets(g, Failed)
    /\ UNCHANGED <<warmVars, cache, flight, server>>

\* GetOrFetch: the list is in the cache, or not.
Get(g) ==
    /\ pc[g] = "list" /\ GitProvider[server[g]] # "another"
    /\ \/ /\ cache[server[g]] # None
          /\ Moves(g, "list", "done")
          /\ Gets(g, cache[server[g]])
       \/ /\ cache[server[g]] = None
          /\ Moves(g, "list", "missed")
          /\ UNCHANGED answer
    /\ UNCHANGED <<warmVars, cache, flight, server>>

\* A miss fetches, or waits for whoever does, without looking again.
Fetch(g) ==
    LET s == server[g] IN
    /\ Moves(g, "missed", "waiting")
    /\ flight' = IF flight[s] # None THEN flight ELSE [flight EXCEPT ![s] = Begun(g, s)]
    /\ UNCHANGED <<warmVars, cache, server, answer>>

\* The entry expires, is evicted or invalidated.
Drop(s) ==
    /\ cache[s] # None
    /\ cache' = [cache EXCEPT ![s] = None]
    /\ UNCHANGED <<warmVars, flight, goVars>>

-----------------------------------------------------------------------------
(* OrganizationsService.ListUserOrganizations.                             *)

\* A client asks.
Request(c, s) ==
    /\ pc[c] \in {"idle", "done"}
    /\ pc' = [pc EXCEPT ![c] = "settings"]
    /\ server' = [server EXCEPT ![c] = s]
    /\ Gets(c, None)
    /\ UNCHANGED <<warmVars, cache, flight>>

\* The settings of the git server are found, or not.
GetSettings(c) ==
    /\ \/ Moves(c, "settings", "list") /\ UNCHANGED answer
       \/ Moves(c, "settings", "done") /\ Gets(c, Failed)
    /\ UNCHANGED <<warmVars, cache, flight, server>>

-----------------------------------------------------------------------------
(* The warm-up.                                                            *)

\* GetGitProviderSettingsList lists the git servers.
ListServers ==
    /\ warm = "list"
    /\ \/ warm' = "settings" /\ unread' = Servers
       \/ warm' = "failed" /\ UNCHANGED unread
    /\ UNCHANGED <<cache, flight, goVars>>

\* It reads the secret of one.
ReadSecret(s) ==
    /\ warm = "settings" /\ s \in unread
    /\ unread' = unread \ {s}
    /\ UNCHANGED <<warm, cache, flight, goVars>>

\* The secret is not there, or has no token: that is the end of the warm-up.
SecretMissing(s) ==
    /\ warm = "settings" /\ s \in unread
    /\ warm' = "failed"
    /\ UNCHANGED <<unread, cache, flight, goVars>>

\* With the settings of all, a goroutine for each starts.
Spawn ==
    /\ warm = "settings" /\ unread = {}
    /\ warm' = "spawned"
    /\ pc' = [g \in Goroutines |-> IF g \in Servers THEN "list" ELSE pc[g]]
    /\ UNCHANGED <<unread, cache, flight, server, answer>>

-----------------------------------------------------------------------------
\* What goes on whether or not clients ask.
WarmSteps == ListServers \/ Spawn \/ \E s \in Servers : ReadSecret(s) \/ SecretMissing(s)
ReadSteps(s) == ReadUser(s) \/ ReadPage(s) \/ ReadFails(s)
GoSteps(g) == Unsupported(g) \/ Get(g) \/ Fetch(g)

OrgNext ==
    \/ WarmSteps
    \/ \E s \in Servers : ReadSteps(s) \/ FetchDone(s) \/ Drop(s)
    \/ \E g \in Goroutines : GoSteps(g)
    \/ \E c \in Callers : GetSettings(c)

\* A read whose context is going to end: that of a request does after 60 s, and
\* the one that the two goroutines share when one of them fails.  The warm-up
\* has no deadline.
Bounded(s) == flight[s] # None /\ (flight[s].by \in Callers \/ Erred(s))

-----------------------------------------------------------------------------
(* Properties.                                                             *)

\* Every variable keeps its type, and who waits waits for a fetch at work.
OrgTypeOK ==
    /\ warm \in {"off", "list", "settings", "spawned", "failed"}
    /\ unread \subseteq Servers
    /\ cache \in [Servers -> Lists \cup {None}]
    /\ flight \in [Servers -> Flights \cup {None}]
    /\ pc \in [Goroutines -> PC]
    /\ server \in [Goroutines -> Servers]
    /\ answer \in [Goroutines -> Lists \cup {None, Failed}]
    /\ \A g \in Goroutines : pc[g] = "waiting" => flight[server[g]] # None

\* All that a provider has, or at Bitbucket the first page of it.
Whole(s) == [user |-> HasUser(s), pages |-> LastPage(s)]

\* Nobody gets part of the organizations, and none is cached: when one of the two
\* goroutines fails, or a page does, what the others have read is thrown away.
WholeLists ==
    /\ \A s \in Servers : cache[s] # None => cache[s] = Whole(s)
    /\ \A g \in Goroutines : answer[g] \notin {None, Failed} => answer[g] = Whole(server[g])
=============================================================================
