------------------------------ MODULE Directory ------------------------------
(***************************************************************************)
(* Whom a canvas can be shared with: GET /api/principals merges the        *)
(* registry of principals the hub has seen (principal/principal.go), a     *)
(* file that is read and replaced whole under a mutex, with the users and  *)
(* groups of Authentik (authentik/authentik.go), fetched page by page into *)
(* a cache with a time to live, one refresh at a time                      *)
(* (server/directory.go, handlers_principals.go).                          *)
(*                                                                         *)
(* Users and groups are entries alike, and an entry stays on its page:     *)
(* those that are deactivated keep their place.  The cache's deadline is   *)
(* the time left to it.  Of display names, which come from either source   *)
(* and change, it is only said whom a query may match by them.             *)
(***************************************************************************)
EXTENDS Naturals, Sequences, FiniteSets

CONSTANTS
    Entry,         \* users and groups
    Page,          \* Authentik's pages: a sequence of sets of entries
    Caller,        \* requests that list
    Observer,      \* logins, forwarded actors and grants, which feed the registry
    TTL, errorTTL,
    Query,         \* what callers type, nothing too
    ByEmail,       \* the entries whose email begins with a query
    ByName,        \* those of which a display name may
    Rank,          \* an entry's place in the order of the emails
    maxPrincipalSuggestions,
    Scenarios,     \* sets of callers, queries, observers, "toggle", "outage", "disk", "damage"
    None, Corrupt

ASSUME DirectoryAssumption ==
    /\ errorTTL \in Nat \ {0} /\ TTL \in Nat /\ errorTTL <= TTL
    /\ None \notin Caller \cup Observer \cup Query
    /\ IsFiniteSet(Entry) /\ Rank \in [Entry -> Nat]
    /\ \A p, r \in Entry : Rank[p] = Rank[r] => p = r
    /\ ByEmail \in [Query -> SUBSET Entry] /\ ByName \in [Query -> SUBSET Entry]
    /\ maxPrincipalSuggestions \in Nat \ {0}
    /\ \A E \in SUBSET Entry : E # None /\ E # Corrupt
    /\ Page \in Seq(SUBSET Entry) /\ Page # <<>>
    /\ \A p \in Entry : \E i \in DOMAIN Page : p \in Page[i]

VARIABLES
    may,           \* who acts and what may happen in this behaviour
    active,        \* the entries active in Authentik
    up,            \* it answers
    cached, loaded, left,    \* the cache, and the time left before a refresh is due
    fetchMu,       \* the caller that holds the refresh
    pc,
    asked,         \* a caller's query
    base,          \* what it has read of the registry, then the merged list and its answer
    page, got,     \* the page a caller fetches, and the entries it has so far
    file, mu, seen,    \* principals.json, its mutex, and what observers have read
    observed,      \* history: the principals whose sighting was saved
    had,           \* history: what had been saved when a caller asked
    damaged,
    quiet,         \* history: time since a refresh last failed, up to errorTTL
    always, ever   \* history: active all through the refresh, or at some time of it

cacheVars == <<cached, loaded, left>>
authentikVars == <<may, active, up>>
callerVars == <<pc, asked, base, page, got, had>>
registryVars == <<file, mu, seen, observed, damaged>>
windowVars == <<always, ever>>
vars == <<authentikVars, cacheVars, fetchMu, callerVars, registryVars, quiet, windowVars>>

TypeOK ==
    /\ may \in Scenarios /\ active \subseteq Entry /\ up \in BOOLEAN
    /\ cached \subseteq Entry /\ loaded \in BOOLEAN /\ left \in 0 .. TTL
    /\ fetchMu \in Caller \cup {None}
    /\ pc \in [Caller -> {"idle", "registry", "list", "wait", "recheck", "fetch", "listed", "answered"}]
    /\ asked \in [Caller -> Query \cup {None}]
    /\ base \in [Caller -> SUBSET Entry] /\ got \in [Caller -> SUBSET Entry]
    /\ page \in [Caller -> DOMAIN Page]
    /\ file \in (SUBSET Entry) \cup {Corrupt} /\ mu \in Observer \cup {None}
    /\ seen \in [Observer -> (SUBSET Entry) \cup {None}] /\ observed \subseteq Entry /\ had \in [Caller -> SUBSET Entry]
    /\ damaged \in BOOLEAN /\ quiet \in 0 .. errorTTL
    /\ \A c \in Caller : pc[c] \in {"recheck", "fetch"} <=> fetchMu = c

Init ==
    /\ may \in Scenarios
    /\ active \in SUBSET Entry /\ up \in BOOLEAN
    /\ cached = {} /\ loaded = FALSE /\ left = 0 /\ fetchMu = None
    /\ pc = [c \in Caller |-> "idle"] /\ asked = [c \in Caller |-> None] /\ base = [c \in Caller |-> {}]
    /\ page = [c \in Caller |-> 1] /\ got = [c \in Caller |-> {}]
    /\ had = [c \in Caller |-> {}]
    /\ file = {} /\ mu = None /\ seen = [o \in Observer |-> None] /\ observed = {} /\ damaged = FALSE
    /\ quiet = errorTTL
    /\ always = {} /\ ever = {}

Goto(c, step) == pc' = [pc EXCEPT ![c] = step]

-----------------------------------------------------------------------------
(* The registry. *)

\* A missing or a damaged file is an empty registry.
load == IF file = Corrupt THEN {} ELSE file

\* Variant of ObserveRead: the file is read before the mutex is taken.
ObserveRead_NoWait(o) ==
    /\ o \in may /\ mu' = o /\ seen' = [seen EXCEPT ![o] = load]
    /\ UNCHANGED <<authentikVars, cacheVars, fetchMu, callerVars, file, observed, damaged,
                   quiet, windowVars>>

ObserveRead(o) ==
    /\ o \in may /\ mu = None /\ mu' = o /\ seen' = [seen EXCEPT ![o] = load]
    /\ UNCHANGED <<authentikVars, cacheVars, fetchMu, callerVars, file, observed, damaged,
                   quiet, windowVars>>

\* save replaces the file by a complete one, or fails: nobody minds.
ObserveSave(o) ==
    /\ seen[o] # None
    /\ \E p \in Entry :
          \/ file' = seen[o] \cup {p} /\ observed' = observed \cup {p}
          \/ "disk" \in may /\ UNCHANGED <<file, observed>>
    /\ mu' = None /\ seen' = [seen EXCEPT ![o] = None]
    /\ UNCHANGED <<authentikVars, cacheVars, fetchMu, callerVars, damaged, quiet, windowVars>>

\* Somebody edits principals.json and leaves it unreadable.
Damage ==
    /\ "damage" \in may /\ ~damaged /\ damaged' = TRUE /\ file' = Corrupt
    /\ UNCHANGED <<authentikVars, cacheVars, fetchMu, callerVars, mu, seen, observed, quiet,
                   windowVars>>

-----------------------------------------------------------------------------
(* The lister: the registry first, then Authentik's client. *)

Ask(c) ==
    /\ c \in may /\ pc[c] \in {"idle", "answered"} /\ Goto(c, "registry")
    /\ \E q \in Query \cap may : asked' = [asked EXCEPT ![c] = q]
    /\ base' = [base EXCEPT ![c] = {}] /\ had' = [had EXCEPT ![c] = observed]
    /\ UNCHANGED <<authentikVars, cacheVars, fetchMu, page, got, registryVars, quiet, windowVars>>

RegistryList(c) ==
    /\ pc[c] = "registry" /\ mu = None
    /\ base' = [base EXCEPT ![c] = load] /\ Goto(c, "list")
    /\ UNCHANGED <<authentikVars, cacheVars, fetchMu, asked, page, got, had, registryVars,
                   quiet, windowVars>>

\* compositeLister: the directory adds to the registry.
merged(c, directory) == base[c] \cup directory

Finish(c, directory) ==
    /\ base' = [base EXCEPT ![c] = merged(c, directory)]
    /\ got' = [got EXCEPT ![c] = {}] /\ page' = [page EXCEPT ![c] = 1]
    /\ Goto(c, "listed")

\* The first of the entries in the order of the emails, as many as an answer takes.
Before(entries, p) == {r \in entries : Rank[r] < Rank[p]}
suggestions(entries) ==
    {p \in entries : Cardinality(Before(entries, p)) < maxPrincipalSuggestions}

\* handlePrincipals answers with those that the query matches, up to the cap.
Answer(c) ==
    /\ pc[c] = "listed" /\ Goto(c, "answered")
    /\ \E named \in SUBSET ByName[asked[c]] :
          base' = [base EXCEPT ![c] = suggestions(@ \cap (ByEmail[asked[c]] \cup named))]
    /\ UNCHANGED <<authentikVars, cacheVars, fetchMu, asked, page, got, had, registryVars, quiet,
                   windowVars>>

\* Variant of Fresh: the deadline is forgotten.
Fresh_Loaded == loaded

Fresh == loaded /\ left > 0

Check(c) ==
    /\ pc[c] = "list"
    /\ IF Fresh THEN Finish(c, cached)
       ELSE Goto(c, "wait") /\ UNCHANGED <<base, got, page>>
    /\ UNCHANGED <<authentikVars, cacheVars, fetchMu, asked, had, registryVars, quiet, windowVars>>

LockFetch(c) ==
    /\ pc[c] = "wait" /\ fetchMu = None /\ fetchMu' = c /\ Goto(c, "recheck")
    /\ UNCHANGED <<authentikVars, cacheVars, asked, base, page, got, had, registryVars, quiet,
                   windowVars>>

\* Variant of Refreshed: the cache is not looked at again.
Refreshed_No == FALSE

\* Another caller refreshed the cache while this one waited.
Refreshed == Fresh

Recheck(c) ==
    /\ pc[c] = "recheck"
    /\ IF Refreshed THEN fetchMu' = None /\ Finish(c, cached) /\ UNCHANGED windowVars
       ELSE /\ Goto(c, "fetch") /\ UNCHANGED <<fetchMu, base, got, page>>
            /\ always' = active /\ ever' = active
    /\ UNCHANGED <<authentikVars, cacheVars, asked, had, registryVars, quiet>>

\* The deadline is set when the refresh ends.
Store(c, entries, time) ==
    /\ cached' = entries /\ loaded' = TRUE /\ left' = time
    /\ always' = {} /\ ever' = {}
    /\ fetchMu' = None /\ Finish(c, entries)

\* The last page's answer fills the cache.
FetchPage(c) ==
    LET entries == got[c] \cup (Page[page[c]] \cap active)
    IN  /\ pc[c] = "fetch" /\ up
        /\ IF page[c] + 1 \in DOMAIN Page
           THEN /\ got' = [got EXCEPT ![c] = entries] /\ page' = [page EXCEPT ![c] = @ + 1]
                /\ UNCHANGED <<cacheVars, fetchMu, pc, base, windowVars>>
           ELSE Store(c, entries, TTL)
        /\ UNCHANGED <<authentikVars, asked, had, registryVars, quiet>>

\* Variant of kept: what was fetched before the error is the new view.
kept_Partial(c) == got[c]

\* A refresh that fails leaves the view there was.
kept(c) == cached

\* An error status, an unreadable answer, or no answer in time.
FetchFails(c) ==
    /\ pc[c] = "fetch" /\ ~up
    /\ Store(c, kept(c), errorTTL)
    /\ quiet' = 0
    /\ UNCHANGED <<authentikVars, asked, had, registryVars>>

-----------------------------------------------------------------------------
(* Time and Authentik. *)

Tick ==
    /\ left > 0 \/ quiet < errorTTL
    /\ left' = IF left > 0 THEN left - 1 ELSE left
    /\ quiet' = IF quiet < errorTTL THEN quiet + 1 ELSE quiet
    /\ UNCHANGED <<authentikVars, cached, loaded, fetchMu, callerVars, registryVars, windowVars>>

\* An entry is activated or deactivated.
Toggle(p) ==
    /\ "toggle" \in may
    /\ active' = IF p \in active THEN active \ {p} ELSE active \cup {p}
    /\ IF \E c \in Caller : pc[c] = "fetch"
       THEN always' = always \ {p} /\ ever' = ever \cup {p} ELSE UNCHANGED windowVars
    /\ UNCHANGED <<may, up, cacheVars, fetchMu, callerVars, registryVars, quiet>>

Switch ==
    /\ "outage" \in may /\ up' = ~up
    /\ UNCHANGED <<may, active, cacheVars, fetchMu, callerVars, registryVars, quiet, windowVars>>

Proceed(c) ==
    RegistryList(c) \/ Check(c) \/ Recheck(c) \/ FetchPage(c) \/ FetchFails(c) \/ Answer(c)

Next ==
    \/ \E c \in Caller : Ask(c) \/ Proceed(c) \/ LockFetch(c)
    \/ \E o \in Observer : ObserveRead(o) \/ ObserveSave(o)
    \/ \E p \in Entry : Toggle(p)
    \/ Damage \/ Tick \/ Switch

Spec == Init /\ [][Next]_vars

\* Handlers run and time passes; Go's mutex hands itself to a waiter that starves,
\* and a refresh that Authentik does not answer ends by its deadline.
Fairness ==
    /\ WF_vars(Tick)
    /\ \A c \in Caller : /\ WF_vars(Answer(c)) /\ WF_vars(Check(c)) /\ WF_vars(Recheck(c))
                         /\ WF_vars(FetchPage(c) \/ FetchFails(c)) /\ SF_vars(RegistryList(c))
                         /\ SF_vars(LockFetch(c))
    /\ \A o \in Observer : WF_vars(ObserveSave(o))

FairSpec == Spec /\ Fairness

-----------------------------------------------------------------------------
(* Properties. *)

\* An outage costs one attempt per errorTTL however many ask: whoever waited for the
\* refresh that failed is served the stale view and does not try again itself
\* (List's second look at the cache under fetchMu).
BacksOff == \A c \in Caller : pc[c] = "fetch" => quiet = errorTTL

\* The cache changes to what one whole refresh saw: everyone who was active all
\* through it, and nobody who never was.  A refresh that fails on a later page leaves
\* no partial view behind (refresh, List).
WholeView ==
    [][cached' # cached => always \subseteq cached' /\ cached' \subseteq ever]_vars

\* An answer has no entry that the query does not match, and lacks one of those that
\* have been seen only when it is full of such that come before it.
Suggested(c) ==
    /\ base[c] \subseteq ByEmail[asked[c]] \cup ByName[asked[c]]
    /\ Cardinality(base[c]) <= maxPrincipalSuggestions
    /\ \A p \in had[c] \cap ByEmail[asked[c]] :
          p \in base[c] \/ Cardinality(Before(base[c], p)) >= maxPrincipalSuggestions

\* No sighting that was saved is lost, unless the file is damaged: observers do not
\* overwrite one another, and who had been seen when a caller asked, and has an email
\* that begins with the query, is in its answer or beyond the cap, whatever Authentik
\* says or does not say (Observe, compositeLister, handlePrincipals).
ObservedKept ==
    ~damaged => /\ observed \subseteq load
                /\ \A c \in Caller : pc[c] = "answered" => Suggested(c)

\* When Authentik stays up and as it is, and people go on asking, the cache comes to
\* hold what it holds.
CatchesUp ==
    \A S \in SUBSET Entry :
        <>[](up /\ active = S) /\ []<>(\E c \in Caller : pc[c] = "list") => <>[](cached = S)
=============================================================================
