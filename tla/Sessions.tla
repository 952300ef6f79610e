------------------------------ MODULE Sessions ------------------------------
(***************************************************************************)
(* Browser sessions on the hub: the registry of src/internal/session, the  *)
(* signed cookie of src/internal/oidc that names a record of it, and what  *)
(* the gate (hubgate.go), the sessions API (handlers_sessions.go) and      *)
(* logout do with the two.                                                 *)
(*                                                                         *)
(* The actors are browsers, the handlers of their requests, and the hub's  *)
(* own restarts.  Each operation of the registry is one critical section.  *)
(* A response reaches its browser in a step of its own, in any order.      *)
(***************************************************************************)
EXTENDS Integers

CONSTANTS
    Sid, Browser, Req, User, None, Corrupt,
    Idle,        \* idleTTL
    Cap,         \* maxLifetime, 0 for none
    Touch,       \* TouchInterval
    MaxClock,    \* bound on the clock
    Faults       \* what may go wrong besides the interleaving

ASSUME SessionsAssumption ==
    /\ None \notin User \cup Sid \cup Nat /\ Corrupt # None
    /\ Idle \in Nat \ {0} /\ Cap \in Nat /\ Touch \in Nat /\ MaxClock \in Nat
    /\ Faults \subseteq {"disk", "lost", "damage", "restart"}

VARIABLES
    clock,
    records,   \* the registry in memory
    file,      \* sessions.json: a registry, or Corrupt
    loadErr,   \* the registry failed to load
    cookie,    \* the session cookie in each browser, or None
    pc,        \* where each request is
    req,       \* what it asks for, with the browser and cookie it came with
    setCookie, \* the cookie its response will set, or None
    used,      \* history: when each session was last used, as far as the hub can know
    ended      \* history: sessions whose end was saved

vars == <<clock, records, file, loadErr, cookie, pc, req, setCookie, used, ended>>
storeVars == <<records, file, loadErr>>
reqVars == <<pc, req, setCookie>>
historyVars == <<used, ended>>

Time == 0 .. MaxClock
Deadline == 0 .. MaxClock + Idle
Record == [sub : User, created : Time, lastSeen : Time, expires : Deadline]
Registry == [Sid -> Record \cup {None}]
Cookie == [sid : Sid, sub : User, expires : Deadline]
Empty == [s \in Sid |-> None]

ASSUME NoRecordAssumption == None \notin Record \cup Cookie

ReqStep == {"idle", "sent", "renewing", "serving", "responding"}
Request == [kind : {"page", "revoke", "logout"}, from : Browser, cookie : Cookie, id : Sid]

TypeOK ==
    /\ clock \in Time
    /\ records \in Registry /\ file \in Registry \cup {Corrupt} /\ loadErr \in BOOLEAN
    /\ loadErr => records = Empty
    /\ cookie \in [Browser -> Cookie \cup {None}]
    /\ pc \in [Req -> ReqStep]
    /\ req \in [Req -> Request \cup {None}]
    /\ setCookie \in [Req -> Cookie \cup {None}]
    /\ used \in [Sid -> Time \cup {None}]
    /\ ended \subseteq Sid

Init ==
    /\ clock = 0
    /\ records = Empty /\ file = Empty /\ loadErr = FALSE
    /\ cookie = [b \in Browser |-> None]
    /\ pc = [r \in Req |-> "idle"] /\ req = [r \in Req |-> None]
    /\ setCookie = [r \in Req |-> None]
    /\ used = [s \in Sid |-> None] /\ ended = {}

Goto(r, step) == pc' = [pc EXCEPT ![r] = step]
Min2(m, n) == IF m < n THEN m ELSE n

Unexpired(rec) == rec # None /\ clock < rec.expires
Live(s) == ~loadErr /\ Unexpired(records[s])

-----------------------------------------------------------------------------
(* The registry's file.                                                    *)

prune(recs) == [s \in Sid |-> IF Unexpired(recs[s]) THEN recs[s] ELSE None]

\* save prunes, then replaces the file whole, or fails and leaves it.
save(recs) == records' = prune(recs) /\ file' = prune(recs)
saveFails(recs) == "disk" \in Faults /\ records' = prune(recs) /\ UNCHANGED file
bestEffort(recs) == save(recs) \/ saveFails(recs)

\* Variant of hardExpiry: no cap.
hardExpiry_None(created, want) == want
hardExpiry(created, want) == IF Cap > 0 THEN Min2(created + Cap, want) ELSE want

\* Variant of slid: from the use before this one.
slid_FromLastSeen(rec) == rec.lastSeen + Idle
\* Where the idle window slides to.
slid(rec) == clock + Idle

\* New: load, and a pruned registry is written back.
load ==
    /\ loadErr' = (file = Corrupt)
    /\ IF file = Corrupt THEN records' = Empty /\ UNCHANGED file ELSE bestEffort(file)

-----------------------------------------------------------------------------
(* Login, and a browser's requests.                                        *)

\* Variant of createRefused: the store is not asked whether it loaded.
createRefused_Never == FALSE

\* A registry that did not load mints nothing.
createRefused == loadErr

\* HandleCallback mints an id, records it, and only then sets the cookie; a
\* login whose record cannot be saved is refused, but the record stays in memory.
Login(b, s, u) ==
    /\ ~createRefused /\ used[s] = None
    /\ LET rec == [sub |-> u, created |-> clock, lastSeen |-> clock,
                   expires |-> hardExpiry(clock, clock + Idle)]
           recs == [prune(records) EXCEPT ![s] = rec]
       IN \/ /\ save(recs)
             /\ cookie' = [cookie EXCEPT ![b] =
                              [sid |-> s, sub |-> u, expires |-> rec.expires]]
          \/ saveFails(recs) /\ UNCHANGED cookie
    /\ used' = [used EXCEPT ![s] = clock]
    /\ UNCHANGED <<clock, loadErr, reqVars, ended>>

\* A browser sends its cookie with a request: for a page, to end the session of
\* an id its page listed, or to log out.
Send(r, b) ==
    /\ pc[r] = "idle" /\ cookie[b] # None
    /\ \E k \in {"page", "revoke", "logout"}, s \in Sid :
          /\ k = "revoke" => used[s] # None
          /\ k # "revoke" => s = cookie[b].sid
          /\ req' = [req EXCEPT ![r] = [kind |-> k, from |-> b, cookie |-> cookie[b], id |-> s]]
    /\ Goto(r, "sent")
    /\ UNCHANGED <<clock, storeVars, cookie, setCookie, historyVars>>

Done(r) == /\ Goto(r, "idle")
           /\ req' = [req EXCEPT ![r] = None]
           /\ setCookie' = [setCookie EXCEPT ![r] = None]

\* decodeSession checks the cookie's own deadline, sessionLive the record's.
Authenticate(r) ==
    /\ pc[r] = "sent" /\ req[r].kind # "logout"
    /\ IF clock < req[r].cookie.expires /\ Live(req[r].cookie.sid)
       THEN Goto(r, "renewing") /\ UNCHANGED <<req, setCookie>>
       ELSE Done(r)
    /\ UNCHANGED <<clock, storeVars, cookie, historyVars>>

\* Variant of Renew: the record found when the request was authenticated is put
\* back, whether or not it is still there.
Renew_PutsBack(r) ==
    /\ pc[r] = "renewing" /\ Goto(r, "serving")
    /\ LET s == req[r].cookie.sid
           rec == [sub |-> req[r].cookie.sub, created |-> used[s], lastSeen |-> clock,
                   expires |-> clock + Idle]
       IN /\ bestEffort([records EXCEPT ![s] = rec])
          /\ used' = [used EXCEPT ![s] = clock]
          /\ UNCHANGED setCookie
    /\ UNCHANGED <<clock, loadErr, cookie, req, ended>>

\* Renew: nothing for a session that is gone, nothing within Touch of the last
\* time; an expiry never shrinks.  renewSession re-issues the cookie if it moved.
Renew(r) ==
    /\ pc[r] = "renewing" /\ Goto(r, "serving")
    /\ LET s == req[r].cookie.sid
           rec == records[s]
           want == hardExpiry(rec.created, slid(rec))
           extended == want > rec.expires
           renewed == [rec EXCEPT !.lastSeen = clock,
                                  !.expires = IF extended THEN want ELSE @]
       IN IF ~Live(s) THEN UNCHANGED <<records, file, setCookie, used>>
          ELSE /\ used' = [used EXCEPT ![s] = clock]
               /\ IF clock - rec.lastSeen < Touch
                  THEN UNCHANGED <<records, file, setCookie>>
                  ELSE /\ bestEffort([records EXCEPT ![s] = renewed])
                       /\ setCookie' = [setCookie EXCEPT ![r] =
                             IF extended THEN [req[r].cookie EXCEPT !.expires = want] ELSE None]
    /\ UNCHANGED <<clock, loadErr, cookie, req, ended>>

Page(r) ==
    /\ pc[r] = "serving" /\ req[r].kind = "page" /\ Goto(r, "responding")
    /\ UNCHANGED <<clock, storeVars, cookie, req, setCookie, historyVars>>

\* handleRevokeSession: 404 for what is not a live session of the caller's, 204
\* once the registry without it is saved, else 503.
Owned(r) == Live(req[r].id) /\ records[req[r].id].sub = req[r].cookie.sub

Revoke(r) ==
    /\ pc[r] = "serving" /\ req[r].kind = "revoke" /\ Goto(r, "responding")
    /\ \/ /\ Owned(r)
          /\ LET recs == [records EXCEPT ![req[r].id] = None]
             IN \/ save(recs) /\ ended' = ended \cup {req[r].id}
                \/ saveFails(recs) /\ UNCHANGED ended
       \/ ~Owned(r) /\ UNCHANGED <<records, file, ended>>
    /\ UNCHANGED <<clock, loadErr, cookie, req, setCookie, used>>

\* HandleLogout, which the gate lets by: a valid cookie's session is ended, a
\* failure to do so only logged, and the cookie cleared in any case.
Logout(r) ==
    /\ pc[r] = "sent" /\ req[r].kind = "logout" /\ Goto(r, "responding")
    /\ LET s == req[r].cookie.sid
           recs == [records EXCEPT ![s] = None]
       IN IF clock >= req[r].cookie.expires \/ loadErr \/ records[s] = None
          THEN UNCHANGED <<records, file, ended>>
          ELSE \/ save(recs) /\ ended' = ended \cup {s}
               \/ saveFails(recs) /\ UNCHANGED ended
    /\ UNCHANGED <<clock, loadErr, cookie, req, setCookie, used>>

\* The response arrives; or it is lost.
Respond(r) ==
    /\ pc[r] = "responding" /\ Done(r)
    /\ LET b == req[r].from
       IN cookie' = IF req[r].kind = "logout" THEN [cookie EXCEPT ![b] = None]
                    ELSE IF setCookie[r] # None THEN [cookie EXCEPT ![b] = setCookie[r]]
                    ELSE cookie
    /\ UNCHANGED <<clock, storeVars, historyVars>>
Lose(r) ==
    /\ "lost" \in Faults /\ pc[r] = "responding" /\ Done(r)
    /\ UNCHANGED <<clock, storeVars, cookie, historyVars>>

-----------------------------------------------------------------------------
(* Time, restarts and the disk.                                            *)

Tick ==
    /\ clock < MaxClock /\ clock' = clock + 1
    /\ UNCHANGED <<storeVars, cookie, reqVars, historyVars>>

\* A renewal that did not reach the file is forgotten with the memory.
Unsaved(s) == file # Corrupt /\ file[s] # None /\ file[s] # records[s]

\* The hub stops and starts; the requests it was serving are over.
Restart ==
    /\ "restart" \in Faults
    /\ load
    /\ pc' = [r \in Req |-> "idle"] /\ req' = [r \in Req |-> None]
    /\ setCookie' = [r \in Req |-> None]
    /\ used' = [s \in Sid |-> IF Unsaved(s) THEN file[s].lastSeen ELSE used[s]]
    /\ UNCHANGED <<clock, cookie, ended>>

\* The file is damaged; an operator may remove what no longer loads.
Damage ==
    /\ "damage" \in Faults /\ file # Corrupt /\ file' = Corrupt
    /\ UNCHANGED <<clock, records, loadErr, cookie, reqVars, historyVars>>
Remove ==
    /\ loadErr /\ file = Corrupt /\ file' = Empty
    /\ UNCHANGED <<clock, records, loadErr, cookie, reqVars, historyVars>>

Handler(r) == \/ Authenticate(r) \/ Renew(r) \/ Page(r) \/ Revoke(r) \/ Logout(r)
              \/ Respond(r) \/ Lose(r)

Next == \/ \E b \in Browser, s \in Sid, u \in User : Login(b, s, u)
        \/ \E r \in Req, b \in Browser : Send(r, b)
        \/ \E r \in Req : Handler(r)
        \/ Tick \/ Restart \/ Damage \/ Remove

Spec == Init /\ [][Next]_vars

-----------------------------------------------------------------------------
(* Properties.                                                             *)

\* A session whose end was saved authenticates nothing, however requests that were
\* under way renew it or answer late, and whenever the hub restarts.
EndedStaysOut ==
    \A s \in ended : ~Live(s) /\ (file # Corrupt => file[s] = None)

\* A record that ends before the cap of its session.
WithinCap(rec) == rec # None => rec.expires <= rec.created + Cap

\* Neither a record, in memory or in the file, nor a cookie outlives the absolute
\* cap, so that a session in continuous use still ends there, restarts or no.
CapHolds ==
    Cap > 0 =>
       /\ \A s \in Sid : WithinCap(records[s]) /\ (file # Corrupt => WithinCap(file[s]))
       /\ \A b \in Browser : cookie[b] # None =>
             LET rec == records[cookie[b].sid]
             IN rec # None => cookie[b].expires <= rec.created + Cap

\* What the throttle leaves of "an active user is never signed out mid-use": the
\* record of a session used less than Idle - Touch ago is live, until its cap.
RecentUseKeeps ==
    \A s \in Sid :
       /\ used[s] # None /\ s \notin ended /\ records[s] # None
       /\ clock < used[s] + Idle - Touch
       /\ Cap > 0 => clock < records[s].created + Cap
       => Live(s)

-----------------------------------------------------------------------------
(* Documented promises the code does not keep: README.md tells how.        *)

\* "An active user is never signed out mid-use": a session used at this tick or the
\* one before is live, until its cap or its end.
ActiveStaysIn ==
    \A s \in Sid :
       /\ used[s] # None /\ s \notin ended /\ records[s] # None
       /\ clock <= used[s] + 1
       /\ Cap > 0 => clock < records[s].created + Cap
       => Live(s)

\* "The cookie's own signed expiry never becomes the binding constraint on a
\* session the registry considers live", once no response to its browser is due.
CookieNeverBinds ==
    \A b \in Browser :
       /\ cookie[b] # None /\ Live(cookie[b].sid)
       /\ \A r \in Req : pc[r] # "idle" => req[r].from # b
       => clock < cookie[b].expires
=============================================================================
