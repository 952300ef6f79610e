------------------------------- MODULE Login -------------------------------
(***************************************************************************)
(* Signing in and out of the hub (internal/oidc): the authorization-code   *)
(* flow between a browser with several tabs, the hub and the identity      *)
(* provider.  A login is one state, nonce and PKCE verifier; the hub keeps *)
(* it nowhere but in the browser's one flow cookie, and the session it     *)
(* makes in the session cookie and in the registry (see Sessions for what  *)
(* becomes of it).                                                         *)
(*                                                                         *)
(* A handler is a step, and so is the arrival of its response, which may   *)
(* be lost.  Cookies run out, and the keys that sign them go with a        *)
(* restart, as `void'.  The provider binds a code to its login's nonce and *)
(* verifier, redeems it once and keeps a sign-in of its own per browser.   *)
(***************************************************************************)
EXTENDS Naturals, FiniteSets

CONSTANTS
    Browser, Tab, home,    \* the browser of each tab
    Login,                 \* logins, and the sessions they make
    Faults,                \* subset of {"disk", "lost", "restart", "idp"}
    EndSessionEndpoint,    \* the provider has one
    None

ASSUME LoginAssumption ==
    /\ home \in [Tab -> Browser] /\ None \notin Login \cup Browser /\ EndSessionEndpoint \in BOOLEAN

VARIABLES
    flow, session,     \* per browser its flow and its session cookie
    signedIn,          \* browsers signed in at the provider
    started,           \* per login the browser that it was started in
    code,              \* per login its code: "none", "issued" or "spent"
    urls,              \* callbacks the provider has redirected to
    tab,               \* where each tab is
    registered, live,  \* sessions ever recorded, and those not ended
    void,              \* logins and sessions whose cookies are not valid (any more)
    excused,           \* history: logins with a reason to fail
    loggedOut          \* history: browsers whose last word was a logout

hubVars == <<registered, live>>
vars == <<flow, session, signedIn, started, code, urls, tab, hubVars, void, excused, loggedOut>>

\* A callback carries a login's state, and its code or an error.
Url == [state : Login, ok : BOOLEAN]
Place == [at : {"home"}] \cup [at : {"login", "idp", "in", "failed"}, n : Login]
         \cup [at : {"callback"}, url : Url] \cup [at : {"logout"}, idp : BOOLEAN, valid : BOOLEAN]

TypeOK ==
    /\ flow \in [Browser -> Login \cup {None}] /\ session \in [Browser -> Login \cup {None}]
    /\ signedIn \subseteq Browser /\ started \in [Login -> Browser \cup {None}]
    /\ code \in [Login -> {"none", "issued", "spent"}] /\ urls \subseteq Url
    /\ tab \in [Tab -> Place]
    /\ registered \subseteq Login /\ live \subseteq registered
    /\ void \subseteq Login /\ excused \subseteq Login /\ loggedOut \subseteq Browser
    /\ \A n \in registered : code[n] = "spent"

Home == [at |-> "home"]

Init ==
    /\ flow = [b \in Browser |-> None] /\ session = [b \in Browser |-> None]
    /\ signedIn \in {{}, Browser} /\ started = [n \in Login |-> None]
    /\ code = [n \in Login |-> "none"] /\ urls = {} /\ tab = [t \in Tab |-> Home]
    /\ registered = {} /\ live = {} /\ void = {} /\ excused = {} /\ loggedOut = {}

Move(t, place) == tab' = [tab EXCEPT ![t] = place]
Others(n) == {m \in Login : started[m] # None} \ {n}

-----------------------------------------------------------------------------
(* Logging in. *)

\* State, nonce and verifier are drawn at random.
Fresh(n) == started[n] = None

HandleLogin(t) ==
    /\ tab[t] = Home
    /\ \E n \in Login :
          /\ Fresh(n)
          /\ started' = [started EXCEPT ![n] = home[t]]
          /\ Move(t, [at |-> "login", n |-> n])
    /\ UNCHANGED <<flow, session, signedIn, code, urls, hubVars, void, excused, loggedOut>>

\* Variant of setCookie: a flow cookie that is there is left alone.
setCookie_Keeps(b, n) == flow' = [flow EXCEPT ![b] = IF @ = None THEN n ELSE @]

setCookie(b, n) == flow' = [flow EXCEPT ![b] = n]

\* The redirect to the provider.  It takes the cookie of any login before it.
LoginResponse(t) ==
    /\ tab[t].at = "login"
    /\ LET n == tab[t].n
       IN  /\ setCookie(home[t], n) /\ Move(t, [at |-> "idp", n |-> n])
           /\ excused' = excused \cup {m \in Others(n) : started[m] = home[t]}
    /\ UNCHANGED <<session, signedIn, started, code, urls, hubVars, void, loggedOut>>

\* The user signs in, unless the browser is signed in there already, and is
\* redirected back.
Authorize(t) ==
    /\ tab[t].at = "idp"
    /\ LET url == [state |-> tab[t].n, ok |-> TRUE]
       IN  /\ code' = [code EXCEPT ![url.state] = "issued"]
           /\ urls' = urls \cup {url} /\ Move(t, [at |-> "callback", url |-> url])
    /\ signedIn' = signedIn \cup {home[t]} /\ loggedOut' = loggedOut \ {home[t]}
    /\ UNCHANGED <<flow, session, started, hubVars, void, excused>>

Decline(t) ==
    /\ tab[t].at = "idp"
    /\ LET url == [state |-> tab[t].n, ok |-> FALSE]
       IN  /\ urls' = urls \cup {url} /\ Move(t, [at |-> "callback", url |-> url])
           /\ excused' = excused \cup {url.state}
    /\ UNCHANGED <<flow, session, signedIn, started, code, hubVars, void, loggedOut>>

\* A callback is opened again, in the same browser or another.
Open(t) ==
    /\ tab[t] = Home
    /\ \E url \in urls :
          /\ Move(t, [at |-> "callback", url |-> url])
          /\ excused' = excused \cup {url.state}
    /\ UNCHANGED <<flow, session, signedIn, started, code, urls, hubVars, void, loggedOut>>

\* Variant of decodeFlow: the callback's own state says which login it is.
decodeFlow_ByState(b, url) == url.state

\* The browser's flow cookie says which login it is.
decodeFlow(b, url) == IF flow[b] \in void THEN None ELSE flow[b]

Respond(t, place) ==
    /\ Move(t, place)
    /\ UNCHANGED <<flow, session, signedIn, started, urls, void, loggedOut>>

\* There is a cookie, no error, the cookie's state, and a code that can be redeemed.
Accepted(n, url) == n # None /\ url = [state |-> n, ok |-> TRUE] /\ code[n] = "issued"

\* The session is recorded before its cookie goes out.
mint(t, n, recorded) ==
    IF recorded
    THEN /\ registered' = registered \cup {n} /\ live' = live \cup {n}
         /\ UNCHANGED excused
         /\ Respond(t, [at |-> "in", n |-> n])
    ELSE /\ excused' = excused \cup {n} /\ UNCHANGED hubVars
         /\ Respond(t, [at |-> "failed", n |-> n])

\* The code is redeemed with the cookie's verifier, and the ID token has the
\* cookie's nonce: the provider and the nonce both hold it to the same login.
HandleCallback(t) ==
    /\ tab[t].at = "callback"
    /\ LET url == tab[t].url
           n == decodeFlow(home[t], url)
       IN  \/ /\ ~Accepted(n, url)
              /\ Respond(t, [at |-> "failed", n |-> url.state])
              /\ UNCHANGED <<code, hubVars, excused>>
           \/ /\ Accepted(n, url) /\ code' = [code EXCEPT ![n] = "spent"]
              /\ \E recorded \in BOOLEAN : (recorded \/ "disk" \in Faults) /\ mint(t, n, recorded)
           \/ /\ Accepted(n, url) /\ "idp" \in Faults       \* the exchange fails
              /\ code' = [code EXCEPT ![n] = "spent"] /\ excused' = excused \cup {n}
              /\ Respond(t, [at |-> "failed", n |-> n]) /\ UNCHANGED hubVars

\* The response of a callback clears the flow cookie, whatever it says, and so
\* takes it from any other login of the browser.
CallbackResponse(t) ==
    /\ tab[t].at \in {"in", "failed"}
    /\ flow' = [flow EXCEPT ![home[t]] = None]
    /\ session' = IF tab[t].at = "in" THEN [session EXCEPT ![home[t]] = tab[t].n] ELSE session
    /\ excused' = excused \cup {m \in Others(tab[t].n) : started[m] = home[t]}
    /\ Move(t, Home)
    /\ UNCHANGED <<signedIn, started, code, urls, hubVars, void, loggedOut>>

-----------------------------------------------------------------------------
(* Logging out. *)

\* Variant of hadSession: a session that was ended elsewhere does not count.
hadSession_Live(b) == session[b] \notin void \cup {None} /\ session[b] \in live

\* The cookie alone says whether there is a session to end at the provider.
hadSession(b) == session[b] \notin void \cup {None}

HandleLogout(t) ==
    /\ tab[t] = Home /\ session[home[t]] # None
    /\ LET b == home[t]
       IN  /\ live' = IF hadSession(b) THEN live \ {session[b]} ELSE live
           /\ Move(t, [at |-> "logout", idp |-> hadSession(b) /\ EndSessionEndpoint,
                       valid |-> session[b] \notin void])
    /\ UNCHANGED <<flow, session, signedIn, started, code, urls, registered, void, excused,
                   loggedOut>>

\* The cookies are cleared, and the provider's own sign-in is ended if the hub
\* redirects there.
LogoutResponse(t) ==
    /\ tab[t].at = "logout"
    /\ LET b == home[t]
       IN  /\ session' = [session EXCEPT ![b] = None]
           /\ signedIn' = IF tab[t].idp THEN signedIn \ {b} ELSE signedIn
           /\ loggedOut' = IF tab[t].valid THEN loggedOut \cup {b} ELSE loggedOut
    /\ Move(t, Home)
    /\ UNCHANGED <<flow, started, code, urls, hubVars, void, excused>>

-----------------------------------------------------------------------------
(* The environment. *)

\* A session is ended from another device.
EndElsewhere(n) ==
    /\ n \in live /\ live' = live \ {n}
    /\ UNCHANGED <<flow, session, signedIn, started, code, urls, tab, registered, void, excused,
                   loggedOut>>

\* A response is lost, or a tab closed.
Lose(t) ==
    /\ "lost" \in Faults /\ tab[t] # Home /\ Move(t, Home)
    /\ excused' = IF tab[t].at = "login" THEN excused \cup {tab[t].n} ELSE excused
    /\ UNCHANGED <<flow, session, signedIn, started, code, urls, hubVars, void, loggedOut>>

\* flowTTL, or a session's time, runs out.
Expire(n) ==
    /\ started[n] # None /\ n \notin void
    /\ void' = void \cup {n} /\ excused' = excused \cup {n}
    /\ UNCHANGED <<flow, session, signedIn, started, code, urls, tab, hubVars, loggedOut>>

\* A hub whose session secret is generated restarts with another one.
Restart ==
    /\ "restart" \in Faults
    /\ LET old == {n \in Login : started[n] # None}
       IN  /\ ~(old \subseteq void)
           /\ void' = void \cup old /\ excused' = excused \cup old
    /\ UNCHANGED <<flow, session, signedIn, started, code, urls, tab, hubVars, loggedOut>>

Next ==
    \/ \E t \in Tab :
          \/ HandleLogin(t) \/ LoginResponse(t) \/ Authorize(t) \/ Decline(t) \/ Open(t)
          \/ HandleCallback(t) \/ CallbackResponse(t) \/ HandleLogout(t) \/ LogoutResponse(t)
          \/ Lose(t)
    \/ \E n \in Login : EndElsewhere(n) \/ Expire(n)
    \/ Restart

Spec == Init /\ [][Next]_vars

-----------------------------------------------------------------------------
(* Properties. *)

\* A browser is signed in only by a login that it started itself, whoever opens
\* whose callback, and that was recorded before the browser had its cookie
\* (HandleCallback: state, nonce and verifier from the flow cookie, "Record the
\* sign-in BEFORE handing out the cookie").
SignInIsOwn ==
    \A b \in Browser :
        session[b] # None => started[session[b]] = b /\ session[b] \in registered

\* A login that its tab follows through fails only for a reason: it was declined,
\* ran out, its callback was opened twice, another login of the same browser came
\* between, or the hub, the provider or the network failed.
FailureHasCause == \A t \in Tab : tab[t].at = "failed" => tab[t].n \in excused

\* Who logged out with a valid cookie, even of a session that had been ended from
\* another device, is not signed in again without signing in at the provider.
LogoutReachesProvider == EndSessionEndpoint => loggedOut \cap signedIn = {}
=============================================================================
