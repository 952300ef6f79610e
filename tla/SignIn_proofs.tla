---------------------------- MODULE SignIn_proofs ----------------------------
(***************************************************************************)
(* A browser is signed in by its own login, a login fails for a reason,    *)
(* and a logout reaches the provider; an agent whose revocation was        *)
(* acknowledged is refused until its principal authorizes it again: for    *)
(* any browsers, tabs, logins, clients, tokens and requests.               *)
(***************************************************************************)
EXTENDS SignIn, Sequences, TLAPS

-----------------------------------------------------------------------------
(* Login: the browser's way.                                               *)

\* A tab is busy with a login when it carries its number, or has its callback.
About(t, n) ==
    \/ tab[t].at \in {"login", "idp", "in", "failed"} /\ tab[t].n = n
    \/ tab[t].at = "callback" /\ tab[t].url.state = n

\* Every login that is anywhere was started, and by the browser that has it.
Started ==
    /\ \A b \in Browser : flow[b] # None => started[flow[b]] = b
    /\ \A t \in Tab : tab[t].at \in {"login", "idp", "in"} => started[tab[t].n] = home[t]
    /\ \A t \in Tab, n \in Login : About(t, n) => started[n] # None
    /\ \A url \in urls : started[url.state] # None
    /\ \A n \in Login : code[n] # "none" => started[n] # None

\* Until it has been to the provider a login is in one tab, and has no code.
BeforeCode ==
    /\ \A t \in Tab : tab[t].at \in {"login", "idp"} => code[tab[t].n] = "none"
    /\ \A t, u \in Tab : tab[t].at \in {"login", "idp"} /\ About(u, tab[t].n) => t = u
    /\ \A url \in urls : \A t \in Tab : tab[t].at \in {"login", "idp"} => tab[t].n # url.state

Recorded == \A t \in Tab : tab[t].at = "in" => tab[t].n \in registered

\* A login without an excuse is in one tab, whose browser has its cookie from the
\* redirect on, and its code waits for the callback.
OnCourse ==
    /\ void \subseteq excused
    /\ \A t, u \in Tab, n \in Login : About(t, n) /\ About(u, n) => t = u \/ n \in excused
    /\ \A t \in Tab : tab[t].at = "idp" => tab[t].n \in excused \/ flow[home[t]] = tab[t].n
    /\ \A t \in Tab : tab[t].at = "callback" =>
          LET url == tab[t].url
          IN  \/ url.state \in excused
              \/ url.ok /\ flow[home[t]] = url.state /\ code[url.state] = "issued"

\* A logout with a valid cookie goes by the provider.
GoesByProvider ==
    EndSessionEndpoint => \A t \in Tab : tab[t].at = "logout" /\ tab[t].valid => tab[t].idp

IInv ==
    /\ TypeOK /\ Started /\ BeforeCode /\ Recorded /\ OnCourse /\ GoesByProvider
    /\ SignInIsOwn /\ FailureHasCause /\ LogoutReachesProvider

-----------------------------------------------------------------------------

\* What a tab holds, by where it is.
LEMMA PlaceType ==
    ASSUME NEW p \in Place
    PROVE  /\ p.at \in {"home", "login", "idp", "in", "failed", "callback", "logout"}
           /\ p.at \in {"login", "idp", "in", "failed"} => p.n \in Login
           /\ p.at = "callback" => p.url \in Url
           /\ p.at = "logout" => p.idp \in BOOLEAN /\ p.valid \in BOOLEAN
           /\ p.at = "home" <=> p = Home
  BY DEF Place, Home

LEMMA MakePlace ==
    /\ Home \in Place
    /\ \A n \in Login : \A at \in {"login", "idp", "in", "failed"} : [at |-> at, n |-> n] \in Place
    /\ \A url \in Url : [at |-> "callback", url |-> url] \in Place
    /\ \A idp, valid \in BOOLEAN : [at |-> "logout", idp |-> idp, valid |-> valid] \in Place
  BY DEF Place, Home

LEMMA InitInv == Init => IInv
  BY LoginAssumption, MakePlace DEF LoginAssumption, Init, IInv, TypeOK, Started, BeforeCode, Recorded, OnCourse,
     GoesByProvider, SignInIsOwn, FailureHasCause, LogoutReachesProvider, About, Home

\* What is left of a step once the tab that moves is known: the others stay.
LEMMA Moved ==
    ASSUME TypeOK, NEW t \in Tab, NEW p \in Place, Move(t, p)
    PROVE  /\ tab' \in [Tab -> Place] /\ tab'[t] = p
           /\ \A u \in Tab : u # t => tab'[u] = tab[u]
           /\ \A u \in Tab, n \in Login : u # t => (About(u, n)' <=> About(u, n))
  BY DEF TypeOK, Move, About

\* A login that is fresh is in no other tab.
LEMMA HandleLoginInv ==
    ASSUME IInv, NEW t \in Tab, HandleLogin(t) PROVE IInv'
<1>1. PICK n \in Login : /\ Fresh(n) /\ started' = [started EXCEPT ![n] = home[t]]
                        /\ Move(t, [at |-> "login", n |-> n])
  BY DEF HandleLogin
<1> DEFINE p == [at |-> "login", n |-> n]
<1>2. p \in Place /\ home[t] \in Browser /\ None \notin Browser
  BY LoginAssumption, MakePlace DEF LoginAssumption
<1>3. /\ tab' \in [Tab -> Place] /\ tab'[t] = p
      /\ \A u \in Tab : u # t => tab'[u] = tab[u]
      /\ \A u \in Tab, m \in Login : u # t => (About(u, m)' <=> About(u, m))
      /\ \A m \in Login : About(t, m)' <=> m = n
  <2>1. \A m \in Login : About(t, m)' <=> m = n
    BY <1>1, <1>2, Moved DEF About, IInv
  <2> QED
    BY <1>1, <1>2, <2>1, Moved DEF IInv
<1>4. started' \in [Login -> Browser \cup {None}] /\ started[n] = None /\ started'[n] = home[t]
      /\ \A m \in Login : m # n => started'[m] = started[m]
  BY <1>1, <1>2 DEF IInv, TypeOK, Fresh
<1>5. /\ UNCHANGED <<flow, session, signedIn, code, urls, registered, live, void, excused, loggedOut>>
  BY DEF HandleLogin, hubVars
<1>6. TypeOK'
  BY <1>3, <1>4, <1>5 DEF IInv, TypeOK
<1>7. \A u \in Tab : ~About(u, n)
  BY <1>4 DEF IInv, Started
<1>8. Started'
  <2>1. \A b \in Browser : flow'[b] # None => started'[flow'[b]] = b
    BY <1>2, <1>4, <1>5 DEF IInv, TypeOK, Started
  <2>2. \A u \in Tab : tab'[u].at \in {"login", "idp", "in"} => started'[tab'[u].n] = home[u]
    BY <1>3, <1>4, <1>5, PlaceType DEF IInv, TypeOK, Started, About
  <2>3. \A u \in Tab, m \in Login : About(u, m)' => started'[m] # None
    BY <1>2, <1>3, <1>4, <1>5 DEF IInv, Started
  <2>4. \A url \in urls' : started'[url.state] # None
    BY <1>2, <1>4, <1>5 DEF IInv, TypeOK, Started, Url
  <2>5. \A m \in Login : code'[m] # "none" => started'[m] # None
    BY <1>2, <1>4, <1>5 DEF IInv, TypeOK, Started
  <2> QED
    BY <2>1, <2>2, <2>3, <2>4, <2>5 DEF Started
<1>9. BeforeCode'
  BY <1>3, <1>4, <1>5, <1>7, PlaceType DEF IInv, TypeOK, BeforeCode, Started, About
<1>10. OnCourse'
  BY <1>3, <1>4, <1>5, <1>7 DEF IInv, TypeOK, OnCourse
<1>11. Recorded' /\ GoesByProvider' /\ SignInIsOwn' /\ FailureHasCause' /\ LogoutReachesProvider'
  BY <1>3, <1>4, <1>5, <1>2 DEF IInv, TypeOK, Recorded, GoesByProvider, SignInIsOwn,
     FailureHasCause, LogoutReachesProvider
<1> QED
  BY <1>6, <1>8, <1>9, <1>10, <1>11 DEF IInv

\* The redirect's cookie takes the place of another login's, which is excused.
LEMMA LoginResponseInv ==
    ASSUME IInv, NEW t \in Tab, LoginResponse(t) PROVE IInv'
<1> DEFINE n == tab[t].n
           p == [at |-> "idp", n |-> n]
<1>1. /\ tab[t].at = "login" /\ n \in Login /\ started[n] = home[t] /\ home[t] \in Browser
      /\ p \in Place /\ Move(t, p)
      /\ flow' = [flow EXCEPT ![home[t]] = n]
      /\ excused' = excused \cup {m \in Others(n) : started[m] = home[t]}
      /\ UNCHANGED <<session, signedIn, started, code, urls, registered, live, void, loggedOut>>
  BY LoginAssumption, MakePlace, PlaceType DEF LoginAssumption, LoginResponse, setCookie, hubVars, IInv, TypeOK, Started
<1>2. /\ tab' \in [Tab -> Place] /\ tab'[t] = p
      /\ \A u \in Tab : u # t => tab'[u] = tab[u]
      /\ \A u \in Tab, m \in Login : About(u, m)' <=> About(u, m)
  <2>1. \A m \in Login : About(t, m)' <=> About(t, m)
    BY <1>1, Moved DEF About, IInv
  <2> QED
    BY <1>1, <2>1, Moved DEF IInv
<1>3. \A u \in Tab : tab'[u].at \in {"login", "idp"} =>
         tab[u].at \in {"login", "idp"} /\ tab'[u].n = tab[u].n
  BY <1>1, <1>2
<1>4. TypeOK'
  BY <1>1, <1>2 DEF IInv, TypeOK, Others
<1>5. Started'
  BY <1>1, <1>2 DEF IInv, TypeOK, Started
<1>6. BeforeCode'
  <2>1. \A u, v \in Tab : tab'[u].at \in {"login", "idp"} /\ About(v, tab[u].n)' => u = v
    BY <1>1, <1>2, <1>3, PlaceType DEF IInv, TypeOK, BeforeCode
  <2> QED
    BY <1>1, <1>3, <2>1 DEF IInv, BeforeCode
<1>7. OnCourse'
  <2>1. \A u \in Tab : tab'[u].at = "idp" => tab'[u].n \in excused' \/ flow'[home[u]] = tab'[u].n
    <3> SUFFICES ASSUME NEW u \in Tab, u # t, tab[u].at = "idp", tab[u].n \notin excused',
                        home[u] = home[t]
                 PROVE  FALSE
      BY LoginAssumption, <1>1, <1>2 DEF LoginAssumption, IInv, TypeOK, OnCourse
    <3>1. tab[u].n \in Login /\ started[tab[u].n] = home[t] /\ tab[u].n # n
      BY <1>1, PlaceType DEF IInv, TypeOK, Started, BeforeCode, About
    <3> QED
      BY LoginAssumption, <1>1, <3>1 DEF Others, LoginAssumption
  <2>2. \A u \in Tab : tab'[u].at = "callback" =>
          LET url == tab'[u].url
          IN  \/ url.state \in excused'
              \/ url.ok /\ flow'[home[u]] = url.state /\ code'[url.state] = "issued"
    <3> SUFFICES ASSUME NEW u \in Tab, u # t, tab[u].at = "callback", tab[u].url.state \notin excused',
                        home[u] = home[t]
                 PROVE  FALSE
      BY LoginAssumption, <1>1, <1>2 DEF LoginAssumption, IInv, TypeOK, OnCourse
    <3>1. tab[u].url.state \in Login /\ flow[home[u]] = tab[u].url.state
      BY <1>1, PlaceType DEF IInv, TypeOK, OnCourse, Url
    <3>2. tab[u].url.state # n
      BY <1>1, <3>1 DEF IInv, BeforeCode, About
    <3>3. started[tab[u].url.state] = home[t]
      BY LoginAssumption, <1>1, <3>1 DEF IInv, Started, LoginAssumption
    <3> QED
      BY LoginAssumption, <1>1, <3>1, <3>2, <3>3 DEF Others, LoginAssumption
  <2> QED
    BY <1>1, <1>2, <2>1, <2>2 DEF IInv, OnCourse
<1>8. Recorded' /\ GoesByProvider' /\ SignInIsOwn' /\ FailureHasCause' /\ LogoutReachesProvider'
  BY <1>1, <1>2 DEF IInv, TypeOK, Recorded, GoesByProvider, SignInIsOwn,
     FailureHasCause, LogoutReachesProvider
<1> QED
  BY <1>4, <1>5, <1>6, <1>7, <1>8 DEF IInv

\* The provider's redirect: the code is issued, or the login has an excuse.
LEMMA RedirectInv ==
    ASSUME IInv, NEW t \in Tab, Authorize(t) \/ Decline(t) PROVE IInv'
<1> DEFINE n == tab[t].n
<1>1. tab[t].at = "idp" /\ n \in Login /\ home[t] \in Browser /\ started[n] # None /\ code[n] = "none"
  BY LoginAssumption, PlaceType DEF LoginAssumption, IInv, TypeOK, Authorize, Decline, Started, BeforeCode, About
<1>2. PICK ok \in BOOLEAN :
         LET url == [state |-> n, ok |-> ok]
         IN  /\ Move(t, [at |-> "callback", url |-> url])
             /\ urls' = urls \cup {url}
             /\ IF ok THEN /\ code' = [code EXCEPT ![n] = "issued"] /\ UNCHANGED excused
                           /\ signedIn' = signedIn \cup {home[t]} /\ loggedOut' = loggedOut \ {home[t]}
                      ELSE excused' = excused \cup {n} /\ UNCHANGED <<code, signedIn, loggedOut>>
  BY DEF Authorize, Decline
<1> DEFINE url == [state |-> n, ok |-> ok]
           p == [at |-> "callback", url |-> url]
<1>3. url \in Url /\ p \in Place /\ UNCHANGED <<flow, session, started, registered, live, void>>
  BY <1>1, MakePlace DEF Authorize, Decline, hubVars, Url
<1>4. /\ tab' \in [Tab -> Place] /\ tab'[t] = p
      /\ \A u \in Tab : u # t => tab'[u] = tab[u]
      /\ \A u \in Tab, m \in Login : About(u, m)' <=> About(u, m)
  <2>1. \A m \in Login : About(t, m)' <=> About(t, m)
    BY <1>1, <1>2, <1>3, Moved DEF About, IInv
  <2> QED
    BY <1>2, <1>3, <2>1, Moved DEF IInv
<1>5. /\ code' \in [Login -> {"none", "issued", "spent"}] /\ excused \subseteq excused'
      /\ \A m \in Login : m # n => code'[m] = code[m]
      /\ code'[n] \in {"none", "issued"} /\ (ok => code'[n] = "issued")
  BY <1>1, <1>2 DEF IInv, TypeOK
<1>6. TypeOK'
  <2>1. n \notin registered
    BY <1>1 DEF IInv, TypeOK
  <2> QED
    BY <1>1, <1>2, <1>3, <1>4, <1>5, <2>1 DEF IInv, TypeOK
<1>7. Started'
  BY <1>1, <1>2, <1>3, <1>4, <1>5 DEF IInv, TypeOK, Started
<1>8. BeforeCode'
  <2>1. \A u \in Tab : tab'[u].at \in {"login", "idp"} =>
          u # t /\ tab'[u] = tab[u] /\ tab[u].n \in Login /\ tab[u].n # n
    <3>1. About(t, n)
      BY <1>1 DEF About
    <3> QED
      BY <1>4, <3>1, PlaceType DEF IInv, TypeOK, BeforeCode
  <2> QED
    BY <1>2, <1>3, <1>4, <1>5, <2>1 DEF IInv, BeforeCode
<1>9. OnCourse'
  <2>1. \A u \in Tab : u # t /\ tab[u].at = "callback" => tab[u].url.state # n
    BY <1>1, PlaceType DEF IInv, TypeOK, BeforeCode, About
  <2>2. \A u \in Tab : u # t /\ tab[u].at = "callback" => tab[u].url.state \in Login
    BY PlaceType DEF IInv, TypeOK, Url
  <2>3. \A u \in Tab : tab'[u].at = "callback" =>
          LET link == tab'[u].url
          IN  \/ link.state \in excused'
              \/ link.ok /\ flow'[home[u]] = link.state /\ code'[link.state] = "issued"
    <3>1. ASSUME NEW u \in Tab, u # t, tab[u].at = "callback"
          PROVE  \/ tab[u].url.state \in excused'
                 \/ tab[u].url.ok /\ flow'[home[u]] = tab[u].url.state /\ code'[tab[u].url.state] = "issued"
      BY <1>3, <1>5, <2>1, <2>2, <3>1 DEF IInv, OnCourse
    <3>2. \/ url.state \in excused'
          \/ url.ok /\ flow'[home[t]] = url.state /\ code'[url.state] = "issued"
      BY <1>1, <1>2, <1>3, <1>5 DEF IInv, OnCourse
    <3> QED
      BY <1>4, <3>1, <3>2
  <2> QED
    BY <1>1, <1>2, <1>3, <1>4, <1>5, <2>3 DEF IInv, OnCourse
<1>10. Recorded' /\ GoesByProvider' /\ SignInIsOwn' /\ FailureHasCause' /\ LogoutReachesProvider'
  BY <1>2, <1>3, <1>4, <1>5 DEF IInv, TypeOK, Recorded, GoesByProvider, SignInIsOwn,
     FailureHasCause, LogoutReachesProvider
<1> QED
  BY <1>6, <1>7, <1>8, <1>9, <1>10 DEF IInv

\* A callback that is opened again is an excuse for its login.
LEMMA OpenInv ==
    ASSUME IInv, NEW t \in Tab, Open(t) PROVE IInv'
<1>1. PICK url \in urls : /\ Move(t, [at |-> "callback", url |-> url])
                          /\ excused' = excused \cup {url.state}
  BY DEF Open
<1> DEFINE p == [at |-> "callback", url |-> url]
<1>2. /\ url \in Url /\ url.state \in Login /\ p \in Place /\ tab[t] = Home
      /\ UNCHANGED <<flow, session, signedIn, started, code, urls, registered, live, void, loggedOut>>
  BY MakePlace DEF Open, hubVars, IInv, TypeOK, Url
<1>3. /\ tab' \in [Tab -> Place] /\ tab'[t] = p
      /\ \A u \in Tab : u # t => tab'[u] = tab[u]
      /\ \A u \in Tab, m \in Login : u # t => (About(u, m)' <=> About(u, m))
      /\ \A m \in Login : About(t, m)' <=> m = url.state
  <2>1. \A m \in Login : About(t, m)' <=> m = url.state
    BY <1>1, <1>2, Moved DEF About, IInv
  <2> QED
    BY <1>1, <1>2, <2>1, Moved DEF IInv
<1>4. TypeOK'
  BY <1>1, <1>2, <1>3 DEF IInv, TypeOK
<1>5. Started'
  BY <1>2, <1>3 DEF IInv, TypeOK, Started
<1>6. BeforeCode'
  BY <1>2, <1>3, PlaceType DEF IInv, TypeOK, BeforeCode
<1>7. OnCourse'
  BY <1>1, <1>2, <1>3 DEF IInv, TypeOK, OnCourse
<1>8. Recorded' /\ GoesByProvider' /\ SignInIsOwn' /\ FailureHasCause' /\ LogoutReachesProvider'
  BY <1>1, <1>2, <1>3 DEF IInv, TypeOK, Recorded, GoesByProvider, SignInIsOwn,
     FailureHasCause, LogoutReachesProvider
<1> QED
  BY <1>4, <1>5, <1>6, <1>7, <1>8 DEF IInv

\* Only the login of the browser's own cookie is accepted, and only once; one that
\* is turned down has an excuse.
LEMMA HandleCallbackInv ==
    ASSUME IInv, NEW t \in Tab, HandleCallback(t) PROVE IInv'
<1> DEFINE url == tab[t].url
           s == url.state
           n == decodeFlow(home[t], url)
<1>1. /\ tab[t].at = "callback" /\ url \in Url /\ s \in Login /\ home[t] \in Browser
      /\ n \in Login \cup {None} /\ About(t, s) /\ None \notin Login
      /\ UNCHANGED <<flow, session, signedIn, started, urls, void, loggedOut>>
  BY LoginAssumption, PlaceType DEF LoginAssumption, HandleCallback, Respond, mint, IInv, TypeOK, Url, decodeFlow, About
<1>2. Accepted(n, url) => n = s /\ code[s] = "issued" /\ flow[home[t]] = s /\ started[s] = home[t]
  BY <1>1 DEF Accepted, decodeFlow, IInv, Started
<1>3. s \notin excused => Accepted(n, url)
  <2> SUFFICES ASSUME s \notin excused PROVE Accepted(n, url)
    OBVIOUS
  <2>1. url.ok /\ flow[home[t]] = s /\ code[s] = "issued" /\ s \notin void
    BY <1>1 DEF IInv, OnCourse
  <2>2. n = s
    BY <2>1 DEF decodeFlow
  <2>3. url = [state |-> s, ok |-> TRUE]
    BY <1>1, <2>1 DEF Url
  <2> QED
    BY <1>1, <2>1, <2>2, <2>3 DEF Accepted
<1>4. \E at \in {"in", "failed"} :
        /\ Move(t, [at |-> at, n |-> s])
        /\ excused \subseteq excused' /\ excused' \subseteq Login
        /\ at = "failed" => s \in excused'
        /\ at = "in" => started[s] = home[t]
        /\ \/ at = "failed" /\ UNCHANGED <<code, registered, live>>
           \/ /\ code[s] = "issued" /\ code' = [code EXCEPT ![s] = "spent"]
              /\ \/ at = "failed" /\ UNCHANGED <<registered, live>>
                 \/ at = "in" /\ registered' = registered \cup {s} /\ live' = live \cup {s}
  <2>1. CASE ~Accepted(n, url)
    BY <1>1, <1>3, <2>1 DEF HandleCallback, Respond, hubVars, IInv, TypeOK
  <2>2. CASE Accepted(n, url)
    BY <1>1, <1>2, <2>2 DEF HandleCallback, mint, Respond, hubVars, IInv, TypeOK
  <2> QED
    BY <2>1, <2>2
<1>5. PICK at \in {"in", "failed"} :
        /\ Move(t, [at |-> at, n |-> s])
        /\ excused \subseteq excused' /\ excused' \subseteq Login
        /\ at = "failed" => s \in excused'
        /\ at = "in" => started[s] = home[t]
        /\ \/ at = "failed" /\ UNCHANGED <<code, registered, live>>
           \/ /\ code[s] = "issued" /\ code' = [code EXCEPT ![s] = "spent"]
              /\ \/ at = "failed" /\ UNCHANGED <<registered, live>>
                 \/ at = "in" /\ registered' = registered \cup {s} /\ live' = live \cup {s}
  BY <1>4
<1> DEFINE p == [at |-> at, n |-> s]
<1>6. /\ tab' \in [Tab -> Place] /\ tab'[t] = p
      /\ \A u \in Tab : u # t => tab'[u] = tab[u]
      /\ \A u \in Tab, m \in Login : About(u, m)' <=> About(u, m)
  <2>1. p \in Place
    BY <1>1, MakePlace
  <2>2. \A m \in Login : About(t, m)' <=> About(t, m)
    BY <1>1, <1>5, <2>1, Moved DEF About, IInv
  <2> QED
    BY <1>5, <2>1, <2>2, Moved DEF IInv
<1>7. /\ code' \in [Login -> {"none", "issued", "spent"}]
      /\ \A m \in Login : m # s => code'[m] = code[m]
      /\ code'[s] = code[s] \/ (code[s] = "issued" /\ code'[s] = "spent")
  BY <1>1, <1>5 DEF IInv, TypeOK
<1>8. TypeOK'
  BY <1>1, <1>5, <1>6, <1>7 DEF IInv, TypeOK
<1>9. Started'
  BY <1>1, <1>5, <1>6, <1>7 DEF IInv, TypeOK, Started
<1>10. BeforeCode'
  <2>1. \A u \in Tab : tab'[u].at \in {"login", "idp"} =>
          /\ tab[u].at \in {"login", "idp"} /\ tab'[u].n = tab[u].n /\ tab[u].n \in Login
          /\ code'[tab[u].n] = "none"
    BY <1>6, <1>7, PlaceType DEF IInv, TypeOK, BeforeCode
  <2> QED
    BY <1>1, <1>6, <2>1 DEF IInv, BeforeCode
<1>11. OnCourse'
  <2>1. \A u \in Tab : tab'[u].at = "callback" =>
          LET link == tab'[u].url
          IN  \/ link.state \in excused'
              \/ link.ok /\ flow'[home[u]] = link.state /\ code'[link.state] = "issued"
    <3> SUFFICES ASSUME NEW u \in Tab, u # t, tab[u].at = "callback"
                 PROVE  \/ tab[u].url.state \in excused'
                        \/ /\ tab[u].url.ok /\ flow'[home[u]] = tab[u].url.state
                           /\ code'[tab[u].url.state] = "issued"
      BY <1>6
    <3>1. tab[u].url.state \in Login /\ About(u, tab[u].url.state)
      BY PlaceType DEF IInv, TypeOK, Url, About
    <3>2. tab[u].url.state = s => s \in excused
      BY <1>1, <3>1 DEF IInv, OnCourse
    <3> QED
      BY <1>1, <1>5, <1>7, <3>1, <3>2 DEF IInv, OnCourse
  <2> QED
    BY <1>1, <1>5, <1>6, <2>1 DEF IInv, OnCourse
<1>12. Recorded' /\ GoesByProvider' /\ SignInIsOwn' /\ FailureHasCause' /\ LogoutReachesProvider'
  BY <1>1, <1>5, <1>6 DEF IInv, TypeOK, Recorded, GoesByProvider, SignInIsOwn,
     FailureHasCause, LogoutReachesProvider
<1> QED
  BY <1>8, <1>9, <1>10, <1>11, <1>12 DEF IInv

\* The cookie that a callback's response clears was its own login's, or an excused one.
LEMMA CallbackResponseInv ==
    ASSUME IInv, NEW t \in Tab, CallbackResponse(t) PROVE IInv'
<1> DEFINE n == tab[t].n
<1>1. /\ tab[t].at \in {"in", "failed"} /\ n \in Login /\ About(t, n) /\ home[t] \in Browser
      /\ None \notin Login \cup Browser
      /\ flow' = [flow EXCEPT ![home[t]] = None]
      /\ session' = IF tab[t].at = "in" THEN [session EXCEPT ![home[t]] = n] ELSE session
      /\ excused' = excused \cup {m \in Others(n) : started[m] = home[t]}
      /\ Move(t, Home) /\ Home \in Place
      /\ UNCHANGED <<signedIn, started, code, urls, registered, live, void, loggedOut>>
  BY LoginAssumption, MakePlace, PlaceType DEF LoginAssumption, CallbackResponse, hubVars, IInv, TypeOK, About
<1>2. /\ tab' \in [Tab -> Place] /\ tab'[t] = Home
      /\ \A u \in Tab : u # t => tab'[u] = tab[u]
      /\ \A u \in Tab, m \in Login : About(u, m)' => About(u, m) /\ u # t
  <2>1. \A m \in Login : ~About(t, m)'
    BY <1>1, Moved DEF About, IInv, Home
  <2> QED
    BY <1>1, <2>1, Moved DEF IInv
<1>3. \A u \in Tab, m \in Login :
        u # t /\ home[u] = home[t] /\ About(u, m) /\ started[m] = home[t] => m \in excused'
  BY <1>1 DEF IInv, OnCourse, Others
<1>4. TypeOK'
  BY <1>1, <1>2 DEF IInv, TypeOK, Others
<1>5. Started'
  BY <1>1, <1>2 DEF IInv, TypeOK, Started, Home
<1>6. BeforeCode'
  <2>1. \A u \in Tab : tab'[u].at \in {"login", "idp"} =>
          tab[u].at \in {"login", "idp"} /\ tab'[u] = tab[u] /\ tab[u].n \in Login
    BY <1>1, <1>2, PlaceType DEF IInv, TypeOK, Home
  <2> QED
    BY <1>1, <1>2, <2>1 DEF IInv, BeforeCode
<1>7. OnCourse'
  <2>1. \A u \in Tab : tab'[u].at = "idp" => tab'[u].n \in excused' \/ flow'[home[u]] = tab'[u].n
    <3> SUFFICES ASSUME NEW u \in Tab, u # t, tab[u].at = "idp"
                 PROVE  tab[u].n \in excused' \/ flow'[home[u]] = tab[u].n
      BY <1>2 DEF Home
    <3>1. tab[u].n \in Login /\ About(u, tab[u].n) /\ started[tab[u].n] = home[u]
      BY PlaceType DEF IInv, TypeOK, Started, About
    <3> QED
      BY LoginAssumption, <1>1, <1>3, <3>1 DEF IInv, OnCourse, LoginAssumption, TypeOK
  <2>2. \A u \in Tab : tab'[u].at = "callback" =>
          LET link == tab'[u].url
          IN  \/ link.state \in excused'
              \/ link.ok /\ flow'[home[u]] = link.state /\ code'[link.state] = "issued"
    <3> SUFFICES ASSUME NEW u \in Tab, u # t, tab[u].at = "callback", tab[u].url.state \notin excused'
                 PROVE  /\ tab[u].url.ok /\ flow'[home[u]] = tab[u].url.state
                        /\ code'[tab[u].url.state] = "issued"
      BY <1>2 DEF Home
    <3>1. tab[u].url.state \in Login /\ About(u, tab[u].url.state) /\ home[u] \in Browser
      BY LoginAssumption, PlaceType DEF IInv, TypeOK, Url, About, LoginAssumption
    <3>2. /\ tab[u].url.ok /\ flow[home[u]] = tab[u].url.state
          /\ code[tab[u].url.state] = "issued"
      BY <1>1 DEF IInv, OnCourse
    <3>3. started[tab[u].url.state] = home[u]
      BY <1>1, <3>1, <3>2 DEF IInv, Started
    <3> QED
      BY <1>1, <1>3, <3>1, <3>2, <3>3 DEF IInv, TypeOK
  <2> QED
    BY <1>1, <1>2, <2>1, <2>2 DEF IInv, OnCourse
<1>8. SignInIsOwn'
  BY <1>1 DEF IInv, TypeOK, Started, Recorded, SignInIsOwn
<1>9. Recorded' /\ GoesByProvider' /\ FailureHasCause' /\ LogoutReachesProvider'
  BY <1>1, <1>2 DEF IInv, TypeOK, Recorded, GoesByProvider, FailureHasCause,
     LogoutReachesProvider, Home
<1> QED
  BY <1>4, <1>5, <1>6, <1>7, <1>8, <1>9 DEF IInv

\* A tab that leaves its login takes nothing from the others.
LEMMA LeaveStep ==
    ASSUME IInv, NEW t \in Tab, NEW p \in Place, p.at \in {"home", "logout"}, Move(t, p),
           UNCHANGED <<flow, started, code, urls, registered, void>>,
           excused \subseteq excused'
    PROVE  Started' /\ BeforeCode' /\ Recorded' /\ OnCourse' /\ FailureHasCause'
<1>1. /\ \A u \in Tab : tab'[u] = tab[u] \/ tab'[u] = p
      /\ \A u \in Tab, m \in Login : About(u, m)' => About(u, m) /\ tab'[u] = tab[u]
  <2>1. \A m \in Login : ~About(t, m)'
    BY Moved DEF About, IInv
  <2> QED
    BY <2>1, Moved DEF IInv
<1>2. Started'
  BY <1>1 DEF IInv, Started
<1>3. BeforeCode'
  <2>1. \A u \in Tab : tab'[u].at \in {"login", "idp"} =>
          tab[u].at \in {"login", "idp"} /\ tab'[u] = tab[u] /\ tab[u].n \in Login
    BY <1>1, PlaceType DEF IInv, TypeOK
  <2> QED
    BY <1>1, <2>1 DEF IInv, BeforeCode
<1>4. Recorded' /\ FailureHasCause'
  BY <1>1 DEF IInv, Recorded, FailureHasCause
<1>5. OnCourse'
  BY <1>1 DEF IInv, OnCourse
<1> QED
  BY <1>2, <1>3, <1>4, <1>5

\* Nothing but excuses and voided cookies: the tabs stay as they are.
LEMMA VoidStep ==
    ASSUME IInv, NEW old \in SUBSET Login,
           void' = void \cup old, excused' = excused \cup old,
           UNCHANGED <<flow, session, signedIn, started, code, urls, tab, registered, live, loggedOut>>
    PROVE  IInv'
<1>1. \A u \in Tab, m \in Login : About(u, m)' <=> About(u, m)
  BY DEF About
<1>2. TypeOK' /\ Started' /\ BeforeCode' /\ Recorded' /\ GoesByProvider'
  <2>1. TypeOK' /\ Started' /\ Recorded' /\ GoesByProvider'
    BY <1>1 DEF IInv, TypeOK, Started, Recorded, GoesByProvider
  <2>2. \A u \in Tab : tab[u].at \in {"login", "idp"} => tab[u].n \in Login
    BY PlaceType DEF IInv, TypeOK
  <2>3. BeforeCode'
    BY <1>1, <2>2 DEF IInv, BeforeCode
  <2> QED
    BY <2>1, <2>3
<1>3. OnCourse'
  BY <1>1 DEF IInv, OnCourse
<1> QED
  BY <1>2, <1>3 DEF IInv, SignInIsOwn, FailureHasCause, LogoutReachesProvider

\* A logout with a valid cookie has a session to end, and so goes by the provider.
LEMMA HandleLogoutInv ==
    ASSUME IInv, NEW t \in Tab, HandleLogout(t) PROVE IInv'
<1> DEFINE b == home[t]
           p == [at |-> "logout", idp |-> hadSession(b) /\ EndSessionEndpoint,
                 valid |-> session[b] \notin void]
<1>1. /\ session[b] # None /\ Move(t, p)
      /\ live' \subseteq live
      /\ UNCHANGED <<flow, session, signedIn, started, code, urls, registered, void, excused, loggedOut>>
  BY DEF HandleLogout
<1>2. p \in Place
  BY LoginAssumption, MakePlace DEF hadSession, LoginAssumption
<1>3. TypeOK'
  BY <1>1, <1>2, Moved DEF IInv, TypeOK
<1>4. Started' /\ BeforeCode' /\ Recorded' /\ OnCourse' /\ FailureHasCause'
  BY <1>1, <1>2, LeaveStep
<1>5. GoesByProvider'
  <2>1. EndSessionEndpoint /\ p.valid => p.idp
    BY <1>1 DEF hadSession
  <2> QED
    BY <1>1, <1>2, <2>1, Moved DEF IInv, GoesByProvider
<1> QED
  BY <1>1, <1>3, <1>4, <1>5 DEF IInv, SignInIsOwn, LogoutReachesProvider

LEMMA LogoutResponseInv ==
    ASSUME IInv, NEW t \in Tab, LogoutResponse(t) PROVE IInv'
<1> DEFINE b == home[t]
<1>1. /\ tab[t].at = "logout" /\ b \in Browser /\ Move(t, Home)
      /\ session' = [session EXCEPT ![b] = None]
      /\ signedIn' = (IF tab[t].idp THEN signedIn \ {b} ELSE signedIn)
      /\ loggedOut' = (IF tab[t].valid THEN loggedOut \cup {b} ELSE loggedOut)
      /\ UNCHANGED <<flow, started, code, urls, registered, live, void, excused>>
  BY LoginAssumption DEF LogoutResponse, LoginAssumption, hubVars
<1>2. Home \in Place /\ Home.at = "home"
  BY MakePlace DEF Home
<1>3. TypeOK'
  BY <1>1, <1>2, Moved DEF IInv, TypeOK
<1>4. Started' /\ BeforeCode' /\ Recorded' /\ OnCourse' /\ FailureHasCause'
  BY <1>1, <1>2, LeaveStep
<1>5. SignInIsOwn'
  BY <1>1 DEF IInv, TypeOK, SignInIsOwn
<1>6. GoesByProvider' /\ LogoutReachesProvider'
  BY <1>1, <1>2, Moved DEF IInv, GoesByProvider, LogoutReachesProvider
<1> QED
  BY <1>3, <1>4, <1>5, <1>6 DEF IInv

LEMMA LoseInv ==
    ASSUME IInv, NEW t \in Tab, Lose(t) PROVE IInv'
<1>1. /\ Move(t, Home) /\ excused \subseteq excused' /\ excused' \subseteq Login
      /\ UNCHANGED <<flow, session, signedIn, started, code, urls, registered, live, void, loggedOut>>
  BY PlaceType DEF Lose, hubVars, IInv, TypeOK
<1>2. Home \in Place /\ Home.at = "home"
  BY MakePlace DEF Home
<1>3. TypeOK'
  BY <1>1, <1>2, Moved DEF IInv, TypeOK
<1>4. Started' /\ BeforeCode' /\ Recorded' /\ OnCourse' /\ FailureHasCause'
  BY <1>1, <1>2, LeaveStep
<1>5. GoesByProvider'
  BY <1>1, <1>2, Moved DEF IInv, GoesByProvider
<1> QED
  BY <1>1, <1>3, <1>4, <1>5 DEF IInv, SignInIsOwn, LogoutReachesProvider

LEMMA NextInv == IInv /\ [Next]_vars => IInv'
<1> SUFFICES ASSUME IInv, [Next]_vars PROVE IInv'
  OBVIOUS
<1>1. ASSUME NEW t \in Tab,
             \/ HandleLogin(t) \/ LoginResponse(t) \/ Authorize(t) \/ Decline(t) \/ Open(t)
             \/ HandleCallback(t) \/ CallbackResponse(t) \/ HandleLogout(t) \/ LogoutResponse(t)
             \/ Lose(t)
      PROVE  IInv'
  BY <1>1, HandleLoginInv, LoginResponseInv, RedirectInv, OpenInv, HandleCallbackInv,
     CallbackResponseInv, HandleLogoutInv, LogoutResponseInv, LoseInv
<1>2. ASSUME NEW n \in Login, EndElsewhere(n) PROVE IInv'
  <2>1. /\ live' \subseteq live
        /\ UNCHANGED <<flow, session, signedIn, started, code, urls, tab, registered, void, excused,
                       loggedOut>>
    BY <1>2 DEF EndElsewhere
  <2>2. \A u \in Tab, m \in Login : About(u, m)' <=> About(u, m)
    BY <2>1 DEF About
  <2>3. \A u \in Tab : tab[u].at \in {"login", "idp"} => tab[u].n \in Login
    BY PlaceType DEF IInv, TypeOK
  <2>4. BeforeCode'
    BY <2>1, <2>2, <2>3 DEF IInv, BeforeCode
  <2>5. TypeOK' /\ Started' /\ Recorded' /\ OnCourse' /\ GoesByProvider'
    BY <2>1, <2>2 DEF IInv, TypeOK, Started, Recorded, OnCourse, GoesByProvider
  <2> QED
    BY <2>1, <2>4, <2>5 DEF IInv, SignInIsOwn, FailureHasCause, LogoutReachesProvider
<1>3. ASSUME NEW n \in Login, Expire(n) PROVE IInv'
  BY <1>3, VoidStep DEF Expire, hubVars
<1>4. CASE Restart
  <2> DEFINE old == {n \in Login : started[n] # None}
  <2>1. old \in SUBSET Login /\ void' = void \cup old /\ excused' = excused \cup old
    BY <1>4 DEF Restart
  <2> QED
    BY <1>4, <2>1, VoidStep DEF Restart, hubVars
<1>5. CASE UNCHANGED vars
  <2>1. {} \in SUBSET Login /\ void' = void \cup {} /\ excused' = excused \cup {}
    BY <1>5 DEF vars
  <2> QED
    BY <1>5, <2>1, VoidStep DEF vars, hubVars
<1> QED
  BY <1>1, <1>2, <1>3, <1>4, <1>5 DEF Next

-----------------------------------------------------------------------------

\* The inductive invariant holds of every behaviour.
THEOREM Invariance == Spec => []IInv
<1>1. Init => IInv
  BY InitInv
<1>2. IInv /\ [Next]_vars => IInv'
  BY NextInv
<1> QED
  BY <1>1, <1>2, PTL DEF Spec

\* However many browsers, tabs and logins there are, whatever is lost, expires, fails
\* or is opened twice: a browser is signed in by its own, recorded login.
THEOREM OwnSignIn == Spec => []SignInIsOwn
<1>1. IInv => SignInIsOwn
  BY DEF IInv
<1> QED
  BY <1>1, Invariance, PTL

\* No login that is followed through fails without one of the causes that excuse it.
THEOREM FailuresExplained == Spec => []FailureHasCause
<1>1. IInv => FailureHasCause
  BY DEF IInv
<1> QED
  BY <1>1, Invariance, PTL

\* After a logout with a valid cookie the provider's own sign-in has ended too.
THEOREM LogoutComplete == Spec => []LogoutReachesProvider
<1>1. IInv => LogoutReachesProvider
  BY DEF IInv
<1> QED
  BY <1>1, Invariance, PTL

-----------------------------------------------------------------------------
(* AgentPlane: the agent's way.                                            *)

\* A call under way is one that its token's scopes allow, or one whose body broke off.
CallAllowed ==
    \A r \in AgentReq : pc[r] = "call" => run[r].cut \/ Plane!InScope(run[r])

PlaneInv == Plane!TypeOK /\ CallAllowed /\ Plane!RevocationKept

LEMMA PlaneConstants ==
    /\ Plane!NoRecords \in Plane!Registry /\ \A c \in Plane!Conn : Plane!NoRecords[c] = None
    /\ MaxClock \in Nat /\ 0 \in 0 .. MaxClock
    /\ 0 \in Plane!Second /\ Plane!Second \subseteq Nat
BY SignInAssumption DEF Plane!AgentPlaneAssumption, Plane!NoRecords, Plane!Registry, Plane!Second

LEMMA PruneType ==
    ASSUME NEW m \in Plane!Registry
    PROVE  /\ Plane!prune(m) \in Plane!Registry
           /\ \A c \in Plane!Conn : m[c] # None /\ m[c].revokedAt # 0 => Plane!prune(m)[c] = m[c]
BY DEF Plane!prune, Plane!Registry, Plane!Stale

LEMMA PlaneInitInv == Plane!Init => PlaneInv
<1> SUFFICES ASSUME Plane!Init PROVE PlaneInv
  OBVIOUS
<1>1. Plane!TypeOK
  <2>1. clock \in 1 .. MaxClock /\ acked \in [Plane!Conn -> 0 .. MaxClock]
    BY SignInAssumption DEF Plane!Init, Plane!AgentPlaneAssumption
  <2>2. order \in Seq(Plane!ConnKey) /\ Len(order) <= agentRegistrarCap
    BY SignInAssumption DEF Plane!Init, Plane!AgentPlaneAssumption
  <2>3. rec \in Plane!Registry /\ disk \in Plane!Registry \cup {Corrupt} /\ loadErr \in BOOLEAN
    BY PlaneConstants DEF Plane!Init
  <2> QED
    BY <2>1, <2>2, <2>3 DEF Plane!Init, Plane!TypeOK
<1>2. CallAllowed /\ Plane!RevocationKept
  BY DEF Plane!Init, CallAllowed, Plane!RevocationKept
<1> QED
  BY <1>1, <1>2 DEF PlaneInv

\* The registrar's keys: its list stays within the cap.
LEMMA RegisterType ==
    ASSUME Plane!TypeOK, NEW k \in Plane!ConnKey, Plane!Register(k)
    PROVE  /\ order' \in Seq(Plane!ConnKey) /\ Len(order') <= agentRegistrarCap
           /\ calls' \subseteq Plane!ConnKey
<1>1. CASE Plane!Seen(k)
  BY <1>1 DEF Plane!Register, Plane!TypeOK
<1>2. CASE ~Plane!Seen(k)
  <2>1. order \in Seq(Plane!ConnKey) /\ Len(order) <= agentRegistrarCap /\ agentRegistrarCap \in Nat \ {0}
    BY SignInAssumption DEF Plane!TypeOK, Plane!AgentPlaneAssumption
  <2>2. CASE Len(order) >= agentRegistrarCap
    <3>1. order # <<>> /\ Tail(order) \in Seq(Plane!ConnKey) /\ Len(Tail(order)) = Len(order) - 1
      BY <2>1, <2>2
    <3>2. order' = Append(Tail(order), k)
      BY <1>2, <2>2 DEF Plane!Register, Plane!note
    <3> QED
      BY <1>2, <2>1, <3>1, <3>2 DEF Plane!Register, Plane!TypeOK
  <2>3. CASE ~(Len(order) >= agentRegistrarCap)
    <3>1. order' = Append(order, k)
      BY <1>2, <2>3 DEF Plane!Register, Plane!note
    <3> QED
      BY <1>2, <2>1, <2>3, <3>1 DEF Plane!Register, Plane!TypeOK
  <2> QED
    BY <2>2, <2>3
<1> QED
  BY <1>1, <1>2

\* An answer ends a request's call.
LEMMA ReplyKeeps ==
    ASSUME PlaneInv, NEW r \in AgentReq, NEW outcome \in {"idle", "served"}, Plane!Reply(r, outcome)
    PROVE  /\ pc' \in [AgentReq -> {"idle", "call", "served"}]
           /\ run' \in [AgentReq -> [body : Body, cut : BOOLEAN, scopes : SUBSET Plane!Scope] \cup {None}]
           /\ actor' \in [AgentReq -> Plane!ConnKey \cup {None}]
           /\ CallAllowed'
BY DEF PlaneInv, Plane!TypeOK, Plane!Reply, CallAllowed

\* Only what its token's scopes allow becomes a call.
LEMMA AuthorizeKeeps ==
    ASSUME PlaneInv, NEW r \in AgentReq, NEW q \in Plane!Request, q.bearer # None, Plane!Authorize(r, q)
    PROVE  /\ pc' \in [AgentReq -> {"idle", "call", "served"}]
           /\ run' \in [AgentReq -> [body : Body, cut : BOOLEAN, scopes : SUBSET Plane!Scope] \cup {None}]
           /\ actor' \in [AgentReq -> Plane!ConnKey \cup {None}]
           /\ order' \in Seq(Plane!ConnKey) /\ Len(order') <= agentRegistrarCap
           /\ calls' \subseteq Plane!ConnKey
           /\ CallAllowed'
<1> DEFINE need == Plane!requiredScopeForBody(q)
           refused == \/ q.body = TooLarge \/ ~Plane!CallsTool(q.body)
                      \/ need # "" /\ ~Plane!satisfiesScope(q.bearer.scopes, need)
<1>1. q.bearer \in Plane!Token /\ q.body \in Body /\ q.cut \in BOOLEAN
  BY SignInAssumption DEF Plane!Request, Plane!AgentPlaneAssumption
<1>2. <<q.bearer.client, q.bearer.iat>> \in Plane!ConnKey /\ <<NoClient, 0>> \in Plane!ConnKey
  BY <1>1, PlaneConstants DEF Plane!Token, Plane!ConnKey, Plane!Conn
<1>3. order' \in Seq(Plane!ConnKey) /\ Len(order') <= agentRegistrarCap /\ calls' \subseteq Plane!ConnKey
  BY <1>2, RegisterType DEF Plane!Authorize, PlaneInv, Plane!TypeOK
<1>4. CASE refused
  BY <1>3, <1>4, ReplyKeeps DEF Plane!Authorize
<1>5. CASE ~refused
  <2>1. /\ pc' = [pc EXCEPT ![r] = "call"]
        /\ run' = [run EXCEPT ![r] = [body |-> q.body, cut |-> q.cut, scopes |-> q.bearer.scopes]]
        /\ actor' = [actor EXCEPT ![r] = Plane!ActorOf(q)]
    BY <1>5 DEF Plane!Authorize
  <2>2. Plane!ActorOf(q) \in Plane!ConnKey \cup {None} /\ q.bearer.scopes \subseteq Plane!Scope
    BY <1>1, <1>2 DEF Plane!ActorOf, Plane!Token
  <2>3. q.cut \/ \A i \in DOMAIN q.body :
                    Plane!scopeForMessage(q.body[i]) = "write" => "write" \in q.bearer.scopes
    BY <1>5 DEF Plane!requiredScopeForBody, Plane!satisfiesScope
  <2>4. CallAllowed'
    <3>1. run'[r] = [body |-> q.body, cut |-> q.cut, scopes |-> q.bearer.scopes]
      BY <2>1 DEF PlaneInv, Plane!TypeOK
    <3>2. run'[r].cut \/ Plane!InScope(run'[r])
      BY <2>3, <3>1 DEF Plane!InScope
    <3>3. \A s \in AgentReq : s # r => run'[s] = run[s] /\ pc'[s] = pc[s]
      BY <2>1 DEF PlaneInv, Plane!TypeOK
    <3> QED
      BY <3>2, <3>3 DEF CallAllowed, PlaneInv, Plane!InScope
  <2> QED
    BY <1>1, <1>3, <2>1, <2>2, <2>4 DEF PlaneInv, Plane!TypeOK
<1> QED
  BY <1>4, <1>5

LEMMA MiddlewareKeeps ==
    ASSUME PlaneInv, NEW r \in AgentReq, Plane!Middleware(r), UNCHANGED faults
    PROVE  PlaneInv'
<1>1. UNCHANGED <<clock, Plane!hubVars, missed>>
  BY DEF Plane!Middleware
<1>2. PICK q \in Plane!Request :
          IF q.bearer = None \/ ~Plane!Valid(q.bearer)
          THEN Plane!Reply(r, "idle") /\ UNCHANGED <<order, calls>>
          ELSE Plane!Authorize(r, q)
  BY DEF Plane!Middleware
<1>3. CASE Plane!Reply(r, "idle") /\ UNCHANGED <<order, calls>>
  BY <1>1, <1>3, ReplyKeeps DEF PlaneInv, Plane!TypeOK, Plane!RevocationKept, Plane!hubVars
<1>4. CASE q.bearer # None /\ Plane!Authorize(r, q)
  BY <1>1, <1>4, AuthorizeKeeps DEF PlaneInv, Plane!TypeOK, Plane!RevocationKept, Plane!hubVars
<1> QED
  BY <1>2, <1>3, <1>4

-----------------------------------------------------------------------------
(* The registry. *)

\* What is saved, or fails to be, keeps every acknowledged revocation that what is
\* to be saved has.
LEMMA SaveKeeps ==
    ASSUME Plane!TypeOK, NEW m \in Plane!Registry, NEW saved \in BOOLEAN, Plane!save(m, saved),
           NEW old \in [Plane!Conn -> 0 .. MaxClock],
           \A c \in Plane!Conn : old[c] # 0 => m[c] # None /\ m[c].revokedAt = old[c],
           ~saved => \A c \in Plane!Conn : old[c] # 0 =>
                        disk = Corrupt \/ (disk[c] # None /\ disk[c].revokedAt = old[c])
    PROVE  /\ rec' \in Plane!Registry /\ disk' \in Plane!Registry \cup {Corrupt} /\ missed' \subseteq Plane!Conn
           /\ \A c \in Plane!Conn : old[c] # 0 =>
                 /\ rec'[c] # None /\ rec'[c].revokedAt = old[c]
                 /\ disk' = Corrupt \/ (disk'[c] # None /\ disk'[c].revokedAt = old[c])
<1>1. /\ Plane!prune(m) \in Plane!Registry
      /\ \A c \in Plane!Conn : old[c] # 0 => Plane!prune(m)[c] = m[c]
  BY PruneType
<1>2. rec' = Plane!prune(m) /\ disk' = (IF saved THEN Plane!prune(m) ELSE disk)
  BY DEF Plane!save
<1>3. missed' \subseteq Plane!Conn
  BY DEF Plane!save, Plane!TypeOK
<1> QED
  BY <1>1, <1>2, <1>3 DEF Plane!TypeOK

\* What an admission needs: a token later than any acknowledged revocation.
LEMMA AdmittedIsNewer ==
    ASSUME PlaneInv, NEW k \in Plane!ConnKey, ~loadErr, ~Plane!Refused(k), acked[k[1]] # 0
    PROVE  Plane!Newer(k)
<1>1. k[1] \in Plane!Conn /\ k[2] \in Nat
  BY PlaneConstants DEF Plane!ConnKey
<1>2. rec[k[1]] # None /\ rec[k[1]].revokedAt = acked[k[1]]
  BY <1>1 DEF PlaneInv, Plane!RevocationKept
<1>3. acked[k[1]] \in Nat
  BY <1>1, PlaneConstants DEF PlaneInv, Plane!TypeOK
<1> QED
  BY <1>1, <1>2, <1>3 DEF Plane!Refused, Plane!Newer

LEMMA AdmitKeeps ==
    ASSUME PlaneInv, NEW k \in Plane!ConnKey, Plane!Admit(k), UNCHANGED clock
    PROVE  /\ rec' \in Plane!Registry /\ disk' \in Plane!Registry \cup {Corrupt} /\ missed' \subseteq Plane!Conn
           /\ loadErr' \in BOOLEAN /\ acked' \in [Plane!Conn -> 0 .. MaxClock]
           /\ Plane!RevocationKept'
<1>1. k[1] \in Plane!Conn
  BY DEF Plane!ConnKey
<1>2. ~loadErr /\ ~Plane!Refused(k) /\ Plane!Touch(k) /\ Plane!Reauthorize(k) /\ loadErr' = loadErr
  BY DEF Plane!Admit
<1>3. /\ acked' \in [Plane!Conn -> 0 .. MaxClock]
      /\ acked'[k[1]] = 0
      /\ \A c \in Plane!Conn \ {k[1]} : acked'[c] = acked[c]
  BY <1>1, <1>2, AdmittedIsNewer, PlaneConstants DEF Plane!Reauthorize, PlaneInv, Plane!TypeOK
<1>4. CASE UNCHANGED <<rec, disk, missed>>
  <2>1. Plane!RevocationKept'
    BY <1>2, <1>3, <1>4 DEF PlaneInv, Plane!RevocationKept
  <2> QED
    BY <1>2, <1>3, <1>4, <2>1 DEF PlaneInv, Plane!TypeOK
<1>5. ASSUME NEW saved \in Plane!CanSave,
             Plane!save([rec EXCEPT ![k[1]] = [lastSeen |-> clock, revokedAt |-> 0]], saved)
      PROVE  /\ rec' \in Plane!Registry /\ disk' \in Plane!Registry \cup {Corrupt} /\ missed' \subseteq Plane!Conn
             /\ Plane!RevocationKept'
  <2> DEFINE m == [rec EXCEPT ![k[1]] = [lastSeen |-> clock, revokedAt |-> 0]]
  <2>1. m \in Plane!Registry /\ saved \in BOOLEAN
    <3>1. [lastSeen |-> clock, revokedAt |-> 0] \in Plane!Record
      BY PlaneConstants DEF PlaneInv, Plane!TypeOK, Plane!Record
    <3>2. m \in Plane!Registry
      BY <1>1, <3>1 DEF PlaneInv, Plane!TypeOK, Plane!Registry
    <3>3. saved \in BOOLEAN
      BY DEF Plane!CanSave
    <3> QED
      BY <3>2, <3>3
  <2>2. \A c \in Plane!Conn : acked'[c] # 0 => m[c] # None /\ m[c].revokedAt = acked'[c]
    BY <1>2, <1>3 DEF PlaneInv, Plane!TypeOK, Plane!RevocationKept, Plane!Registry
  <2>3. \A c \in Plane!Conn : acked'[c] # 0 =>
            disk = Corrupt \/ (disk[c] # None /\ disk[c].revokedAt = acked'[c])
    BY <1>3 DEF PlaneInv, Plane!RevocationKept
  <2>4. Plane!TypeOK
    BY DEF PlaneInv
  <2>5. Plane!save(m, saved)
    BY <1>5
  <2> HIDE DEF m
  <2>6. /\ rec' \in Plane!Registry /\ disk' \in Plane!Registry \cup {Corrupt} /\ missed' \subseteq Plane!Conn
        /\ \A c \in Plane!Conn : acked'[c] # 0 =>
              /\ rec'[c] # None /\ rec'[c].revokedAt = acked'[c]
              /\ disk' = Corrupt \/ (disk'[c] # None /\ disk'[c].revokedAt = acked'[c])
    BY <1>3, <2>1, <2>2, <2>3, <2>4, <2>5, SaveKeeps
  <2> QED
    BY <2>6 DEF Plane!RevocationKept
<1>6. \/ UNCHANGED <<rec, disk, missed>>
      \/ \E saved \in Plane!CanSave :
            Plane!save([rec EXCEPT ![k[1]] = [lastSeen |-> clock, revokedAt |-> 0]], saved)
  BY <1>2 DEF Plane!Touch
<1>7. loadErr' \in BOOLEAN
  BY <1>2 DEF PlaneInv, Plane!TypeOK
<1> QED
  BY <1>3, <1>4, <1>5, <1>6, <1>7

\* A refusal changes nothing.
LEMMA CallKeeps ==
    ASSUME PlaneInv, NEW r \in AgentReq, Plane!Call(r), UNCHANGED faults
    PROVE  PlaneInv'
<1>1. UNCHANGED <<clock, order, calls>>
  BY DEF Plane!Call
<1>2. ASSUME NEW outcome \in {"idle", "served"}, Plane!Reply(r, outcome), UNCHANGED <<Plane!hubVars, missed>>
      PROVE  PlaneInv'
  BY <1>1, <1>2, ReplyKeeps DEF PlaneInv, Plane!TypeOK, Plane!RevocationKept, Plane!hubVars
<1>3. CASE actor[r] # None /\ Plane!Admit(actor[r]) /\ Plane!Reply(r, "served")
  <2>1. actor[r] \in Plane!ConnKey
    BY <1>3 DEF PlaneInv, Plane!TypeOK
  <2>2. /\ rec' \in Plane!Registry /\ disk' \in Plane!Registry \cup {Corrupt} /\ missed' \subseteq Plane!Conn
        /\ loadErr' \in BOOLEAN /\ acked' \in [Plane!Conn -> 0 .. MaxClock]
        /\ Plane!RevocationKept'
    BY <1>1, <1>3, <2>1, AdmitKeeps
  <2> QED
    BY <1>1, <1>3, <2>2, ReplyKeeps DEF PlaneInv, Plane!TypeOK
<1> QED
  BY <1>2, <1>3 DEF Plane!Call, Plane!Refuse

LEMMA BackgroundKeeps ==
    ASSUME PlaneInv, NEW k \in Plane!ConnKey, Plane!Background(k) \/ Plane!BackgroundLost(k), UNCHANGED faults
    PROVE  PlaneInv'
<1>1. UNCHANGED <<clock, pc, run, actor, order>> /\ calls' \subseteq Plane!ConnKey /\ k[1] \in Plane!Conn
  BY DEF Plane!Background, Plane!BackgroundLost, PlaneInv, Plane!TypeOK, Plane!ConnKey
<1>2. CASE UNCHANGED Plane!hubVars /\ missed' = missed \cup {k[1]}
  BY <1>1, <1>2 DEF PlaneInv, Plane!TypeOK, Plane!RevocationKept, CallAllowed, Plane!hubVars
<1>3. CASE Plane!Admit(k)
  <2>1. /\ rec' \in Plane!Registry /\ disk' \in Plane!Registry \cup {Corrupt} /\ missed' \subseteq Plane!Conn
        /\ loadErr' \in BOOLEAN /\ acked' \in [Plane!Conn -> 0 .. MaxClock]
        /\ Plane!RevocationKept'
    BY <1>1, <1>3, AdmitKeeps
  <2> QED
    BY <1>1, <2>1 DEF PlaneInv, Plane!TypeOK, CallAllowed
<1> QED
  BY <1>2, <1>3 DEF Plane!Background, Plane!BackgroundLost, Plane!Refuse

\* A revocation is acknowledged when it is in the file.
LEMMA RevokeKeeps ==
    ASSUME PlaneInv, NEW c \in Plane!Conn, Plane!Revoke(c), UNCHANGED faults
    PROVE  PlaneInv'
<1>0. PICK m : m = [rec EXCEPT ![c].revokedAt = clock]
  OBVIOUS
<1>1. UNCHANGED <<clock, Plane!mcpVars, loadErr>> /\ ~loadErr /\ rec[c] # None /\ rec[c].revokedAt = 0
  BY DEF Plane!Revoke
<1>2. PICK saved \in Plane!CanSave :
          /\ Plane!save(m, saved)
          /\ acked' = [acked EXCEPT ![c] = IF saved THEN clock ELSE @]
  BY <1>0 DEF Plane!Revoke
<1>3. clock \in 1 .. MaxClock /\ MaxClock \in Nat /\ acked[c] = 0
  BY <1>1, PlaneConstants DEF PlaneInv, Plane!TypeOK, Plane!RevocationKept
<1>4. acked' \in [Plane!Conn -> 0 .. MaxClock]
  BY <1>2, <1>3 DEF PlaneInv, Plane!TypeOK
<1>5. rec[c] \in Plane!Record
  BY <1>1 DEF PlaneInv, Plane!TypeOK, Plane!Registry
<1>6. m = [rec EXCEPT ![c] = [lastSeen |-> rec[c].lastSeen, revokedAt |-> clock]]
  <2>1. [rec[c] EXCEPT !.revokedAt = clock] = [lastSeen |-> rec[c].lastSeen, revokedAt |-> clock]
    BY <1>5 DEF Plane!Record
  <2>2. m = [rec EXCEPT ![c] = [rec[c] EXCEPT !.revokedAt = clock]]
    BY <1>0
  <2> QED
    BY <2>1, <2>2
<1>7. [lastSeen |-> rec[c].lastSeen, revokedAt |-> clock] \in Plane!Record
  BY <1>3, <1>5 DEF Plane!Record
<1>8. m \in Plane!Registry
  BY <1>6, <1>7 DEF PlaneInv, Plane!TypeOK, Plane!Registry
<1>9. \A d \in Plane!Conn : acked'[d] # 0 => m[d] # None /\ m[d].revokedAt = acked'[d]
  <2> SUFFICES ASSUME NEW d \in Plane!Conn, acked'[d] # 0
               PROVE  m[d] # None /\ m[d].revokedAt = acked'[d]
    OBVIOUS
  <2>1. CASE d = c
    <3>1. m[d] = [lastSeen |-> rec[c].lastSeen, revokedAt |-> clock]
      BY <1>6, <2>1 DEF PlaneInv, Plane!TypeOK, Plane!Registry
    <3>2. acked'[d] = clock
      BY <1>2, <1>3, <2>1 DEF PlaneInv, Plane!TypeOK
    <3> QED
      BY <1>7, <3>1, <3>2, SignInAssumption DEF Plane!AgentPlaneAssumption
  <2>2. CASE d # c
    <3>1. acked'[d] = acked[d] /\ m[d] = rec[d]
      BY <1>0, <1>2, <2>2 DEF PlaneInv, Plane!TypeOK, Plane!Registry
    <3> QED
      BY <1>1, <3>1 DEF PlaneInv, Plane!RevocationKept
  <2> QED
    BY <2>1, <2>2
<1>10. ~saved => \A d \in Plane!Conn : acked'[d] # 0 =>
                    disk = Corrupt \/ (disk[d] # None /\ disk[d].revokedAt = acked'[d])
  BY <1>2, <1>3 DEF PlaneInv, Plane!TypeOK, Plane!RevocationKept
<1>11. saved \in BOOLEAN /\ Plane!TypeOK
  BY DEF Plane!CanSave, PlaneInv
<1>12. Plane!save(m, saved)
  BY <1>2
<1>13. /\ rec' \in Plane!Registry /\ disk' \in Plane!Registry \cup {Corrupt} /\ missed' \subseteq Plane!Conn
       /\ \A d \in Plane!Conn : acked'[d] # 0 =>
             /\ rec'[d] # None /\ rec'[d].revokedAt = acked'[d]
             /\ disk' = Corrupt \/ (disk'[d] # None /\ disk'[d].revokedAt = acked'[d])
  BY <1>4, <1>8, <1>9, <1>10, <1>11, <1>12, SaveKeeps
<1> QED
  BY <1>1, <1>4, <1>13 DEF PlaneInv, Plane!TypeOK, Plane!RevocationKept, CallAllowed, Plane!mcpVars

\* What was acknowledged is in the file that a restart reads.
LEMMA RestartKeeps ==
    ASSUME PlaneInv, Plane!HubRestart \/ Plane!McpRestart \/ Plane!Damage \/ Plane!Tick, UNCHANGED faults
    PROVE  PlaneInv'
<1>1. CASE Plane!HubRestart
  <2>1. UNCHANGED <<clock, Plane!mcpVars, acked>>
    BY <1>1 DEF Plane!HubRestart
  <2>2. CASE disk = Corrupt
    <3>1. rec' = Plane!NoRecords /\ loadErr' = TRUE /\ UNCHANGED disk
          /\ missed' = missed \cup {c \in Plane!Conn : rec[c] # None}
      BY <1>1, <2>2 DEF Plane!HubRestart
    <3> QED
      BY <2>1, <2>2, <3>1, PlaneConstants DEF PlaneInv, Plane!TypeOK, Plane!RevocationKept, CallAllowed, Plane!mcpVars
  <2>3. CASE disk # Corrupt
    <3>1. loadErr' = FALSE
      BY <1>1, <2>3 DEF Plane!HubRestart
    <3>2. PICK saved \in Plane!CanSave : Plane!save(disk, saved)
      BY <1>1, <2>3 DEF Plane!HubRestart
    <3>3. disk \in Plane!Registry /\ acked \in [Plane!Conn -> 0 .. MaxClock] /\ saved \in BOOLEAN /\ Plane!TypeOK
      BY <2>3 DEF PlaneInv, Plane!TypeOK, Plane!CanSave
    <3>4. \A c \in Plane!Conn : acked[c] # 0 => disk[c] # None /\ disk[c].revokedAt = acked[c]
      BY <2>3 DEF PlaneInv, Plane!RevocationKept
    <3>5. /\ rec' \in Plane!Registry /\ disk' \in Plane!Registry \cup {Corrupt} /\ missed' \subseteq Plane!Conn
          /\ \A c \in Plane!Conn : acked[c] # 0 =>
                /\ rec'[c] # None /\ rec'[c].revokedAt = acked[c]
                /\ disk' = Corrupt \/ (disk'[c] # None /\ disk'[c].revokedAt = acked[c])
      BY <3>2, <3>3, <3>4, SaveKeeps
    <3> QED
      BY <2>1, <3>1, <3>5 DEF PlaneInv, Plane!TypeOK, Plane!RevocationKept, CallAllowed, Plane!mcpVars
  <2> QED
    BY <2>2, <2>3
<1>2. CASE Plane!McpRestart
  <2>1. \A k \in calls : k[1] \in Plane!Conn
    BY DEF PlaneInv, Plane!TypeOK, Plane!ConnKey
  <2>2. missed' \subseteq Plane!Conn
    BY <1>2, <2>1 DEF Plane!McpRestart, PlaneInv, Plane!TypeOK
  <2>3. order' \in Seq(Plane!ConnKey) /\ Len(order') <= agentRegistrarCap
    BY <1>2, SignInAssumption DEF Plane!McpRestart, Plane!AgentPlaneAssumption
  <2> QED
    BY <1>2, <2>2, <2>3 DEF Plane!McpRestart, PlaneInv, Plane!TypeOK, Plane!RevocationKept, CallAllowed, Plane!hubVars
<1>3. CASE Plane!Damage
  BY <1>3 DEF Plane!Damage, PlaneInv, Plane!TypeOK, Plane!RevocationKept, CallAllowed, Plane!mcpVars
<1>4. CASE Plane!Tick
  <2>1. clock' \in 1 .. MaxClock
    BY <1>4, PlaneConstants DEF Plane!Tick, PlaneInv, Plane!TypeOK
  <2> QED
    BY <1>4, <2>1 DEF Plane!Tick, PlaneInv, Plane!TypeOK, Plane!RevocationKept, CallAllowed, Plane!mcpVars, Plane!hubVars
<1> QED
  BY <1>1, <1>2, <1>3, <1>4

LEMMA PlaneNextInv == PlaneInv /\ [Plane!Next]_(Plane!vars) => PlaneInv'
<1> SUFFICES ASSUME PlaneInv, [Plane!Next]_(Plane!vars) PROVE PlaneInv'
  OBVIOUS
<1>1. CASE UNCHANGED Plane!vars
  BY <1>1 DEF Plane!vars, Plane!mcpVars, Plane!hubVars, PlaneInv, Plane!TypeOK, CallAllowed, Plane!RevocationKept
<1> QED
  BY <1>1, MiddlewareKeeps, CallKeeps, BackgroundKeeps, RevokeKeeps, RestartKeeps DEF Plane!Next

\* The registry in memory, unless it failed to load, and the file, unless it is
\* damaged, have every acknowledged revocation; a call under way is one its token allows.
THEOREM PlaneInvariance == Plane!Spec => []PlaneInv
<1>1. Plane!Init => PlaneInv
  BY PlaneInitInv
<1>2. PlaneInv /\ [Plane!Next]_(Plane!vars) => PlaneInv'
  BY PlaneNextInv
<1> QED
  BY <1>1, <1>2, PTL DEF Plane!Spec

LEMMA ServedStep == PlaneInv /\ [Plane!Next]_(Plane!vars) => [Plane!ServedIsAllowed]_(Plane!vars)
<1> SUFFICES ASSUME PlaneInv, Plane!Next, NEW r \in AgentReq, pc[r] = "call", pc'[r] = "served"
             PROVE  /\ run[r].cut \/ Plane!InScope(run[r])
                    /\ \/ actor[r] = None
                       \/ acked[actor[r][1]] = 0 \/ Plane!Newer(actor[r])
  BY DEF Plane!ServedIsAllowed
<1>1. pc \in [AgentReq -> {"idle", "call", "served"}] /\ actor[r] \in Plane!ConnKey \cup {None}
  BY DEF PlaneInv, Plane!TypeOK
<1>2. Plane!Call(r)
  <2>1. ASSUME NEW q \in AgentReq, Plane!Middleware(q) PROVE FALSE
    BY <1>1, <2>1 DEF Plane!Middleware, Plane!Reply, Plane!Authorize
  <2>2. ASSUME NEW q \in AgentReq, q # r, Plane!Call(q) PROVE FALSE
    BY <1>1, <2>2 DEF Plane!Call, Plane!Reply
  <2>3. ASSUME NEW k \in Plane!ConnKey, Plane!Background(k) \/ Plane!BackgroundLost(k) PROVE FALSE
    BY <1>1, <2>3 DEF Plane!Background, Plane!BackgroundLost
  <2>4. ASSUME Plane!HubRestart \/ Plane!McpRestart \/ Plane!Damage \/ Plane!Tick \/ \E c \in Plane!Conn : Plane!Revoke(c) PROVE FALSE
    BY <1>1, <2>4 DEF Plane!HubRestart, Plane!McpRestart, Plane!Damage, Plane!Tick, Plane!Revoke, Plane!mcpVars
  <2> QED
    BY <2>1, <2>2, <2>3, <2>4 DEF Plane!Next
<1>3. actor[r] = None \/ (~loadErr /\ ~Plane!Refused(actor[r]))
  BY <1>1, <1>2 DEF Plane!Call, Plane!Reply, Plane!Admit
<1> QED
  BY <1>1, <1>3, AdmittedIsNewer DEF PlaneInv, CallAllowed

\* Through failed saves, pruning, damage and restarts, for any clients, tokens and
\* bodies: an acknowledged revocation is kept, and no call is served against it, nor,
\* where the body could be read to its end, beyond its token's scope (Revoke, Admit,
\* requiredScopeForBody).
THEOREM RevocationsHold == Plane!Spec => RevocationHolds
<1>1. PlaneInv' /\ [Plane!ServedIsAllowed]_(Plane!vars) => [Plane!RevocationKept' /\ Plane!ServedIsAllowed]_(Plane!vars)
  BY DEF PlaneInv
<1> QED
  BY <1>1, PlaneInvariance, ServedStep, PTL DEF Plane!Spec, Plane!RevocationHolds, RevocationHolds

-----------------------------------------------------------------------------
(* Both.                                                                   *)

\* Browsers and agents are well typed wherever both come: the registrar keeps no
\* more keys than its cap.
THEOREM Typed == Spec /\ Plane!Spec => []TypesOK
<1>1. IInv /\ PlaneInv => TypesOK
  BY DEF IInv, PlaneInv, TypesOK
<1> QED
  BY <1>1, Invariance, PlaneInvariance, PTL
=============================================================================
