-------------------------- MODULE Sessions_proofs --------------------------
(***************************************************************************)
(* A saved end is final, the absolute cap binds, and recent use keeps a    *)
(* session: for any sessions, browsers, requests and periods.              *)
(***************************************************************************)
EXTENDS Sessions, TLAPS

Stored(s, rec) == rec = records[s] \/ (file # Corrupt /\ rec = file[s])

\* A record's deadline is between where use has moved it and the cap.
InWindow(rec) ==
    /\ Cap > 0 => rec.expires <= rec.created + Cap
    /\ \/ rec.expires >= rec.lastSeen + Idle
       \/ Cap > 0 /\ rec.expires >= rec.created + Cap

Windows == \A s \in Sid, rec \in Record : Stored(s, rec) => InWindow(rec) /\ used[s] # None

\* Memory and file tell the same story of a session, and one that is behind by
\* less than Touch.
SameBirth == \A s \in Sid, x, y \in Record : Stored(s, x) /\ Stored(s, y) => x.created = y.created
Throttled == \A s \in Sid : records[s] # None => used[s] <= records[s].lastSeen + Touch

\* Where a cookie may be: in a browser, in a request, and in its response.
Issued(c) == \/ \E b \in Browser : cookie[b] = c
             \/ \E r \in Req : pc[r] # "idle" /\ req[r].cookie = c
             \/ \E r \in Req : setCookie[r] = c
Capped == \A c \in Cookie : Issued(c) =>
             /\ used[c.sid] # None
             /\ Cap > 0 => \A rec \in Record : Stored(c.sid, rec) => c.expires <= rec.created + Cap

Busy == \A r \in Req : pc[r] # "idle" => req[r] \in Request
Forgotten == \A s \in ended : used[s] # None /\ records[s] = None /\ (file # Corrupt => file[s] = None)

IInv == TypeOK /\ Busy /\ Windows /\ SameBirth /\ Throttled /\ Capped /\ Forgotten

-----------------------------------------------------------------------------

LEMMA NoneApart == None \notin Time /\ None \notin Nat /\ None \notin Record /\ None \notin Cookie
  BY SessionsAssumption, NoRecordAssumption DEF Time

LEMMA InitInv == Init => IInv
<1> SUFFICES ASSUME Init PROVE IInv
  OBVIOUS
<1>1. 0 \in Time
  BY SessionsAssumption DEF Time
<1>2. TypeOK
  BY <1>1 DEF Init, TypeOK, Empty, Registry, ReqStep
<1>3. Busy /\ Throttled /\ Forgotten
  BY DEF Init, Busy, Throttled, Forgotten, Empty
<1>4. \A s \in Sid, rec \in Record : ~Stored(s, rec)
  BY NoneApart DEF Init, Stored, Empty
<1>5. \A c \in Cookie : ~Issued(c)
  BY NoneApart DEF Init, Issued
<1> QED
  BY <1>2, <1>3, <1>4, <1>5 DEF IInv, Windows, SameBirth, Capped

-----------------------------------------------------------------------------

\* A step that stores and issues nothing new.
LEMMA NothingNew ==
    ASSUME IInv, TypeOK', Busy', Throttled', Forgotten',
           \A s \in Sid, rec \in Record : Stored(s, rec)' => Stored(s, rec),
           \A c \in Cookie : Issued(c)' => Issued(c),
           \A s \in Sid : used[s] # None => used'[s] # None
    PROVE  IInv'
<1>1. Windows'
  BY DEF IInv, Windows, InWindow
<1>2. SameBirth'
  BY DEF IInv, SameBirth
<1>3. Capped'
  BY DEF IInv, Capped, Cookie
<1> QED
  BY <1>1, <1>2, <1>3 DEF IInv

\* save keeps the records it is given, or forgets them.
LEMMA SaveShape ==
    ASSUME IInv, NEW recs \in Registry, bestEffort(recs)
    PROVE  /\ records' \in Registry /\ file' \in Registry \cup {Corrupt}
           /\ \A s \in Sid : records'[s] \in {recs[s], None}
           /\ file' = file \/ file' = records'
  BY DEF bestEffort, save, saveFails, prune, Registry, IInv, TypeOK

\* A step in which the registry loses records at most, and nothing is issued.
LEMMA ShrinkStep ==
    ASSUME IInv, TypeOK', Busy',
           \A s \in Sid : records'[s] \in {records[s], None},
           file' = file \/ file' = records',
           UNCHANGED <<cookie, used>>,
           \A r \in Req : pc'[r] # "idle" => pc[r] # "idle" /\ req'[r] = req[r],
           \A r \in Req : setCookie'[r] \in {setCookie[r], None},
           Forgotten'
    PROVE  IInv'
<1>1. \A s \in Sid, rec \in Record : Stored(s, rec)' => Stored(s, rec)
  BY NoneApart DEF Stored
<1>2. \A c \in Cookie : Issued(c)' => Issued(c)
  BY NoneApart DEF Issued
<1>3. Throttled'
  BY DEF IInv, Throttled
<1> QED
  BY <1>1, <1>2, <1>3, NothingNew

\* Requests come and go without touching the registry.
LEMMA RequestStep ==
    ASSUME IInv, NEW r \in Req,
           Authenticate(r) \/ Page(r) \/ Lose(r) \/ \E b \in Browser : Send(r, b)
    PROVE  IInv'
<1>1. UNCHANGED <<clock, records, file, loadErr, cookie, used, ended>>
  BY DEF Authenticate, Page, Lose, Send, storeVars, historyVars
<1>2. TypeOK' /\ Busy'
  <2>1. CASE \E b \in Browser : Send(r, b)
    <3>1. PICK b \in Browser, k \in {"page", "revoke", "logout"}, s \in Sid :
            /\ cookie[b] # None
            /\ req' = [req EXCEPT ![r] = [kind |-> k, from |-> b, cookie |-> cookie[b], id |-> s]]
            /\ Goto(r, "sent") /\ UNCHANGED setCookie
      BY <2>1 DEF Send
    <3>2. [kind |-> k, from |-> b, cookie |-> cookie[b], id |-> s] \in Request
      BY <3>1 DEF IInv, TypeOK, Request
    <3> QED
      BY <1>1, <3>1, <3>2 DEF IInv, TypeOK, Busy, Goto, ReqStep
  <2> QED
    BY <1>1, <2>1 DEF Authenticate, Page, Lose, Done, Goto, IInv, TypeOK, Busy, ReqStep
<1>3. \A c \in Cookie : Issued(c)' => Issued(c)
  <2>1. CASE \E b \in Browser : Send(r, b)
    <3>1. PICK b \in Browser : /\ req'[r].cookie = cookie[b] /\ UNCHANGED setCookie
                               /\ \A q \in Req : q # r => req'[q] = req[q] /\ pc'[q] = pc[q]
      BY <2>1 DEF Send, Goto, IInv, TypeOK
    <3> QED
      BY <1>1, <3>1 DEF Issued
  <2>2. CASE Authenticate(r) \/ Page(r) \/ Lose(r)
    <3>1. \A q \in Req : /\ pc'[q] # "idle" => pc[q] # "idle" /\ req'[q] = req[q]
                         /\ setCookie'[q] \in {setCookie[q], None}
      BY <2>2 DEF Authenticate, Page, Lose, Done, Goto, IInv, TypeOK
    <3> QED
      BY <1>1, <3>1, NoneApart DEF Issued
  <2> QED
    BY <2>1, <2>2
<1>4. \A s \in Sid, rec \in Record : Stored(s, rec)' => Stored(s, rec)
  BY <1>1 DEF Stored
<1>5. Throttled' /\ Forgotten'
  BY <1>1 DEF IInv, Throttled, Forgotten
<1> QED
  BY <1>1, <1>2, <1>3, <1>4, <1>5, NothingNew

\* The response may put its cookie in the browser.
LEMMA RespondInv == ASSUME IInv, NEW r \in Req, Respond(r) PROVE IInv'
<1>1. UNCHANGED <<clock, records, file, loadErr, used, ended>>
  BY DEF Respond, storeVars, historyVars
<1>2. /\ req[r] \in Request /\ Done(r)
      /\ cookie' \in [Browser -> Cookie \cup {None}]
      /\ \A b \in Browser : cookie'[b] \in {cookie[b], setCookie[r], None}
  BY DEF Respond, IInv, TypeOK, Busy, Request
<1>3. TypeOK' /\ Busy'
  BY <1>1, <1>2 DEF IInv, TypeOK, Busy, Done, Goto, ReqStep
<1>4. \A c \in Cookie : Issued(c)' => Issued(c)
  <2>1. \A q \in Req : /\ pc'[q] # "idle" => pc[q] # "idle" /\ req'[q] = req[q]
                       /\ setCookie'[q] \in {setCookie[q], None}
    BY <1>2 DEF Done, Goto, IInv, TypeOK
  <2> QED
    BY <1>2, <2>1, NoneApart DEF Issued
<1>5. \A s \in Sid, rec \in Record : Stored(s, rec)' => Stored(s, rec)
  BY <1>1 DEF Stored
<1>6. Throttled' /\ Forgotten'
  BY <1>1 DEF IInv, Throttled, Forgotten
<1> QED
  BY <1>1, <1>3, <1>4, <1>5, <1>6, NothingNew

\* A login's record is the first of its id, in memory and file, and its cookie the first.
LEMMA LoginInv ==
    ASSUME IInv, NEW b \in Browser, NEW s \in Sid, NEW u \in User, Login(b, s, u) PROVE IInv'
<1> DEFINE want == hardExpiry(clock, clock + Idle)
           rec == [sub |-> u, created |-> clock, lastSeen |-> clock, expires |-> want]
           recs == [prune(records) EXCEPT ![s] = rec]
           c == [sid |-> s, sub |-> u, expires |-> want]
<1>1. /\ ~loadErr /\ used[s] = None /\ bestEffort(recs)
      /\ cookie' \in {cookie, [cookie EXCEPT ![b] = c]}
      /\ used' = [used EXCEPT ![s] = clock]
      /\ UNCHANGED <<clock, loadErr, pc, req, setCookie, ended>>
  BY DEF Login, createRefused, bestEffort, reqVars
<1>2. /\ clock \in Time /\ want \in Deadline /\ rec \in Record /\ c \in Cookie
      /\ (Cap > 0 => want <= clock + Cap)
      /\ want >= clock + Idle \/ (Cap > 0 /\ want >= clock + Cap)
  BY SessionsAssumption DEF IInv, TypeOK, hardExpiry, Min2, Time, Deadline, Record, Cookie
<1>3. recs \in Registry /\ recs[s] = rec /\ \A t \in Sid : t # s => recs[t] \in {records[t], None}
  BY <1>2 DEF IInv, TypeOK, prune, Registry
<1>4. /\ records' \in Registry /\ file' \in Registry \cup {Corrupt}
      /\ \A t \in Sid : records'[t] \in {recs[t], None}
      /\ file' = file \/ file' = records'
  BY <1>1, <1>3, SaveShape
<1>5. \A t \in Sid, x \in Record : Stored(t, x)' => Stored(t, x) \/ (t = s /\ x = rec)
  BY <1>3, <1>4, NoneApart DEF Stored
<1>6. \A x \in Record : ~Stored(s, x)
  BY <1>1 DEF IInv, Windows
<1>7. \A x \in Cookie : Issued(x)' => x = c \/ (Issued(x) /\ x.sid # s)
  <2>1. \A x \in Cookie : Issued(x) => x.sid # s
    BY <1>1 DEF IInv, Capped
  <2>2. \A d \in Browser : cookie'[d] \in {cookie[d], c}
    BY <1>1 DEF IInv, TypeOK
  <2> QED
    BY <1>1, <2>1, <2>2 DEF Issued
<1>8. used' \in [Sid -> Time \cup {None}] /\ used'[s] = clock /\ clock # None
      /\ \A t \in Sid : t # s => used'[t] = used[t]
  BY <1>1, <1>2, NoneApart DEF IInv, TypeOK
<1>9. TypeOK' /\ Busy'
  BY <1>1, <1>2, <1>4, <1>8 DEF IInv, TypeOK, Busy
<1>10. Windows' /\ SameBirth'
  <2>1. InWindow(rec)
    BY <1>2 DEF InWindow
  <2>2. \A x \in Record : InWindow(x)' <=> InWindow(x)
    BY DEF InWindow
  <2>3. Windows'
    BY <1>5, <1>8, <2>1, <2>2 DEF IInv, Windows
  <2>4. SameBirth'
    BY <1>5, <1>6 DEF IInv, SameBirth
  <2> QED
    BY <2>3, <2>4
<1>11. Throttled'
  <2>1. \A t \in Sid : t # s /\ records'[t] # None => records'[t] = records[t]
    BY <1>3, <1>4
  <2>2. records'[s] # None => used'[s] <= records'[s].lastSeen + Touch
    BY <1>2, <1>3, <1>4, <1>8, SessionsAssumption DEF Time
  <2> QED
    BY <1>8, <2>1, <2>2 DEF IInv, Throttled
<1>12. Capped'
  BY <1>2, <1>5, <1>6, <1>7, <1>8 DEF IInv, Capped, Cookie
<1>13. Forgotten'
  <2>1. s \notin ended
    BY <1>1 DEF IInv, Forgotten
  <2> QED
    BY <1>1, <1>3, <1>4, <1>8, <2>1 DEF IInv, TypeOK, Forgotten
<1> QED
  BY <1>9, <1>10, <1>11, <1>12, <1>13 DEF IInv

\* A renewal moves a record that is there, and its cookie with it, within the cap.
LEMMA RenewInv == ASSUME IInv, NEW r \in Req, Renew(r) PROVE IInv'
<1> DEFINE s == req[r].cookie.sid
           rec == records[s]
           want == hardExpiry(rec.created, slid(rec))
           extended == want > rec.expires
           renewed == [rec EXCEPT !.lastSeen = clock, !.expires = IF extended THEN want ELSE @]
           recs == [records EXCEPT ![s] = renewed]
           c == [req[r].cookie EXCEPT !.expires = want]
<1>1. /\ pc[r] = "renewing" /\ pc' = [pc EXCEPT ![r] = "serving"]
      /\ req[r] \in Request /\ req[r].cookie \in Cookie /\ s \in Sid
      /\ UNCHANGED <<clock, loadErr, cookie, req, ended>>
  BY DEF Renew, Goto, IInv, Busy, Request, Cookie
<1>2. Busy' /\ pc' \in [Req -> ReqStep] /\ \A q \in Req : pc'[q] # "idle" => pc[q] # "idle"
  BY <1>1 DEF IInv, TypeOK, Busy, ReqStep
<1>3. CASE ~Live(s) \/ clock - rec.lastSeen < Touch
  <2>1. /\ UNCHANGED <<records, file, setCookie>>
        /\ \/ used' = used
           \/ used' = [used EXCEPT ![s] = clock] /\ clock - rec.lastSeen < Touch /\ rec # None
    BY <1>3 DEF Renew, Live, Unexpired
  <2>2. /\ used' \in [Sid -> Time \cup {None}]
        /\ \A t \in Sid : used[t] # None => used'[t] # None
    BY <2>1, NoneApart DEF IInv, TypeOK
  <2>3. TypeOK'
    BY <1>1, <1>2, <2>1, <2>2 DEF IInv, TypeOK
  <2>4. Throttled'
    <3>1. CASE used' = used
      BY <2>1, <3>1 DEF IInv, Throttled
    <3>2. CASE used' = [used EXCEPT ![s] = clock] /\ clock - rec.lastSeen < Touch /\ rec # None
      <4>1. clock <= rec.lastSeen + Touch
        BY <1>1, <3>2, SessionsAssumption DEF IInv, TypeOK, Registry, Record, Time
      <4> QED
        BY <1>1, <2>1, <3>2, <4>1 DEF IInv, Throttled, TypeOK
    <3> QED
      BY <2>1, <3>1, <3>2
  <2>5. Forgotten'
    BY <1>1, <2>1, <2>2 DEF IInv, Forgotten, TypeOK
  <2>6. \A t \in Sid, x \in Record : Stored(t, x)' => Stored(t, x)
    BY <2>1 DEF Stored
  <2>7. \A x \in Cookie : Issued(x)' => Issued(x)
    BY <1>1, <1>2, <2>1 DEF Issued
  <2> QED
    BY <1>2, <2>2, <2>3, <2>4, <2>5, <2>6, <2>7, NothingNew
<1>4. CASE Live(s) /\ ~(clock - rec.lastSeen < Touch)
  <2>1. /\ bestEffort(recs) /\ used' = [used EXCEPT ![s] = clock] /\ ~loadErr
        /\ setCookie' = [setCookie EXCEPT ![r] = IF extended THEN c ELSE None]
        /\ rec # None
    BY <1>4 DEF Renew, Live, Unexpired
  <2>2. rec \in Record /\ Stored(s, rec) /\ InWindow(rec) /\ used[s] # None /\ s \notin ended
    BY <1>1, <2>1 DEF IInv, TypeOK, Registry, Stored, Windows, Forgotten
  <2>3. /\ clock \in Time /\ want \in Deadline
        /\ (Cap > 0 => want <= rec.created + Cap)
        /\ want >= clock + Idle \/ (Cap > 0 /\ want >= rec.created + Cap)
    BY <2>2, SessionsAssumption
    DEF IInv, TypeOK, hardExpiry, slid, Min2, Time, Deadline, Record
  <2>4. /\ renewed \in Record /\ renewed.created = rec.created /\ renewed.lastSeen = clock
        /\ renewed.expires = (IF extended THEN want ELSE rec.expires)
        /\ c \in Cookie /\ c.sid = s /\ c.expires = want
    BY <1>1, <2>2, <2>3 DEF Record, Cookie
  <2>5. InWindow(renewed)
    <3>1. /\ clock \in Int /\ want \in Int /\ rec.expires \in Int /\ rec.created \in Int
          /\ Idle \in Int /\ Cap \in Int
      BY <2>2, <2>3, SessionsAssumption DEF Time, Deadline, Record
    <3>2. Cap > 0 => rec.expires <= rec.created + Cap
      BY <2>2 DEF InWindow
    <3>3. IF extended THEN renewed.expires = want
                      ELSE renewed.expires = rec.expires /\ rec.expires >= want
      BY <2>4, <3>1
    <3> HIDE DEF rec, want, extended, renewed
    <3>4. CASE extended
      BY <2>3, <2>4, <3>3, <3>4 DEF InWindow
    <3>5. CASE ~extended
      BY <2>3, <2>4, <3>1, <3>2, <3>3, <3>5 DEF InWindow
    <3> QED
      BY <3>4, <3>5
  <2>6. recs \in Registry /\ recs[s] = renewed /\ \A t \in Sid : t # s => recs[t] = records[t]
    BY <1>1, <2>4 DEF IInv, TypeOK, Registry
  <2>7. /\ records' \in Registry /\ file' \in Registry \cup {Corrupt}
        /\ \A t \in Sid : records'[t] \in {recs[t], None}
        /\ file' = file \/ file' = records'
    BY <2>1, <2>6, SaveShape
  <2>8. \A t \in Sid, x \in Record : Stored(t, x)' => Stored(t, x) \/ (t = s /\ x = renewed)
    BY <2>6, <2>7, NoneApart DEF Stored
  <2>9. \A x \in Cookie : Issued(x)' => Issued(x) \/ (x = c /\ extended)
    BY <1>1, <1>2, <2>1, NoneApart DEF Issued, IInv, TypeOK
  <2>10. /\ used' \in [Sid -> Time \cup {None}] /\ used'[s] = clock /\ clock # None
         /\ \A t \in Sid : t # s => used'[t] = used[t]
    BY <1>1, <2>1, <2>3, NoneApart DEF IInv, TypeOK
  <2>11. TypeOK'
    <3>1. setCookie' \in [Req -> Cookie \cup {None}]
      BY <2>1, <2>4 DEF IInv, TypeOK
    <3> QED
      BY <1>1, <1>2, <2>1, <2>7, <2>10, <3>1 DEF IInv, TypeOK
  <2>12. Windows' /\ SameBirth'
    <3>1. \A x \in Record : InWindow(x)' <=> InWindow(x)
      BY DEF InWindow
    <3>2. \A x \in Record : Stored(s, x) => x.created = renewed.created
      BY <1>1, <2>2, <2>4 DEF IInv, SameBirth
    <3> QED
      <4>1. Windows'
        BY <1>1, <2>2, <2>5, <2>8, <2>10, <3>1 DEF IInv, Windows
      <4>2. SameBirth'
        <5>1. \A t \in Sid, x \in Record :
                 Stored(t, x)' => IF t = s THEN x.created = rec.created ELSE Stored(t, x)
          BY <2>4, <2>8, <3>2
        <5> QED
          BY <5>1 DEF IInv, SameBirth
      <4> QED
        BY <4>1, <4>2
  <2>13. Throttled'
    <3>1. \A t \in Sid : t # s /\ records'[t] # None => records'[t] = records[t]
      BY <2>6, <2>7
    <3>2. records'[s] # None => used'[s] <= records'[s].lastSeen + Touch
      <4>1. records'[s] # None => records'[s] = renewed
        BY <1>1, <2>6, <2>7
      <4>2. clock <= clock + Touch
        BY <2>3, SessionsAssumption DEF Time
      <4> QED
        BY <2>4, <2>10, <4>1, <4>2
    <3> QED
      BY <2>10, <3>1, <3>2 DEF IInv, Throttled
  <2>14. Capped'
    <3>1. \A x \in Record : Stored(s, x) => x.created = rec.created
      BY <1>1, <2>2 DEF IInv, SameBirth
    <3>2. ASSUME NEW x \in Cookie, Issued(x)'
          PROVE  /\ used'[x.sid] # None
                 /\ Cap > 0 => \A y \in Record : Stored(x.sid, y)' => x.expires <= y.created + Cap
      <4>1. CASE Issued(x)
        BY <1>1, <2>2, <2>4, <2>8, <2>10, <3>1, <4>1 DEF IInv, Capped, Cookie
      <4>2. CASE x = c
        BY <1>1, <2>2, <2>3, <2>4, <2>8, <2>10, <3>1, <4>2
      <4> QED
        BY <2>9, <3>2, <4>1, <4>2
    <3> QED
      BY <3>2 DEF Capped
  <2>15. Forgotten'
    <3>1. ended' = ended /\ ended \subseteq Sid
      BY <1>1 DEF IInv, TypeOK
    <3>2. \A t \in ended : /\ t # s /\ used[t] # None /\ records[t] = None
                           /\ file # Corrupt => file[t] = None
      BY <1>1, <2>2 DEF IInv, Forgotten
    <3>3. \A t \in ended : records'[t] = None
      BY <2>6, <2>7, <3>1, <3>2
    <3>4. \A t \in ended : used'[t] # None
      BY <2>10, <3>1, <3>2
    <3> QED
      BY <2>7, <3>1, <3>2, <3>3, <3>4 DEF Forgotten
  <2> QED
    BY <1>2, <2>11, <2>12, <2>13, <2>14, <2>15 DEF IInv
<1> QED
  BY <1>3, <1>4

\* Ending a session takes it from memory, and from the file if it can be saved.
LEMMA EndInv ==
    ASSUME IInv, NEW r \in Req, Revoke(r) \/ Logout(r) PROVE IInv'
<1>1. /\ pc[r] # "idle" /\ pc' = [pc EXCEPT ![r] = "responding"] /\ req[r] \in Request
      /\ UNCHANGED <<clock, loadErr, cookie, req, setCookie, used>>
  BY DEF Revoke, Logout, Goto, IInv, Busy
<1>2. PICK s \in Sid :
        \/ UNCHANGED <<records, file, ended>>
        \/ LET recs == [records EXCEPT ![s] = None]
           IN  /\ records[s] # None /\ ~loadErr
               /\ \/ save(recs) /\ ended' = ended \cup {s}
                  \/ saveFails(recs) /\ UNCHANGED ended
  <2>1. req[r].id \in Sid /\ req[r].cookie.sid \in Sid
    BY <1>1 DEF Request, Cookie
  <2> QED
    BY <2>1 DEF Revoke, Logout, Owned, Live, Unexpired
<1> DEFINE recs == [records EXCEPT ![s] = None]
<1>3. /\ records' \in Registry /\ file' \in Registry \cup {Corrupt}
      /\ \A t \in Sid : records'[t] \in {records[t], None}
      /\ file' = file \/ file' = records'
      /\ ended' \subseteq Sid
      /\ \/ ended' = ended
         \/ ended' = ended \cup {s} /\ records'[s] = None /\ file'[s] = None /\ records[s] # None
  <2>1. CASE UNCHANGED <<records, file, ended>>
    BY <2>1 DEF IInv, TypeOK
  <2>2. CASE bestEffort(recs)
    <3>1. recs \in Registry /\ \A t \in Sid : recs[t] \in {records[t], None}
      BY DEF IInv, TypeOK, Registry
    <3>2. recs[s] = None
      BY DEF IInv, TypeOK, Registry
    <3>3. save(recs) => records'[s] = None /\ file'[s] = None
      BY <3>2 DEF save, prune
    <3> QED
      BY <1>2, <2>2, <3>1, <3>3, SaveShape DEF IInv, TypeOK
  <2> QED
    BY <1>2, <2>1, <2>2 DEF bestEffort
<1>4. TypeOK' /\ Busy'
  <2>1. loadErr => records' = Empty
    <3>1. loadErr => records = Empty
      BY DEF IInv, TypeOK
    <3>2. loadErr => \A t \in Sid : records'[t] = None
      BY <1>3, <3>1 DEF Empty
    <3> QED
      BY <1>3, <3>2 DEF Registry, Empty
  <2> QED
    BY <1>1, <1>3, <2>1 DEF IInv, TypeOK, Busy, ReqStep
<1>5. Forgotten'
  <2>1. records[s] # None => used[s] # None
    BY DEF IInv, Windows, Stored, TypeOK, Registry
  <2> QED
    BY <1>1, <1>3, <2>1 DEF IInv, Forgotten, TypeOK
<1>6. \A q \in Req : pc'[q] # "idle" => pc[q] # "idle" /\ req'[q] = req[q]
  BY <1>1 DEF IInv, TypeOK
<1> QED
  BY <1>1, <1>3, <1>4, <1>5, <1>6, ShrinkStep

\* A restart reads the file: what is used of a session is what the file knows.
LEMMA RestartInv == ASSUME IInv, Restart PROVE IInv'
<1>1. /\ UNCHANGED <<clock, cookie, ended>> /\ load
      /\ pc' = [r \in Req |-> "idle"] /\ req' = [r \in Req |-> None]
      /\ setCookie' = [r \in Req |-> None]
      /\ used' = [s \in Sid |-> IF Unsaved(s) THEN file[s].lastSeen ELSE used[s]]
  BY DEF Restart
<1>2. /\ records' \in Registry /\ file' \in Registry \cup {Corrupt} /\ loadErr' \in BOOLEAN
      /\ loadErr' => records' = Empty
      /\ file' = file \/ file' = records'
      /\ \A s \in Sid : records'[s] # None => file # Corrupt /\ records'[s] = file[s]
  <2>1. CASE file = Corrupt
    BY <1>1, <2>1 DEF load, Empty, IInv, TypeOK, Registry
  <2>2. CASE file # Corrupt
    <3>1. bestEffort(file) /\ file \in Registry /\ loadErr' = FALSE
      BY <1>1, <2>2 DEF load, IInv, TypeOK
    <3> QED
      BY <2>2, <3>1, SaveShape
  <2> QED
    BY <2>1, <2>2
<1>3. \A s \in Sid : Unsaved(s) => file[s] \in Record /\ file[s].lastSeen \in Time
  BY DEF IInv, TypeOK, Unsaved, Registry, Record
<1>4. /\ used' \in [Sid -> Time \cup {None}]
      /\ \A s \in Sid : used[s] # None => used'[s] # None
  BY <1>1, <1>3, NoneApart DEF IInv, TypeOK
<1>5. TypeOK' /\ Busy'
  BY <1>1, <1>2, <1>4 DEF IInv, TypeOK, Busy, ReqStep
<1>6. Throttled'
  <2> SUFFICES ASSUME NEW s \in Sid, records'[s] # None
               PROVE  used'[s] <= records'[s].lastSeen + Touch
    BY DEF Throttled
  <2>1. file # Corrupt /\ records'[s] = file[s] /\ file[s] # None
    BY <1>2
  <2>2. CASE Unsaved(s)
    BY <1>1, <1>3, <2>1, <2>2, SessionsAssumption DEF Time
  <2>3. CASE ~Unsaved(s)
    BY <1>1, <2>1, <2>3 DEF Unsaved, IInv, Throttled
  <2> QED
    BY <2>2, <2>3
<1>7. Forgotten'
  BY <1>1, <1>2, <1>4 DEF IInv, Forgotten, TypeOK
<1>8. \A s \in Sid, rec \in Record : Stored(s, rec)' => Stored(s, rec)
  BY <1>2, NoneApart DEF Stored
<1>9. \A c \in Cookie : Issued(c)' => Issued(c)
  BY <1>1, NoneApart DEF Issued
<1> QED
  BY <1>4, <1>5, <1>6, <1>7, <1>8, <1>9, NothingNew

LEMMA NextInv == IInv /\ [Next]_vars => IInv'
<1> SUFFICES ASSUME IInv, [Next]_vars PROVE IInv'
  OBVIOUS
<1>1. ASSUME NEW b \in Browser, NEW s \in Sid, NEW u \in User, Login(b, s, u) PROVE IInv'
  BY <1>1, LoginInv
<1>2. ASSUME NEW r \in Req, NEW b \in Browser, Send(r, b) PROVE IInv'
  BY <1>2, RequestStep
<1>3. ASSUME NEW r \in Req, Handler(r) PROVE IInv'
  BY <1>3, RequestStep, RenewInv, EndInv, RespondInv DEF Handler
<1>4. CASE Restart
  BY <1>4, RestartInv
<1>5. CASE Tick \/ Damage \/ Remove \/ UNCHANGED vars
  <2>1. /\ UNCHANGED <<records, loadErr, cookie, pc, req, setCookie, used, ended>>
        /\ clock' \in Time
    BY <1>5, SessionsAssumption
    DEF Tick, Damage, Remove, vars, storeVars, reqVars, historyVars, IInv, TypeOK, Time
  <2>2. /\ file' \in {file, Corrupt, Empty} /\ file' \in Registry \cup {Corrupt}
        /\ file' # file => file' = Corrupt \/ file' = Empty
    BY <1>5 DEF Tick, Damage, Remove, vars, storeVars, IInv, TypeOK, Registry, Empty
  <2>3. TypeOK' /\ Busy' /\ Throttled'
    BY <2>1, <2>2 DEF IInv, TypeOK, Busy, Throttled
  <2>4. Forgotten'
    BY <2>1, <2>2 DEF IInv, Forgotten, TypeOK, Empty
  <2>5. \A s \in Sid, rec \in Record : Stored(s, rec)' => Stored(s, rec)
    BY <2>1, <2>2, NoneApart DEF Stored, Empty
  <2>6. \A c \in Cookie : Issued(c)' => Issued(c)
    BY <2>1 DEF Issued
  <2> QED
    BY <2>1, <2>3, <2>4, <2>5, <2>6, NothingNew
<1> QED
  BY <1>1, <1>2, <1>3, <1>4, <1>5 DEF Next

-----------------------------------------------------------------------------

\* The inductive invariant holds of every behaviour.
THEOREM Invariance == Spec => []IInv
<1>1. Init => IInv
  BY InitInv
<1>2. IInv /\ [Next]_vars => IInv'
  BY NextInv
<1> QED
  BY <1>1, <1>2, PTL DEF Spec

\* The registry is well typed, and empty as long as it failed to load (load).
THEOREM Typed == Spec => []TypeOK
<1>1. IInv => TypeOK
  BY DEF IInv
<1> QED
  BY <1>1, Invariance, PTL

\* Whatever is renewed, lost, damaged or restarted, a session whose end was saved is
\* not live, and not in the file.
THEOREM EndsAreFinal == Spec => []EndedStaysOut
<1>1. IInv => EndedStaysOut
  BY DEF IInv, Forgotten, EndedStaysOut, Live, Unexpired
<1> QED
  BY <1>1, Invariance, PTL

\* No record's deadline, in memory or in the file, and no cookie's, is beyond its
\* session's cap.
THEOREM CapBinds == Spec => []CapHolds
<1>1. IInv => CapHolds
  <2> SUFFICES ASSUME IInv, Cap > 0 PROVE CapHolds
    BY DEF CapHolds
  <2>1. \A s \in Sid : records[s] # None => records[s] \in Record /\ Stored(s, records[s])
    BY DEF IInv, TypeOK, Registry, Stored
  <2>2. \A s \in Sid : file # Corrupt /\ file[s] # None => file[s] \in Record /\ Stored(s, file[s])
    BY DEF IInv, TypeOK, Registry, Stored
  <2>3. \A s \in Sid : WithinCap(records[s]) /\ (file # Corrupt => WithinCap(file[s]))
    BY <2>1, <2>2 DEF IInv, Windows, InWindow, WithinCap
  <2>4. \A b \in Browser : cookie[b] # None => cookie[b] \in Cookie /\ cookie[b].sid \in Sid /\ Issued(cookie[b])
    BY DEF IInv, TypeOK, Cookie, Issued
  <2> QED
    BY <2>1, <2>3, <2>4 DEF IInv, Capped, CapHolds
<1> QED
  BY <1>1, Invariance, PTL

\* A session used within the idle window, less what the throttle may hide, is live
\* until its cap.
THEOREM UseKeeps == Spec => []RecentUseKeeps
<1>1. IInv => RecentUseKeeps
  <2> SUFFICES ASSUME IInv, NEW s \in Sid, used[s] # None, records[s] # None,
                      clock < used[s] + Idle - Touch,
                      Cap > 0 => clock < records[s].created + Cap
               PROVE  Live(s)
    BY DEF RecentUseKeeps
  <2>1. records[s] \in Record /\ InWindow(records[s]) /\ ~loadErr
    BY DEF IInv, TypeOK, Registry, Windows, Stored, Empty
  <2>2. used[s] \in Time /\ used[s] <= records[s].lastSeen + Touch
    BY DEF IInv, TypeOK, Throttled
  <2>3. clock < records[s].expires
    BY <2>1, <2>2, SessionsAssumption DEF InWindow, Record, Time, Deadline, IInv, TypeOK
  <2> QED
    BY <2>1, <2>3 DEF Live, Unexpired
<1> QED
  BY <1>1, Invariance, PTL
=============================================================================
