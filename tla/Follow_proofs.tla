---------------------------- MODULE Follow_proofs ----------------------------
(***************************************************************************)
(* The directory shows whole views, backs off after a failure and loses no *)
(* sighting, for any entries, pages, callers and observers; and a client   *)
(* at rest has forgotten no change, for any files, writes and failures.    *)
(***************************************************************************)
EXTENDS Follow, FiniteSetTheorems, WellFoundedInduction, TLAPS

\* After a failure the cache counts as fresh until errorTTL has passed.
BackOff == quiet < errorTTL => loaded /\ left + quiet >= errorTTL

\* A refresh has what was there all along on the pages it has seen, and nothing
\* that never was.
Refreshing ==
    \A c \in Caller :
        IF pc[c] = "fetch"
        THEN /\ always \subseteq active /\ active \subseteq ever /\ ever \subseteq Entry
             /\ got[c] \subseteq ever
             /\ \A p \in always : \A i \in DOMAIN Page : i < page[c] /\ p \in Page[i] => p \in got[c]
        ELSE got[c] = {} /\ page[c] = 1

\* What an observer has read under the mutex is the file, until it is damaged, and
\* the file has every sighting.
Registered ==
    /\ \A o \in Observer : seen[o] # None <=> mu = o
    /\ ~damaged => /\ file # Corrupt /\ observed \subseteq file
                   /\ \A o \in Observer : seen[o] # None => observed \subseteq seen[o]

\* What had been saved when a caller asked is in what it has read since, and its
\* answer has of that what it should.
Hears(c) ==
    /\ had[c] \subseteq observed
    /\ pc[c] # "idle" => asked[c] \in Query
    /\ pc[c] \notin {"idle", "registry", "answered"} /\ ~damaged => had[c] \subseteq base[c]
    /\ pc[c] = "answered" /\ ~damaged => Suggested(c)
Heard == \A c \in Caller : Hears(c)

IInv == TypeOK /\ BackOff /\ BacksOff /\ Refreshing /\ Registered /\ Heard

-----------------------------------------------------------------------------

LEMMA PagesType ==
           /\ Len(Page) \in Nat /\ DOMAIN Page = 1 .. Len(Page) /\ 1 \in DOMAIN Page
           /\ \A i \in DOMAIN Page : Page[i] \subseteq Entry
  BY DirectoryAssumption

\* Of some natural numbers one is the least.
LEMMA LeastNat ==
    ASSUME NEW T \in SUBSET Nat, T # {}
    PROVE  \E m \in T : \A n \in T : m <= n
<1> DEFINE R == {ss \in Nat \X Nat : ss[1] < ss[2]}
<1>1. IsWellFoundedOn(R, Nat)
  BY NatLessThanWellFounded DEF OpToRel
<1>2. \E x \in T : \A y \in T : ~ (<<y, x>> \in R)
  BY <1>1, WFMin
<1>3. \A x, y \in T : ~(<<y, x>> \in R) => x <= y
  OBVIOUS
<1> QED
  BY <1>2, <1>3

\* In a set of entries one is the first, and one is the last.
LEMMA FirstAndLast ==
    ASSUME NEW M \in SUBSET Entry, M # {}
    PROVE  /\ \E p \in M : \A r \in M : Rank[p] <= Rank[r]
           /\ \E p \in M : \A r \in M : Rank[r] <= Rank[p]
<1>1. \A r \in M : Rank[r] \in Nat
  BY DirectoryAssumption
<1>2. \E p \in M : \A r \in M : Rank[p] <= Rank[r]
  <2> DEFINE T == {Rank[r] : r \in M}
  <2>1. T \in SUBSET Nat /\ T # {}
    BY <1>1
  <2>2. PICK m \in T : \A n \in T : m <= n
    <3> HIDE DEF T
    <3> QED BY <2>1, LeastNat
  <2> QED
    BY <2>2
<1>3. \E p \in M : \A r \in M : Rank[r] <= Rank[p]
  <2> DEFINE After(p) == {r \in M : Rank[p] < Rank[r]}
             T == {Cardinality(After(r)) : r \in M}
  <2>1. \A p \in M : IsFiniteSet(After(p)) /\ Cardinality(After(p)) \in Nat
    <3>1. IsFiniteSet(M)
      BY DirectoryAssumption, FS_Subset
    <3>2. \A p \in M : After(p) \subseteq M
      OBVIOUS
    <3> QED
      BY <3>1, <3>2, FS_Subset, FS_CardinalityType
  <2>2. T \in SUBSET Nat /\ T # {}
    BY <2>1
  <2>3. PICK m \in T : \A n \in T : m <= n
    <3> HIDE DEF T
    <3> QED BY <2>2, LeastNat
  <2>4. PICK p \in M : \A r \in M : Cardinality(After(p)) <= Cardinality(After(r))
    BY <2>3
  <2>5. ASSUME NEW r \in M, ~(Rank[r] <= Rank[p]) PROVE FALSE
    <3>1. Rank[p] < Rank[r]
      BY <1>1, <2>5
    <3>2. After(r) \subseteq After(p) /\ r \in After(p) /\ r \notin After(r)
      BY <1>1, <3>1
    <3>3. Cardinality(After(r)) < Cardinality(After(p))
      <4> HIDE DEF After
      <4> QED BY <2>1, <3>2, FS_Subset
    <3> HIDE DEF After
    <3> QED BY <2>1, <2>4, <3>3
  <2> QED
    BY <2>5
<1> QED
  BY <1>2, <1>3

\* What is suggested of M: nothing else, no more than the cap, and in place of an entry
\* as many as the cap that come before it (handlePrincipals).
LEMMA Capped ==
    ASSUME NEW M \in SUBSET Entry
    PROVE  /\ suggestions(M) \subseteq M
           /\ Cardinality(suggestions(M)) <= maxPrincipalSuggestions
           /\ \A p \in M \ suggestions(M) :
                 Cardinality(Before(suggestions(M), p)) >= maxPrincipalSuggestions
<1> DEFINE A == suggestions(M)
<1>1. A \subseteq M /\ \A r \in M : Rank[r] \in Nat
  BY DirectoryAssumption DEF suggestions
<1>2. \A S \in SUBSET M : IsFiniteSet(S) /\ Cardinality(S) \in Nat
  BY DirectoryAssumption, FS_Subset, FS_CardinalityType
<1>3. \A S, T \in SUBSET M : S \subseteq T => Cardinality(S) <= Cardinality(T)
  BY <1>2, FS_Subset
<1>4. maxPrincipalSuggestions \in Nat \ {0}
  BY DirectoryAssumption
<1>5. \A r \in M : r \in A <=> Cardinality(Before(M, r)) < maxPrincipalSuggestions
  BY DEF suggestions
<1>6. \A p \in M : Before(M, p) \subseteq M /\ Before(A, p) \subseteq M
  BY <1>1 DEF Before
<1> HIDE DEF A
<1>7. Cardinality(A) <= maxPrincipalSuggestions
  <2>1. CASE A = {}
    BY <1>4, <2>1, FS_EmptySet
  <2>2. CASE A # {}
    <3>1. PICK p \in A : \A r \in A : Rank[r] <= Rank[p]
      BY <1>1, <2>2, FirstAndLast
    <3>2. A \subseteq Before(M, p) \cup {p}
      <4>1. \A r \in A : Rank[r] < Rank[p] \/ r = p
        BY <1>1, <3>1, DirectoryAssumption
      <4> QED
        BY <1>1, <4>1 DEF Before
    <3>3. Before(M, p) \cup {p} \in SUBSET M /\ p \notin Before(M, p)
      BY <1>1, <1>6, <3>1 DEF Before
    <3>4. Cardinality(Before(M, p) \cup {p}) = Cardinality(Before(M, p)) + 1
      BY <1>1, <1>2, <1>6, <3>1, <3>3, FS_AddElement
    <3>5. Cardinality(A) <= Cardinality(Before(M, p) \cup {p})
      BY <1>1, <1>3, <3>2, <3>3
    <3>6. /\ Cardinality(Before(M, p)) \in Nat /\ Cardinality(A) \in Nat
          /\ Cardinality(Before(M, p)) < maxPrincipalSuggestions
      BY <1>1, <1>2, <1>5, <1>6, <3>1
    <3> QED
      BY <1>4, <3>4, <3>5, <3>6
  <2> QED
    BY <2>1, <2>2
<1>8. ASSUME NEW p \in M, p \notin A, ~(Cardinality(Before(A, p)) >= maxPrincipalSuggestions)
      PROVE  FALSE
  <2>1. Cardinality(Before(A, p)) < maxPrincipalSuggestions
    BY <1>2, <1>4, <1>6, <1>8
  <2>2. Before(M, p) \ A # {}
    <3>1. CASE Before(M, p) \subseteq A
      <4>1. Before(M, p) \subseteq Before(A, p)
        BY <3>1 DEF Before
      <4>2. Cardinality(Before(M, p)) <= Cardinality(Before(A, p))
        BY <1>3, <1>6, <4>1
      <4>3. Cardinality(Before(M, p)) < maxPrincipalSuggestions
        BY <1>2, <1>4, <1>6, <2>1, <4>2
      <4> QED
        BY <1>5, <1>8, <4>3
    <3> QED
      BY <3>1
  <2>3. PICK r \in Before(M, p) \ A : \A t \in Before(M, p) \ A : Rank[r] <= Rank[t]
    <3>1. Before(M, p) \ A \in SUBSET Entry
      BY <1>6
    <3> QED
      BY <2>2, <3>1, FirstAndLast
  <2>4. r \in M /\ Rank[r] < Rank[p]
    BY <2>3 DEF Before
  <2>5. Before(M, r) \subseteq Before(A, p)
    <3>1. ASSUME NEW t \in Before(M, r) PROVE t \in Before(A, p)
      <4>1. t \in M /\ Rank[t] < Rank[r] /\ Rank[t] < Rank[p]
        BY <1>1, <2>4, <3>1 DEF Before
      <4>2. t \in Before(M, p) /\ ~(Rank[r] <= Rank[t])
        BY <1>1, <2>4, <4>1 DEF Before
      <4>3. t \in A
        BY <2>3, <4>2
      <4> QED
        BY <4>1, <4>3 DEF Before
    <3> QED
      BY <3>1
  <2>6. Cardinality(Before(M, r)) <= Cardinality(Before(A, p))
    BY <1>3, <1>6, <2>4, <2>5
  <2>7. Cardinality(Before(M, r)) < maxPrincipalSuggestions
    BY <1>2, <1>4, <1>6, <2>1, <2>4, <2>6
  <2> QED
    BY <1>5, <2>3, <2>4, <2>7
<1>9. \A p \in M \ A : Cardinality(Before(A, p)) >= maxPrincipalSuggestions
  BY <1>8
<1> QED
  BY <1>1, <1>7, <1>9 DEF A

\* A caller has what it had, and an answer stays what it is.
LEMMA HearsOn ==
    ASSUME NEW c \in Caller, Hears(c), observed \subseteq observed', damaged => damaged',
           pc'[c] = pc[c], base'[c] = base[c], asked'[c] = asked[c], had'[c] = had[c]
    PROVE  Hears(c)'
<1>1. PICK b, q, h, k : b = base[c] /\ q = asked[c] /\ h = had[c] /\ k = pc[c]
  OBVIOUS
<1>2. b = base'[c] /\ q = asked'[c] /\ h = had'[c] /\ k = pc'[c]
  BY <1>1
<1> QED
  BY <1>1, <1>2 DEF Hears, Suggested, Before

LEMMA InitInv == Init => IInv
<1> SUFFICES ASSUME Init PROVE IInv
  OBVIOUS
<1>1. TypeOK
  <2>1. /\ TTL \in Nat /\ errorTTL \in Nat /\ None \notin Caller
        /\ 0 \in 0 .. TTL /\ errorTTL \in 0 .. errorTTL
    BY DirectoryAssumption
  <2> QED
    BY <2>1, PagesType DEF Init, TypeOK
<1>2. BackOff /\ BacksOff /\ Refreshing
  BY DirectoryAssumption DEF Init, BackOff, BacksOff, Refreshing
<1>3. Registered /\ Heard
  BY DirectoryAssumption DEF Init, Registered, Heard, Hears
<1> QED
  BY <1>1, <1>2, <1>3 DEF IInv

\* The registry's part moves by itself.
LEMMA RegistryStep ==
    ASSUME IInv,
           \/ \E o \in Observer : ObserveRead(o) \/ ObserveSave(o)
           \/ Damage
    PROVE  IInv'
<1>1. UNCHANGED <<authentikVars, cacheVars, fetchMu, callerVars, quiet, windowVars>>
  BY DEF ObserveRead, ObserveSave, Damage
<1>2. BackOff' /\ BacksOff' /\ Refreshing'
  BY <1>1 DEF IInv, BackOff, BacksOff, Refreshing, authentikVars, cacheVars, callerVars, windowVars
<1>3. observed \subseteq observed' /\ (damaged => damaged')
  BY DEF ObserveRead, ObserveSave, Damage
<1>4. Heard'
  BY <1>1, <1>3, HearsOn DEF IInv, Heard, callerVars
<1>5. ASSUME NEW o \in Observer, ObserveRead(o) PROVE TypeOK' /\ Registered'
  <2>1. /\ mu = None /\ mu' = o /\ seen' = [seen EXCEPT ![o] = load] /\ load \subseteq Entry
        /\ UNCHANGED <<file, observed, damaged>>
    BY <1>5 DEF ObserveRead, load, IInv, TypeOK
  <2>2. load # None /\ o # None
    BY <2>1, DirectoryAssumption
  <2>3. TypeOK'
    BY <1>1, <2>1 DEF IInv, TypeOK, authentikVars, cacheVars, callerVars, windowVars
  <2>4. Registered'
    <3>1. \A q \in Observer : q # None
      BY DirectoryAssumption
    <3>2. \A q \in Observer : seen'[q] = IF q = o THEN load ELSE None
      BY <2>1, <3>1 DEF IInv, TypeOK, Registered
    <3>3. ~damaged => load = file
      BY DEF IInv, Registered, load
    <3> QED
      BY <2>1, <2>2, <3>2, <3>3 DEF IInv, Registered
  <2> QED
    BY <2>3, <2>4
<1>6. ASSUME NEW o \in Observer, ObserveSave(o) PROVE TypeOK' /\ Registered'
  <2>1. PICK p \in Entry :
          \/ file' = seen[o] \cup {p} /\ observed' = observed \cup {p}
          \/ UNCHANGED <<file, observed>>
    BY <1>6 DEF ObserveSave
  <2>2. /\ mu = o /\ mu' = None /\ seen' = [seen EXCEPT ![o] = None] /\ UNCHANGED damaged
        /\ seen[o] \subseteq Entry /\ o # None
    BY <1>6, DirectoryAssumption DEF ObserveSave, IInv, TypeOK, Registered
  <2>3. \A q \in Observer : seen'[q] = None
    BY <2>2 DEF IInv, TypeOK, Registered
  <2>4. TypeOK'
    BY <1>1, <2>1, <2>2 DEF IInv, TypeOK, authentikVars, cacheVars, callerVars, windowVars
  <2>5. file' # Corrupt \/ file' = file
    BY <2>1, <2>2, DirectoryAssumption
  <2>6. Registered'
    BY <1>6, <2>1, <2>2, <2>3, <2>5, DirectoryAssumption DEF ObserveSave, IInv, Registered
  <2> QED
    BY <2>4, <2>6
<1>7. CASE Damage
  <2>1. TypeOK'
    BY <1>1, <1>7 DEF Damage, IInv, TypeOK, authentikVars, cacheVars, callerVars, windowVars
  <2> QED
    BY <1>2, <1>4, <1>7, <2>1 DEF Damage, IInv, Registered
<1> QED
  BY <1>2, <1>4, <1>5, <1>6, <1>7 DEF IInv

LEMMA RegistryQuiet == IInv /\ UNCHANGED registryVars => Registered'
  BY DEF IInv, Registered, registryVars

\* The steps before and after the directory is looked at.
LEMMA AskStep ==
    ASSUME IInv, NEW c \in Caller, Ask(c) \/ RegistryList(c) \/ Answer(c)
    PROVE  IInv'
<1>1. /\ UNCHANGED <<authentikVars, cacheVars, fetchMu, page, got, registryVars, quiet, windowVars>>
      /\ pc[c] \notin {"fetch", "recheck"}
      /\ \E step \in {"registry", "list", "answered"} : pc' = [pc EXCEPT ![c] = step]
  BY DEF Ask, RegistryList, Answer, Goto
<1>2. /\ base' \in [Caller -> SUBSET Entry] /\ had' \in [Caller -> SUBSET Entry]
      /\ asked' \in [Caller -> Query \cup {None}]
      /\ \A d \in Caller : d # c => base'[d] = base[d] /\ had'[d] = had[d] /\ asked'[d] = asked[d]
  <2>1. CASE Ask(c)
    BY <2>1 DEF Ask, IInv, TypeOK
  <2>2. CASE RegistryList(c)
    BY <2>2 DEF RegistryList, IInv, TypeOK, load
  <2>3. CASE Answer(c)
    <3>1. PICK M \in SUBSET Entry : base' = [base EXCEPT ![c] = suggestions(M)]
      BY <2>3 DEF Answer, IInv, TypeOK
    <3>2. suggestions(M) \in SUBSET Entry
      BY Capped
    <3> QED
      BY <2>3, <3>1, <3>2 DEF Answer, IInv, TypeOK
  <2> QED
    BY <2>1, <2>2, <2>3
<1>3. TypeOK'
  BY <1>1, <1>2 DEF IInv, TypeOK, authentikVars, cacheVars, registryVars
<1>4. BackOff' /\ BacksOff'
  BY <1>1 DEF IInv, TypeOK, BackOff, BacksOff, cacheVars
<1>5. Refreshing'
  BY <1>1 DEF IInv, TypeOK, Refreshing, authentikVars, windowVars
<1>6. Registered'
  BY <1>1, RegistryQuiet
<1>7. Heard'
  <2>1. ~damaged => load = file /\ observed \subseteq file
    BY DEF IInv, Registered, load
  <2>2. ASSUME NEW d \in Caller, d # c PROVE Hears(d)'
    BY <1>1, <1>2, <2>2, HearsOn DEF IInv, TypeOK, Heard, registryVars
  <2>3. CASE Ask(c)
    BY <2>2, <2>3 DEF Ask, Goto, IInv, TypeOK, Heard, Hears, registryVars
  <2>4. CASE RegistryList(c)
    BY <2>1, <2>2, <2>4 DEF RegistryList, Goto, IInv, TypeOK, Heard, Hears, registryVars
  <2>5. CASE Answer(c)
    <3>1. PICK named \in SUBSET ByName[asked[c]] :
             base' = [base EXCEPT ![c] = suggestions(base[c] \cap (ByEmail[asked[c]] \cup named))]
      BY <2>5 DEF Answer
    <3> DEFINE M == base[c] \cap (ByEmail[asked[c]] \cup named)
    <3>2. /\ pc[c] = "listed" /\ pc' = [pc EXCEPT ![c] = "answered"]
          /\ UNCHANGED <<asked, had, observed, damaged>>
      BY <2>5 DEF Answer, Goto, registryVars
    <3>3. /\ asked[c] \in Query /\ had[c] \subseteq observed
          /\ ~damaged => had[c] \subseteq base[c]
      BY <3>2 DEF IInv, Heard, Hears
    <3>4. M \in SUBSET Entry /\ base'[c] = suggestions(M) /\ pc'[c] = "answered"
      BY <3>1, <3>2 DEF IInv, TypeOK
    <3>5. ~damaged => had[c] \cap ByEmail[asked[c]] \subseteq M
      BY <3>3
    <3>6. M \subseteq ByEmail[asked[c]] \cup ByName[asked[c]]
      OBVIOUS
    <3> HIDE DEF M
    <3>7. /\ base'[c] \subseteq M /\ Cardinality(base'[c]) <= maxPrincipalSuggestions
          /\ \A p \in M \ base'[c] : Cardinality({r \in base'[c] : Rank[r] < Rank[p]}) >= maxPrincipalSuggestions
      BY <3>4, Capped DEF Before
    <3>8. ~damaged => Suggested(c)'
      BY <3>2, <3>5, <3>6, <3>7 DEF Suggested, Before
    <3>9. Hears(c)'
      BY <3>2, <3>3, <3>4, <3>8 DEF Hears
    <3> QED
      BY <2>2, <3>9 DEF Heard
  <2> QED
    BY <2>3, <2>4, <2>5
<1> QED
  BY <1>3, <1>4, <1>5, <1>6, <1>7 DEF IInv

LEMMA FinishType ==
    ASSUME IInv, NEW c \in Caller, NEW D \in SUBSET Entry, Finish(c, D)
    PROVE  /\ base' = [base EXCEPT ![c] = base[c] \cup D] /\ base' \in [Caller -> SUBSET Entry]
           /\ got' \in [Caller -> SUBSET Entry] /\ page' \in [Caller -> DOMAIN Page]
           /\ pc' = [pc EXCEPT ![c] = "listed"]
           /\ got'[c] = {} /\ page'[c] = 1 /\ pc'[c] = "listed"
           /\ base[c] \subseteq base'[c]
           /\ \A d \in Caller : d # c => /\ got'[d] = got[d] /\ page'[d] = page[d] /\ pc'[d] = pc[d]
                                       /\ base'[d] = base[d]
  BY PagesType DEF Finish, merged, Goto, IInv, TypeOK

\* A look at the cache, and the wait for the one refresh.
LEMMA LookStep ==
    ASSUME IInv, NEW c \in Caller, Check(c) \/ LockFetch(c)
    PROVE  IInv'
<1>1. /\ UNCHANGED <<authentikVars, cacheVars, asked, had, registryVars, quiet, windowVars>>
      /\ pc[c] \in {"list", "wait"} /\ pc'[c] \in {"listed", "wait", "recheck"}
      /\ pc' = [pc EXCEPT ![c] = pc'[c]]
      /\ \/ Finish(c, cached) /\ UNCHANGED fetchMu
         \/ UNCHANGED <<base, got, page>>
      /\ \/ fetchMu' = fetchMu /\ pc'[c] # "recheck"
         \/ fetchMu = None /\ fetchMu' = c /\ pc'[c] = "recheck"
  BY DEF Check, LockFetch, Finish, Goto, IInv, TypeOK
<1>2. /\ base' \in [Caller -> SUBSET Entry] /\ got' \in [Caller -> SUBSET Entry]
      /\ page' \in [Caller -> DOMAIN Page]
      /\ \A d \in Caller : base[d] \subseteq base'[d]
      /\ \A d \in Caller : d # c => got'[d] = got[d] /\ page'[d] = page[d] /\ base'[d] = base[d]
      /\ got'[c] = {} /\ page'[c] = 1
  <2>1. cached \in SUBSET Entry
    BY DEF IInv, TypeOK
  <2>2. CASE Finish(c, cached)
    BY <2>1, <2>2, FinishType DEF IInv, TypeOK
  <2>3. CASE UNCHANGED <<base, got, page>>
    BY <1>1, <2>3 DEF IInv, TypeOK, Refreshing
  <2> QED
    BY <1>1, <2>2, <2>3
<1>3. TypeOK'
  <2>1. \A d \in Caller : d # None
    BY DirectoryAssumption
  <2>2. \A d \in Caller : pc'[d] \in {"recheck", "fetch"} <=> fetchMu' = d
    BY <1>1, <2>1 DEF IInv, TypeOK
  <2>3. /\ pc' \in [Caller -> {"idle", "registry", "list", "wait", "recheck", "fetch", "listed", "answered"}]
        /\ fetchMu' \in Caller \cup {None}
    BY <1>1 DEF IInv, TypeOK
  <2> QED
    BY <1>1, <1>2, <2>2, <2>3 DEF IInv, TypeOK, authentikVars, cacheVars, registryVars
<1>4. BackOff' /\ BacksOff'
  BY <1>1 DEF IInv, TypeOK, BackOff, BacksOff, cacheVars
<1>5. Refreshing'
  BY <1>1, <1>2 DEF IInv, TypeOK, Refreshing, authentikVars, windowVars
<1>6. Registered'
  BY <1>1, RegistryQuiet
<1>7. Heard'
  <2>1. ASSUME NEW d \in Caller, d # c PROVE Hears(d)'
    BY <1>1, <1>2, <2>1, HearsOn DEF IInv, TypeOK, Heard, registryVars
  <2>2. Hears(c)'
    BY <1>1, <1>2 DEF IInv, TypeOK, Heard, Hears, registryVars
  <2> QED
    BY <2>1, <2>2 DEF Heard
<1> QED
  BY <1>3, <1>4, <1>5, <1>6, <1>7 DEF IInv

\* Who holds the refresh finds the cache fresh, or begins.
LEMMA RecheckStep ==
    ASSUME IInv, NEW c \in Caller, Recheck(c)
    PROVE  IInv'
<1>1. /\ pc[c] = "recheck" /\ fetchMu = c
      /\ \A d \in Caller : d # c => pc[d] # "fetch"
      /\ UNCHANGED <<authentikVars, cacheVars, asked, had, registryVars, quiet>>
  BY DEF Recheck, IInv, TypeOK
<1>2. Registered'
  BY <1>1, RegistryQuiet
<1>3. CASE Fresh
  <2>1. fetchMu' = None /\ Finish(c, cached) /\ UNCHANGED windowVars /\ cached \in SUBSET Entry
    BY <1>3 DEF Recheck, Refreshed, IInv, TypeOK
  <2>2. TypeOK'
    <3>1. \A d \in Caller : d # None
      BY DirectoryAssumption
    <3>2. \A d \in Caller : pc'[d] = IF d = c THEN "listed" ELSE pc[d]
      BY <2>1, FinishType
    <3>3. \A d \in Caller : pc'[d] \in {"recheck", "fetch"} <=> fetchMu' = d
      BY <1>1, <2>1, <3>1, <3>2 DEF IInv, TypeOK
    <3> QED
      BY <1>1, <2>1, <3>3, FinishType
      DEF IInv, TypeOK, authentikVars, cacheVars, registryVars, windowVars
  <2>3. BackOff' /\ BacksOff'
    BY <1>1, <2>1, FinishType DEF IInv, BackOff, BacksOff, cacheVars
  <2>4. Refreshing'
    BY <1>1, <2>1, FinishType DEF IInv, Refreshing, authentikVars, windowVars
  <2>5. Heard'
    <3>1. ASSUME NEW d \in Caller, d # c PROVE Hears(d)'
      BY <1>1, <2>1, <3>1, FinishType, HearsOn DEF IInv, Heard, registryVars
    <3>2. Hears(c)'
      BY <1>1, <2>1, FinishType DEF IInv, Heard, Hears, registryVars
    <3> QED
      BY <3>1, <3>2 DEF Heard
  <2> QED
    BY <1>2, <2>2, <2>3, <2>4, <2>5 DEF IInv
<1>4. CASE ~Fresh
  <2>1. /\ pc' = [pc EXCEPT ![c] = "fetch"] /\ UNCHANGED <<fetchMu, base, got, page>>
        /\ always' = active /\ ever' = active
    BY <1>4 DEF Recheck, Refreshed, Goto
  <2>2. TypeOK'
    BY <1>1, <2>1 DEF IInv, TypeOK, authentikVars, cacheVars, registryVars
  <2>3. quiet = errorTTL
    <3>1. quiet \in Nat /\ left \in Nat /\ errorTTL \in Nat /\ quiet <= errorTTL
      BY DirectoryAssumption DEF IInv, TypeOK
    <3> QED
      BY <1>4, <3>1 DEF IInv, BackOff, Fresh
  <2>4. BackOff' /\ BacksOff'
    BY <1>1, <2>1, <2>3 DEF IInv, TypeOK, BackOff, BacksOff, cacheVars
  <2>5. Refreshing'
    <3>1. got[c] = {} /\ page[c] = 1 /\ active \subseteq Entry
      BY <1>1 DEF IInv, TypeOK, Refreshing
    <3>2. \A i \in DOMAIN Page : ~(i < 1)
      BY PagesType
    <3> QED
      BY <1>1, <2>1, <3>1, <3>2 DEF IInv, TypeOK, Refreshing, authentikVars
  <2>6. Heard'
    <3>1. ASSUME NEW d \in Caller, d # c PROVE Hears(d)'
      BY <1>1, <2>1, <3>1, HearsOn DEF IInv, TypeOK, Heard, registryVars
    <3>2. Hears(c)'
      BY <1>1, <2>1 DEF IInv, TypeOK, Heard, Hears, registryVars
    <3> QED
      BY <3>1, <3>2 DEF Heard
  <2> QED
    BY <1>2, <2>2, <2>4, <2>5, <2>6 DEF IInv
<1> QED
  BY <1>3, <1>4

\* A refresh ends: the cache has a new deadline, and the refresh is free.
LEMMA StoreStep ==
    ASSUME IInv, NEW c \in Caller, NEW D \in SUBSET Entry,
           NEW time \in {TTL, errorTTL}, Store(c, D, time), pc[c] = "fetch",
           quiet' \in {0, quiet}, UNCHANGED <<authentikVars, asked, had, registryVars>>
    PROVE  IInv'
<1>1. /\ cached' = D /\ loaded' = TRUE /\ left' = time /\ fetchMu' = None /\ Finish(c, D)
      /\ always' = {} /\ ever' = {}
  BY DEF Store
<1>2. /\ fetchMu = c /\ \A d \in Caller : d # c => pc[d] \notin {"fetch", "recheck"}
  BY DEF IInv, TypeOK
<1>3. \A d \in Caller : pc'[d] \notin {"fetch", "recheck"}
  BY <1>1, <1>2, FinishType
<1>4. TypeOK'
  <2>1. /\ time \in 0 .. TTL /\ quiet' \in 0 .. errorTTL /\ \A d \in Caller : d # None
        /\ pc' \in [Caller -> {"idle", "registry", "list", "wait", "recheck", "fetch", "listed", "answered"}]
    <3>1. time \in 0 .. TTL
      BY DirectoryAssumption
    <3>2. quiet' \in 0 .. errorTTL
      BY DirectoryAssumption DEF IInv, TypeOK
    <3>3. \A d \in Caller : d # None
      BY DirectoryAssumption
    <3> QED
      BY <1>1, <3>1, <3>2, <3>3, FinishType DEF IInv, TypeOK
  <2>2. \A d \in Caller : pc'[d] \in {"recheck", "fetch"} <=> fetchMu' = d
    BY <1>1, <1>3, <2>1
  <2> QED
    BY <1>1, <2>1, <2>2, FinishType DEF IInv, TypeOK, authentikVars, registryVars
<1>5. BackOff'
  <2>1. time >= errorTTL /\ time \in Nat /\ quiet' \in Nat /\ errorTTL \in Nat
    BY DirectoryAssumption DEF IInv, TypeOK
  <2>2. left' + quiet' >= errorTTL
    <3>1. \A t, q, e \in Nat : t >= e => t + q >= e
      OBVIOUS
    <3>2. left' = time
      BY <1>1
    <3> QED
      BY ONLY <2>1, <3>1, <3>2
  <2>3. loaded'
    BY <1>1
  <2> QED
    BY <2>2, <2>3 DEF BackOff
<1>6. BacksOff'
  BY <1>3 DEF BacksOff
<1>7. Refreshing'
  BY <1>1, <1>2, <1>3, FinishType DEF IInv, Refreshing
<1>8. Registered'
  BY RegistryQuiet
<1>9. Heard'
  <2>1. ASSUME NEW d \in Caller, d # c PROVE Hears(d)'
    BY <1>1, <2>1, FinishType, HearsOn DEF IInv, Heard, registryVars
  <2>2. Hears(c)'
    BY <1>1, FinishType DEF IInv, Heard, Hears, registryVars
  <2> QED
    BY <2>1, <2>2 DEF Heard
<1> QED
  BY <1>4, <1>5, <1>6, <1>7, <1>8, <1>9 DEF IInv

\* What the page that is fetched adds to what the refresh has.
LEMMA OnePageMore ==
    ASSUME IInv, NEW c \in Caller, pc[c] = "fetch"
    PROVE  LET entries == got[c] \cup (Page[page[c]] \cap active)
           IN  /\ entries \subseteq Entry /\ entries \subseteq ever
               /\ \A p \in always : \A i \in DOMAIN Page : i <= page[c] /\ p \in Page[i] => p \in entries
<1>1. /\ page[c] \in DOMAIN Page /\ got[c] \subseteq Entry /\ active \subseteq Entry
      /\ always \subseteq active /\ active \subseteq ever /\ got[c] \subseteq ever
      /\ \A p \in always : \A i \in DOMAIN Page : i < page[c] /\ p \in Page[i] => p \in got[c]
  BY DEF IInv, TypeOK, Refreshing
<1>2. \A i \in DOMAIN Page : i <= page[c] => i < page[c] \/ i = page[c]
  BY <1>1, PagesType
<1> QED
  BY <1>1, <1>2

LEMMA FetchStep ==
    ASSUME IInv, NEW c \in Caller, FetchPage(c) \/ FetchFails(c)
    PROVE  IInv'
<1>1. pc[c] = "fetch" /\ \A d \in Caller : d # c => pc[d] # "fetch"
  BY DEF FetchPage, FetchFails, IInv, TypeOK
<1> DEFINE entries == got[c] \cup (Page[page[c]] \cap active)
<1>2. /\ entries \subseteq Entry /\ entries \subseteq ever
      /\ \A p \in always : \A i \in DOMAIN Page : i <= page[c] /\ p \in Page[i] => p \in entries
  BY <1>1, OnePageMore
<1>3. CASE FetchPage(c) /\ page[c] + 1 \in DOMAIN Page
  <2>1. /\ got' = [got EXCEPT ![c] = entries] /\ page' = [page EXCEPT ![c] = page[c] + 1]
        /\ UNCHANGED <<authentikVars, cacheVars, fetchMu, pc, asked, base, had, registryVars, quiet, windowVars>>
    BY <1>3 DEF FetchPage
  <2>2. TypeOK'
    BY <1>2, <1>3, <2>1
    DEF IInv, TypeOK, authentikVars, cacheVars, registryVars, windowVars
  <2>3. BackOff' /\ BacksOff'
    BY <2>1 DEF IInv, BackOff, BacksOff, cacheVars
  <2>4. Refreshing'
    <3>1. /\ got'[c] = entries /\ page'[c] = page[c] + 1
          /\ \A d \in Caller : d # c => got'[d] = got[d] /\ page'[d] = page[d]
      BY <2>1 DEF IInv, TypeOK
    <3>2. \A i \in DOMAIN Page : i < page[c] + 1 => i <= page[c]
      BY PagesType DEF IInv, TypeOK
    <3>3. /\ always \subseteq active /\ active \subseteq ever /\ ever \subseteq Entry
          /\ UNCHANGED <<active, always, ever, pc>>
      BY <1>1, <2>1 DEF IInv, Refreshing, authentikVars, windowVars
    <3>4. got'[c] \subseteq ever
      BY <1>2, <3>1
    <3>5. \A p \in always : \A i \in DOMAIN Page : i < page'[c] /\ p \in Page[i] => p \in got'[c]
      BY <1>2, <3>1, <3>2
    <3> QED
      BY <1>1, <3>1, <3>3, <3>4, <3>5 DEF IInv, Refreshing
  <2>5. Registered'
    BY <2>1, RegistryQuiet
  <2>6. Heard'
    BY <2>1, HearsOn DEF IInv, Heard, registryVars
  <2> QED
    BY <2>2, <2>3, <2>4, <2>5, <2>6 DEF IInv
<1>4. CASE FetchPage(c) /\ page[c] + 1 \notin DOMAIN Page
  <2>1. Store(c, entries, TTL) /\ UNCHANGED <<authentikVars, asked, had, registryVars, quiet>>
    BY <1>4 DEF FetchPage
  <2> QED
    BY <1>1, <1>2, <2>1, StoreStep
<1>5. CASE FetchFails(c)
  <2>1. Store(c, cached, errorTTL) /\ quiet' = 0 /\ UNCHANGED <<authentikVars, asked, had, registryVars>>
        /\ cached \in SUBSET Entry
    BY <1>5 DEF FetchFails, kept, IInv, TypeOK
  <2> QED
    BY <1>1, <2>1, StoreStep
<1> QED
  BY <1>3, <1>4, <1>5

\* Time passes, and Authentik changes.
LEMMA WorldStep ==
    ASSUME IInv, Tick \/ Switch \/ \E p \in Entry : Toggle(p)
    PROVE  IInv'
<1>1. UNCHANGED <<may, cached, loaded, fetchMu, callerVars, registryVars>>
  BY DEF Tick, Switch, Toggle, authentikVars, cacheVars
<1>2. Registered'
  BY <1>1, RegistryQuiet
<1>3. Heard'
  BY <1>1, HearsOn DEF IInv, Heard, callerVars, registryVars
<1>4. CASE Tick
  <2>1. /\ left \in Nat /\ quiet \in Nat /\ TTL \in Nat /\ errorTTL \in Nat
        /\ left <= TTL /\ quiet <= errorTTL
    BY DirectoryAssumption DEF IInv, TypeOK
  <2>2. /\ left' = IF left > 0 THEN left - 1 ELSE left
        /\ quiet' = IF quiet < errorTTL THEN quiet + 1 ELSE quiet
        /\ UNCHANGED <<authentikVars, windowVars>>
    BY <1>4 DEF Tick
  <2>3. left' \in 0 .. TTL /\ quiet' \in 0 .. errorTTL
    BY <2>1, <2>2
  <2>4. TypeOK'
    BY <1>1, <2>2, <2>3 DEF IInv, TypeOK, authentikVars, callerVars, registryVars, windowVars
  <2>5. BackOff'
    <3>1. quiet < errorTTL => loaded /\ left + quiet >= errorTTL
      BY DEF IInv, BackOff
    <3> QED
      BY <1>1, <2>1, <2>2, <3>1 DEF BackOff
  <2>6. BacksOff'
    BY <1>1, <2>1, <2>2 DEF IInv, BacksOff, callerVars
  <2>7. Refreshing'
    BY <1>1, <2>2 DEF IInv, Refreshing, authentikVars, callerVars, windowVars
  <2> QED
    BY <1>2, <1>3, <2>4, <2>5, <2>6, <2>7 DEF IInv
<1>5. CASE Switch
  <2>1. up' = ~up /\ UNCHANGED <<active, cacheVars, quiet, windowVars>>
    BY <1>5 DEF Switch
  <2>2. TypeOK'
    BY <1>1, <2>1 DEF IInv, TypeOK, cacheVars, callerVars, registryVars
  <2>3. BackOff' /\ BacksOff' /\ Refreshing'
    BY <1>1, <2>1 DEF IInv, BackOff, BacksOff, Refreshing, cacheVars, callerVars, windowVars
  <2> QED
    BY <1>2, <1>3, <2>2, <2>3 DEF IInv
<1>6. ASSUME NEW p \in Entry, Toggle(p) PROVE IInv'
  <2>1. /\ active' = IF p \in active THEN active \ {p} ELSE active \cup {p}
        /\ UNCHANGED <<up, cacheVars, quiet>>
        /\ IF \E c \in Caller : pc[c] = "fetch"
           THEN always' = always \ {p} /\ ever' = ever \cup {p} ELSE UNCHANGED windowVars
    BY <1>6 DEF Toggle
  <2>2. TypeOK'
    BY <1>1, <2>1 DEF IInv, TypeOK, cacheVars, callerVars, registryVars
  <2>3. BackOff' /\ BacksOff'
    BY <1>1, <2>1 DEF IInv, BackOff, BacksOff, cacheVars, callerVars
  <2>4. Refreshing'
    BY <1>1, <2>1 DEF IInv, Refreshing, callerVars
  <2> QED
    BY <1>2, <1>3, <2>2, <2>3, <2>4 DEF IInv
<1> QED
  BY <1>4, <1>5, <1>6

LEMMA NextInv == IInv /\ [Next]_vars => IInv'
<1> SUFFICES ASSUME IInv, [Next]_vars PROVE IInv'
  OBVIOUS
<1>1. ASSUME NEW c \in Caller, Ask(c) \/ Proceed(c) \/ LockFetch(c) PROVE IInv'
  BY <1>1, AskStep, LookStep, RecheckStep, FetchStep DEF Proceed
<1>2. CASE UNCHANGED vars
  <2>1. TypeOK' /\ BackOff' /\ BacksOff'
    BY <1>2 DEF IInv, TypeOK, BackOff, BacksOff, vars, authentikVars, cacheVars, callerVars, registryVars
  <2>2. Refreshing' /\ Registered'
    BY <1>2 DEF IInv, Refreshing, Registered, vars, authentikVars, callerVars, registryVars, windowVars
  <2>3. Heard'
    BY <1>2, HearsOn DEF IInv, Heard, vars, callerVars, registryVars
  <2> QED
    BY <2>1, <2>2, <2>3 DEF IInv
<1> QED
  BY <1>1, <1>2, RegistryStep, WorldStep DEF Next

\* A refresh holds, on every page it has seen, whoever was there all along; observers
\* read and write the registry one at a time; a failure leaves a deadline
\* (List, refresh, Observe).
THEOREM Invariance == Spec => []IInv
<1>1. Init => IInv
  BY InitInv
<1>2. IInv /\ [Next]_vars => IInv'
  BY NextInv
<1> QED
  BY <1>1, <1>2, PTL DEF Spec

\* No attempt within errorTTL of a failed one, whoever waited for it (List).
THEOREM OneAttempt == Spec => []BacksOff
<1>1. IInv => BacksOff
  BY DEF IInv
<1> QED
  BY <1>1, Invariance, PTL

\* No saved sighting is lost, and an answer has those before the question that its
\* query matches, but for such as are beyond the cap (Observe, compositeLister,
\* handlePrincipals).
THEOREM SightingsKept == Spec => []ObservedKept
<1>1. IInv => ObservedKept
  BY DEF IInv, ObservedKept, Registered, Heard, Hears, load
<1> QED
  BY <1>1, Invariance, PTL

\* Only the last page of a refresh changes the cache.
LEMMA WholeStep ==
    ASSUME IInv, [Next]_vars, cached' # cached
    PROVE  always \subseteq cached' /\ cached' \subseteq ever
<1>1. PICK c \in Caller : FetchPage(c) /\ page[c] + 1 \notin DOMAIN Page
  <2>1. \A d \in Caller : ~(Ask(d) \/ RegistryList(d) \/ Check(d) \/ Recheck(d) \/ Answer(d) \/ LockFetch(d))
    BY DEF Ask, RegistryList, Check, Recheck, Answer, LockFetch, cacheVars
  <2>2. \A o \in Observer : ~(ObserveRead(o) \/ ObserveSave(o))
    BY DEF ObserveRead, ObserveSave, cacheVars
  <2>3. ~(Damage \/ Tick \/ Switch) /\ \A p \in Entry : ~Toggle(p)
    BY DEF Damage, Tick, Switch, Toggle, cacheVars
  <2>4. \A d \in Caller : ~FetchFails(d)
    BY DEF FetchFails, Store, kept
  <2>5. PICK d \in Caller : FetchPage(d)
    BY <2>1, <2>2, <2>3, <2>4 DEF Next, Proceed, vars, cacheVars
  <2>6. page[d] + 1 \notin DOMAIN Page
    BY <2>5 DEF FetchPage, cacheVars
  <2> QED
    BY <2>5, <2>6
<1> DEFINE entries == got[c] \cup (Page[page[c]] \cap active)
<1>2. pc[c] = "fetch" /\ cached' = entries
  BY <1>1 DEF FetchPage, Store
<1>3. /\ entries \subseteq ever
      /\ \A p \in always : \A i \in DOMAIN Page : i <= page[c] /\ p \in Page[i] => p \in entries
  BY <1>2, OnePageMore
<1>4. \A i \in DOMAIN Page : i <= page[c]
  BY <1>1, PagesType DEF IInv, TypeOK
<1>5. \A p \in always : \E i \in DOMAIN Page : p \in Page[i]
  BY <1>2, DirectoryAssumption DEF IInv, Refreshing
<1> QED
  BY <1>2, <1>3, <1>4, <1>5

\* The cache never holds part of a view (refresh, List).
THEOREM ViewsAreWhole == Spec => WholeView
<1>1. IInv /\ [Next]_vars => [cached' # cached => always \subseteq cached' /\ cached' \subseteq ever]_vars
  BY WholeStep
<1> QED
  BY <1>1, Invariance, PTL DEF Spec, WholeView

-----------------------------------------------------------------------------
(* The client.                                                             *)

\* Something will have the client push again.
Pending == events # {} \/ armed \/ fire

\* There is a watch once the first push is through; a directory without one has its
\* event in the queue, unless the queue lost it.
Watching ==
    /\ watched # {} => "root" \in watched
    /\ watched # {} <=> loop[2] = "again"
    /\ Push!Pc = "select" => loop[2] = "again"
    /\ Push!Pc = "watch" => loop[2] = "first"
    /\ watched # {} /\ sub /\ "sub" \notin watched => "mkdir" \in events \/ "blind" \in excused
    /\ Push!Pc = "stopped" => "failed" \in excused
    /\ watched = {} => events = {} /\ ~armed /\ ~fire

\* What is packed so far is as it is on disk.
Packed == \A f \in File \ archive.todo : archive.files[f] = local[f]

\* Without an excuse the canvas is on its way to the hub as it is, or what changed is
\* noticed and pending.
UpToDate ==
    /\ inflight = IF Push!Pc = "post" THEN {archive.files} ELSE {}
    /\ Push!Pc = "pack" => Packed \/ Pending
    /\ Push!Pc \in {"post", "wait"} => archive.files = local \/ Pending
    /\ Push!Pc = "wait" => hub = archive.files
    /\ Push!Pc \in {"watch", "select"} => hub = local \/ Pending

PushInv == Push!TypeOK /\ Watching /\ (excused = {} => UpToDate)

-----------------------------------------------------------------------------

LEMMA FreshType == Push!Fresh \in [files : Push!Versions, todo : SUBSET File]
  BY FollowAssumption DEF Push!PushClientAssumption, Push!Fresh, Push!Versions

LEMMA PushInit == Push!Init => PushInv
<1> SUFFICES ASSUME Push!Init PROVE PushInv
  OBVIOUS
<1>1. local \in Push!Versions /\ hub \in Push!Versions /\ (~sub => \A f \in SubFile : local[f] = 0)
  BY FollowAssumption DEF Push!PushClientAssumption, Push!Init, Push!Versions
<1>2. loop = <<"pack", "first">> /\ loop \in Push!Loops \X {"first", "again"} /\ Push!Pc = "pack" /\ loop[2] = "first"
  BY DEF Push!Init, Push!Loops, Push!Pc
<1>3. Push!TypeOK
  <2>1. /\ sub \in BOOLEAN /\ armed = FALSE /\ fire = FALSE /\ failures = 0 /\ MaxFaults \in Nat
        /\ watched = {} /\ events = {} /\ excused = {} /\ inflight = {} /\ archive = Push!Fresh
    BY FollowAssumption DEF Push!PushClientAssumption, Push!Init
  <2>2. failures \in 0..MaxFaults
    BY <2>1
  <2> QED
    BY <1>1, <1>2, <2>1, <2>2, FreshType DEF Push!TypeOK
<1>4. Watching
  BY <1>2 DEF Push!Init, Watching
<1>5. UpToDate
  BY <1>2 DEF Push!Init, UpToDate, Packed, Push!Fresh
<1> QED
  BY <1>3, <1>4, <1>5 DEF PushInv

\* The user writes or makes the subdirectory.
LEMMA UserStep ==
    ASSUME PushInv, Push!Mkdir \/ \E f \in File : Push!Write(f)
    PROVE  PushInv'
<1>1. UNCHANGED <<watched, armed, fire, loop, archive, inflight, hub, failures>>
  BY DEF Push!Mkdir, Push!Write
<1>2. /\ events \subseteq events' /\ excused \subseteq excused'
      /\ events' \subseteq {"mkdir", "change"} /\ excused' \subseteq {"unwatched", "failed", "late", "blind"}
      /\ watched = {} => excused' # {} /\ events' = events
  BY DEF Push!Mkdir, Push!Write, Push!Noticed, PushInv, Push!TypeOK
<1>3. /\ local' \in Push!Versions /\ sub' \in BOOLEAN /\ (sub => sub')
      /\ ~sub' => \A f \in SubFile : local'[f] = 0
  <2>1. CASE Push!Mkdir
    BY <2>1 DEF Push!Mkdir, PushInv, Push!TypeOK
  <2>2. ASSUME NEW f \in File, Push!Write(f)
        PROVE  /\ local' \in Push!Versions /\ sub' = sub
               /\ ~sub' => \A g \in SubFile : local'[g] = 0
    <3>1. local' = [local EXCEPT ![f] = local[f] + 1] /\ local \in Push!Versions /\ sub' = sub
      BY <2>2 DEF Push!Write, PushInv, Push!TypeOK
    <3>2. local[f] + 1 \in 0..MaxEdits
      BY <2>2, <3>1, FollowAssumption DEF Push!PushClientAssumption, Push!Write, Push!Versions
    <3>3. f \in SubFile => sub
      BY <2>2 DEF Push!Write
    <3>4. ~sub => \A g \in SubFile : local[g] = 0
      BY DEF PushInv, Push!TypeOK
    <3> QED
      BY <3>1, <3>2, <3>3, <3>4, FollowAssumption DEF Push!PushClientAssumption, Push!Versions
  <2> QED
    BY <2>1, <2>2 DEF PushInv, Push!TypeOK
<1>4. Push!TypeOK'
  BY <1>1, <1>2, <1>3 DEF PushInv, Push!TypeOK
<1>5. Watching'
  <2>1. watched # {} /\ sub' /\ "sub" \notin watched => "mkdir" \in events' \/ "blind" \in excused'
    BY <1>2 DEF Push!Mkdir, Push!Write, Push!Noticed, PushInv, Watching
  <2> QED
    BY <1>1, <1>2, <2>1 DEF PushInv, Watching, Push!Pc
<1>6. ASSUME excused' = {} PROVE UpToDate'
  <2>1. UpToDate /\ watched # {}
    BY <1>2, <1>6 DEF PushInv
  <2>2. local' = local \/ Pending'
    <3>1. CASE Push!Mkdir
      BY <3>1 DEF Push!Mkdir
    <3>2. ASSUME NEW f \in File, Push!Write(f) PROVE events' # {}
      <4>1. CASE (IF f \in SubFile THEN "sub" ELSE "root") \in watched
        BY <3>2, <4>1 DEF Push!Write, Push!Noticed
      <4>2. CASE (IF f \in SubFile THEN "sub" ELSE "root") \notin watched
        <5>1. "sub" \notin watched /\ f \in SubFile
          BY <2>1, <4>2 DEF PushInv, Watching
        <5>2. sub /\ "blind" \notin excused
          BY <1>2, <1>6, <3>2, <5>1 DEF Push!Write
        <5>3. "mkdir" \in events
          BY <2>1, <5>1, <5>2 DEF PushInv, Watching
        <5> QED
          BY <1>2, <5>3
      <4> QED
        BY <4>1, <4>2
    <3> QED
      BY <3>1, <3>2 DEF Pending
  <2>3. Pending => Pending'
    BY <1>1, <1>2 DEF Pending
  <2> QED
    BY <1>1, <2>1, <2>2, <2>3 DEF UpToDate, Packed, Push!Pc
<1> QED
  BY <1>4, <1>5, <1>6 DEF PushInv

\* The watch begins, takes an event, or its timer fires.
LEMMA WatchStep ==
    ASSUME PushInv, Push!StartWatch \/ Push!HandleEvent \/ Push!TimerFires
    PROVE  PushInv'
<1>1. CASE Push!StartWatch
  <2>1. /\ Push!Pc = "watch" /\ watched' = Push!Trees /\ loop' = <<"select", "again">>
        /\ UNCHANGED <<local, sub, events, armed, fire, archive, inflight, hub, failures, excused>>
    BY <1>1 DEF Push!StartWatch
  <2>2. (Push!Pc)' = "select" /\ loop'[2] = "again" /\ loop' \in Push!Loops \X {"first", "again"}
    BY <2>1 DEF Push!Pc, Push!Loops
  <2>3. watched' = IF sub THEN {"root", "sub"} ELSE {"root"}
    BY <2>1 DEF Push!Trees
  <2>4. Push!TypeOK'
    BY <2>1, <2>2, <2>3 DEF PushInv, Push!TypeOK
  <2>5. Watching'
    BY <2>1, <2>2, <2>3 DEF PushInv, Watching
  <2>6. excused = {} => UpToDate'
    BY <2>1, <2>2 DEF PushInv, UpToDate, Pending
  <2> QED
    BY <2>1, <2>4, <2>5, <2>6 DEF PushInv
<1>2. CASE Push!HandleEvent
  <2>1. PICK e \in events : Push!addWatchTree(e) /\ events' = events \ {e}
    BY <1>2 DEF Push!HandleEvent
  <2>2. /\ Push!Pc = "select" /\ armed' = TRUE
        /\ UNCHANGED <<local, sub, fire, loop, archive, inflight, hub, failures, excused>>
    BY <1>2 DEF Push!HandleEvent
  <2>3. watched' = IF e = "mkdir" THEN Push!Trees ELSE watched
    BY <2>1 DEF Push!addWatchTree
  <2>4. (Push!Pc)' = "select" /\ loop[2] = "again" /\ watched # {}
    BY <2>2 DEF PushInv, Watching, Push!Pc
  <2>5. Push!TypeOK'
    BY <2>1, <2>2, <2>3 DEF PushInv, Push!TypeOK, Push!Trees
  <2>6. Watching'
    <3>1. CASE e = "mkdir"
      BY <2>2, <2>3, <2>4, <3>1 DEF PushInv, Watching, Push!Trees
    <3>2. CASE e # "mkdir"
      BY <2>1, <2>2, <2>3, <2>4, <3>2 DEF PushInv, Watching
    <3> QED
      BY <3>1, <3>2
  <2>7. excused = {} => UpToDate'
    BY <2>2, <2>4 DEF PushInv, UpToDate, Pending
  <2> QED
    BY <2>2, <2>5, <2>6, <2>7 DEF PushInv
<1>3. CASE Push!TimerFires
  <2>1. /\ armed /\ armed' = FALSE /\ fire' = TRUE
        /\ UNCHANGED <<local, sub, watched, events, loop, archive, inflight, hub, failures, excused>>
    BY <1>3 DEF Push!TimerFires
  <2>2. Push!TypeOK'
    BY <2>1 DEF PushInv, Push!TypeOK
  <2>3. Watching'
    BY <2>1 DEF PushInv, Watching, Push!Pc
  <2>4. Pending'
    BY <2>1 DEF Pending
  <2>5. excused = {} => UpToDate'
    BY <2>1, <2>4 DEF PushInv, UpToDate, Push!Pc
  <2> QED
    BY <2>1, <2>2, <2>3, <2>5 DEF PushInv
<1> QED
  BY <1>1, <1>2, <1>3

\* Where the loop goes when it goes on.
LEMMA GotoType ==
    ASSUME PushInv, NEW step \in Push!Loops, Push!Goto(step)
    PROVE  (Push!Pc)' = step /\ loop'[2] = loop[2] /\ loop' \in Push!Loops \X {"first", "again"}
  BY DEF Push!Goto, Push!Pc, PushInv, Push!TypeOK

\* A push begins, packs a file, or is posted.
LEMMA PushStep ==
    ASSUME PushInv, Push!Fire \/ Push!PackFile \/ Push!Post
    PROVE  PushInv'
<1>1. UNCHANGED <<local, sub, watched, events, armed, hub, failures>>
  BY DEF Push!Fire, Push!PackFile, Push!Post
<1>2. CASE Push!Fire
  <2>1. /\ Push!Pc = "select" /\ fire' = FALSE /\ Push!Goto("pack") /\ archive' = Push!Fresh /\ inflight' = inflight
        /\ excused' = (excused \cap {"blind"}) \cup (IF inflight # {} THEN {"late"} ELSE {})
    BY <1>2 DEF Push!Fire
  <2>2. (Push!Pc)' = "pack" /\ loop'[2] = loop[2] /\ loop' \in Push!Loops \X {"first", "again"}
    BY <2>1, GotoType DEF Push!Loops
  <2>3. Push!TypeOK'
    BY <1>1, <2>1, <2>2, FreshType DEF PushInv, Push!TypeOK
  <2>4. Watching'
    BY <1>1, <2>1, <2>2 DEF PushInv, Watching
  <2>5. excused' = {} => UpToDate'
    BY <2>1, <2>2 DEF UpToDate, Packed, Push!Fresh
  <2> QED
    BY <2>3, <2>4, <2>5 DEF PushInv
<1>3. CASE Push!PackFile
  <2>1. PICK f \in archive.todo :
          archive' = [files |-> [archive.files EXCEPT ![f] = local[f]], todo |-> archive.todo \ {f}]
    BY <1>3 DEF Push!PackFile
  <2>2. Push!Pc = "pack" /\ UNCHANGED <<fire, loop, inflight, excused>> /\ (Push!Pc)' = "pack"
    BY <1>3 DEF Push!PackFile, Push!Pc
  <2>3. /\ archive.files \in Push!Versions /\ archive.todo \subseteq File /\ local \in Push!Versions
        /\ archive'.files = [archive.files EXCEPT ![f] = local[f]] /\ archive'.todo = archive.todo \ {f}
    BY <2>1 DEF PushInv, Push!TypeOK
  <2>4. archive'.files \in Push!Versions /\ \A g \in File : archive'.files[g] = IF g = f THEN local[f] ELSE archive.files[g]
    BY <2>3 DEF Push!Versions
  <2>5. Push!TypeOK'
    BY <1>1, <2>1, <2>2, <2>3, <2>4 DEF PushInv, Push!TypeOK
  <2>6. Watching'
    BY <1>1, <2>2 DEF PushInv, Watching
  <2>7. excused = {} => UpToDate'
    <3>1. Packed => Packed'
      BY <1>1, <2>3, <2>4 DEF Packed
    <3>2. Pending => Pending'
      BY <1>1, <2>2 DEF Pending
    <3> QED
      BY <1>1, <2>2, <3>1, <3>2 DEF PushInv, UpToDate
  <2> QED
    BY <2>2, <2>5, <2>6, <2>7 DEF PushInv
<1>4. CASE Push!Post
  <2>1. /\ Push!Pc = "pack" /\ archive.todo = {} /\ inflight' = inflight \cup {archive.files}
        /\ Push!Goto("post") /\ UNCHANGED <<fire, archive, excused>>
    BY <1>4 DEF Push!Post
  <2>2. (Push!Pc)' = "post" /\ loop'[2] = loop[2] /\ loop' \in Push!Loops \X {"first", "again"}
    BY <2>1, GotoType DEF Push!Loops
  <2>3. Push!TypeOK'
    BY <1>1, <2>1, <2>2 DEF PushInv, Push!TypeOK
  <2>4. Watching'
    BY <1>1, <2>1, <2>2 DEF PushInv, Watching
  <2>5. Packed => archive.files = local
    <3>1. archive.files \in [File -> 0..MaxEdits] /\ local \in [File -> 0..MaxEdits]
      BY DEF PushInv, Push!TypeOK, Push!Versions
    <3> QED
      BY <2>1, <3>1 DEF Packed
  <2>6. excused = {} => UpToDate'
    <3>1. Pending => Pending'
      BY <1>1, <2>1 DEF Pending
    <3> QED
      BY <1>1, <2>1, <2>2, <2>5, <3>1 DEF PushInv, UpToDate
  <2> QED
    BY <2>1, <2>3, <2>4, <2>6 DEF PushInv
<1> QED
  BY <1>2, <1>3, <1>4

\* Where the loop goes after a push.
LEMMA PushedType ==
    ASSUME PushInv, NEW ok \in BOOLEAN, Push!Pushed(ok), Push!Pc # "watch", Push!Pc # "stopped"
    PROVE  /\ loop' \in Push!Loops \X {"first", "again"} /\ loop'[2] = loop[2]
           /\ (Push!Pc)' \in {"select", "watch", "stopped"}
           /\ (Push!Pc)' = "select" => loop'[2] = "again"
           /\ (Push!Pc)' = "watch" => loop'[2] = "first"
           /\ (Push!Pc)' = "stopped" => ~ok
<1>1. loop[2] \in {"first", "again"}
  BY DEF PushInv, Push!TypeOK
<1> QED
  BY <1>1 DEF Push!Pushed, Push!Pc, Push!Loops

\* The hub applies an archive, and answers.
LEMMA HubStep ==
    ASSUME PushInv, Push!HubApply \/ Push!Response
    PROVE  PushInv'
<1>1. /\ UNCHANGED <<local, sub, watched, events, armed, fire, archive, failures>>
      /\ Pending => Pending'
  <2>1. UNCHANGED <<local, sub, watched, events, armed, fire, archive, failures>>
    BY DEF Push!HubApply, Push!Response
  <2> QED
    BY <2>1 DEF Pending
<1>2. CASE Push!HubApply
  <2>1. PICK a \in inflight :
          /\ hub' = a /\ inflight' = inflight \ {a}
          /\ IF Push!Pc = "post" /\ a = archive.files THEN Push!Goto("wait") ELSE UNCHANGED loop
          /\ excused' = excused \cup (IF Push!Pc = "post" /\ a = archive.files THEN {} ELSE {"late"})
    BY <1>2 DEF Push!HubApply
  <2>2. CASE Push!Pc = "post" /\ a = archive.files
    <3>1. (Push!Pc)' = "wait" /\ loop'[2] = loop[2] /\ loop' \in Push!Loops \X {"first", "again"} /\ excused' = excused
      BY <2>1, <2>2, GotoType DEF Push!Loops
    <3>2. Push!TypeOK'
      BY <1>1, <2>1, <3>1 DEF PushInv, Push!TypeOK
    <3>3. Watching'
      BY <1>1, <3>1 DEF PushInv, Watching
    <3>4. excused = {} => UpToDate'
      BY <1>1, <2>1, <2>2, <3>1 DEF PushInv, UpToDate
    <3> QED
      BY <3>1, <3>2, <3>3, <3>4 DEF PushInv
  <2>3. CASE ~(Push!Pc = "post" /\ a = archive.files)
    <3>1. UNCHANGED loop /\ excused' = excused \cup {"late"} /\ (Push!Pc)' = Push!Pc
      BY <2>1, <2>3 DEF Push!Pc
    <3>2. Push!TypeOK'
      BY <1>1, <2>1, <3>1 DEF PushInv, Push!TypeOK
    <3>3. Watching'
      BY <1>1, <3>1 DEF PushInv, Watching
    <3> QED
      BY <3>1, <3>2, <3>3 DEF PushInv
  <2> QED
    BY <2>2, <2>3
<1>3. CASE Push!Response
  <2>1. Push!Pc = "wait" /\ Push!Pushed(TRUE) /\ UNCHANGED <<inflight, hub, excused>>
    BY <1>3 DEF Push!Response
  <2>2. /\ loop' \in Push!Loops \X {"first", "again"} /\ loop'[2] = loop[2] /\ (Push!Pc)' \in {"select", "watch"}
        /\ (Push!Pc)' = "select" => loop'[2] = "again"
        /\ (Push!Pc)' = "watch" => loop'[2] = "first"
    BY <2>1, PushedType
  <2>3. Push!TypeOK'
    BY <1>1, <2>1, <2>2 DEF PushInv, Push!TypeOK
  <2>4. Watching'
    BY <1>1, <2>1, <2>2 DEF PushInv, Watching
  <2>5. excused = {} => UpToDate'
    BY <1>1, <2>1, <2>2 DEF PushInv, UpToDate
  <2> QED
    BY <2>1, <2>3, <2>4, <2>5 DEF PushInv
<1> QED
  BY <1>2, <1>3

\* What fails leaves an excuse.
LEMMA FailStep ==
    ASSUME PushInv, Push!PackFails \/ Push!Refused \/ Push!Timeout \/ Push!Overflow \/ Push!Signal
    PROVE  PushInv'
<1>1. /\ UNCHANGED <<local, sub, watched, armed, fire, archive, hub>>
      /\ failures < MaxFaults /\ failures' = failures + 1
      /\ events' \subseteq events /\ inflight' \subseteq inflight
      /\ \E why \in {"failed", "blind"} : excused' = excused \cup {why}
  BY DEF Push!PackFails, Push!Refused, Push!Timeout, Push!Overflow, Push!Signal, Push!Fails, Push!Because
<1>2. failures' \in 0..MaxFaults
  BY <1>1, FollowAssumption DEF Push!PushClientAssumption, PushInv, Push!TypeOK
<1>3. /\ loop' \in Push!Loops \X {"first", "again"} /\ loop'[2] = loop[2]
      /\ (Push!Pc)' = "select" => loop'[2] = "again"
      /\ (Push!Pc)' = "watch" => loop'[2] = "first"
      /\ (Push!Pc)' = "stopped" => "failed" \in excused'
  <2>1. CASE Push!PackFails \/ Push!Refused \/ Push!Timeout
    <3>1. Push!Pc \in {"pack", "post", "wait"} /\ Push!Pushed(FALSE) /\ "failed" \in excused'
      BY <2>1 DEF Push!PackFails, Push!Refused, Push!Timeout, Push!Because
    <3> QED
      BY <3>1, PushedType
  <2>2. CASE Push!Overflow
    BY <1>1, <2>2 DEF Push!Overflow, Push!Pc, PushInv, Push!TypeOK, Watching
  <2>3. CASE Push!Signal
    <3>1. Push!Goto("stopped") /\ "failed" \in excused'
      BY <2>3 DEF Push!Signal, Push!Because
    <3> QED
      BY <3>1, GotoType DEF Push!Loops
  <2> QED
    BY <2>1, <2>2, <2>3
<1>4. "mkdir" \in events => "mkdir" \in events' \/ "blind" \in excused'
  BY DEF Push!PackFails, Push!Refused, Push!Timeout, Push!Overflow, Push!Signal, Push!Because
<1>5. Push!TypeOK'
  BY <1>1, <1>2, <1>3 DEF PushInv, Push!TypeOK
<1>6. Watching'
  BY <1>1, <1>3, <1>4 DEF PushInv, Watching
<1> QED
  BY <1>1, <1>5, <1>6 DEF PushInv

LEMMA PushNext == PushInv /\ [Push!Next]_(Push!vars) => PushInv'
<1> SUFFICES ASSUME PushInv, [Push!Next]_(Push!vars) PROVE PushInv'
  OBVIOUS
<1>1. CASE UNCHANGED Push!vars
  BY <1>1 DEF PushInv, Push!TypeOK, Watching, UpToDate, Packed, Pending, Push!Pc, Push!vars
<1> QED
  BY <1>1, UserStep, WatchStep, PushStep, HubStep, FailStep DEF Push!Next

\* Whatever is written, lost or refused, and whenever: the client is well typed, its
\* watch covers the directories it was told of, and without an excuse what is on disk
\* is on its way or noticed (Watch, pushOnce).
LEMMA PushInvariance == Push!Spec => []PushInv
<1>1. Push!Init => PushInv
  BY PushInit
<1>2. PushInv /\ [Push!Next]_(Push!vars) => PushInv'
  BY PushNext
<1> QED
  BY <1>1, <1>2, PTL DEF Push!Spec

-----------------------------------------------------------------------------
(* Both.                                                                   *)

\* Wherever both run: well typed, one caller at the refresh, and no change of the
\* canvas that the client has seen and forgotten (Watch, pushOnce, List).
THEOREM Sound == Spec /\ Push!Spec => []FollowersSound
<1>1. IInv /\ PushInv => FollowersSound
  <2>1. PushInv => Push!NothingForgotten
    BY DEF PushInv, UpToDate, Push!NothingForgotten, Push!Settled, Pending
  <2> QED
    BY <2>1 DEF IInv, PushInv, FollowersSound
<1> QED
  BY <1>1, Invariance, PushInvariance, PTL
==============================================================================
