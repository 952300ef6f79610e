---------------------------- MODULE Tools_proofs ----------------------------
(***************************************************************************)
(* On the local disk an edit is made whole, a revert that is alone restores*)
(* a whole snapshot or nothing, and what a call takes away can be had back;*)
(* an agent that calls a hub is told the truth, and may call again; and    *)
(* one command at a time starts a daemon: for any processes, canvases,     *)
(* files, tokens, agents, calls and faults.                                *)
(***************************************************************************)
EXTENDS Tools, SequenceTheorems, WellFoundedInduction, TLAPS

-----------------------------------------------------------------------------
(* FileEdit: loops, and batches of edits.                                  *)

\* Induction over the natural numbers, by their well-founded order.
LEMMA LeastNat ==
    ASSUME NEW T \in SUBSET Nat, T # {}
    PROVE  \E m \in T : \A n \in T : m <= n
<1> DEFINE R == {ss \in Nat \X Nat : ss[1] < ss[2]}
<1>1. IsWellFoundedOn(R, Nat)
  BY NatLessThanWellFounded DEF OpToRel
<1>2. \E x \in T : \A y \in T : ~ (<<y, x>> \in R)
  BY <1>1, WFMin
<1>3. \A x, y \in T : ~(<<y, x>> \in R) => x <= y
  OBVIOUS
<1> QED
  BY <1>2, <1>3

\* What holds of 0 and is passed on up to n holds up to n.
LEMMA UpTo ==
    ASSUME NEW n \in Nat, NEW S, 0 \in S, \A i \in 0 .. n : i \in S /\ i < n => i + 1 \in S
    PROVE  0 .. n \subseteq S
<1> DEFINE T == (0 .. n) \ S
<1> SUFFICES ASSUME T # {} PROVE FALSE
  OBVIOUS
<1>1. T \in SUBSET Nat
  OBVIOUS
<1>2. PICK m \in T : \A i \in T : m <= i
  <2> HIDE DEF T
  <2> QED BY <1>1, LeastNat
<1>3. m # 0 /\ m - 1 \in 0 .. n /\ m - 1 \in S
  BY <1>2
<1> QED
  BY <1>2, <1>3

Steps(n, S) == [1 .. n -> [S -> S]]
IsRun(g, n, S, base, step) ==
    g \in [0 .. n -> S] /\ g[0] = base /\ \A i \in 1 .. n : g[i] = step[i][g[i - 1]]

\* A loop of n steps over the values of S has its run.
LEMMA RunExists ==
    ASSUME NEW n \in Nat, NEW S, NEW base \in S, NEW step \in Steps(n, S)
    PROVE  \E g : IsRun(g, n, S, base, step)
<1> DEFINE Good(g, m) == g \in [0 .. m -> S] /\ g[0] = base
                         /\ \A i \in 1 .. m : g[i] = step[i][g[i - 1]]
           Q == {m \in 0 .. n : \E g : Good(g, m)}
<1>0. step \in [1 .. n -> [S -> S]]
  BY DEF Steps
<1>1. 0 \in Q
  <2>1. Good([i \in 0 .. 0 |-> base], 0)
    OBVIOUS
  <2> HIDE DEF Good
  <2> QED BY <2>1
<1>2. ASSUME NEW m \in 0 .. n, m \in Q, m < n PROVE m + 1 \in Q
  <2>1. PICK g : Good(g, m)
    BY <1>2
  <2> DEFINE h == [i \in 0 .. m + 1 |-> IF i = m + 1 THEN step[m + 1][g[m]] ELSE g[i]]
  <2>2. h \in [0 .. m + 1 -> S]
    <3>1. g[m] \in S /\ step[m + 1][g[m]] \in S
      BY <1>0, <1>2, <2>1
    <3> QED BY <2>1, <3>1
  <2>3. h[0] = base
    BY <2>1
  <2>4. ASSUME NEW i \in 1 .. m + 1 PROVE h[i] = step[i][h[i - 1]]
    <3>1. CASE i = m + 1
      <4>1. h[m + 1] = step[m + 1][g[m]] /\ h[m] = g[m] /\ m + 1 - 1 = m
        OBVIOUS
      <4> HIDE DEF h
      <4> QED BY <3>1, <4>1
    <3>2. CASE i # m + 1
      <4>1. h[i] = g[i] /\ h[i - 1] = g[i - 1] /\ i \in 1 .. m
        BY <3>2
      <4> HIDE DEF h
      <4> QED BY <2>1, <4>1
    <3> QED BY <3>1, <3>2
  <2>5. Good(h, m + 1)
    BY <2>2, <2>3, <2>4
  <2> HIDE DEF Good, h
  <2> QED BY <1>2, <2>5
<1>3. 0 .. n \subseteq Q
  <2> HIDE DEF Q
  <2> QED BY <1>1, <1>2, UpTo
<1> QED
  BY <1>3 DEF IsRun

LEMMA FlattenType ==
    ASSUME NEW T, NEW ss \in Seq(Seq(T))
    PROVE  FlattenSeq(ss) \in Seq(T)
<1>1. CASE Len(ss) = 0
  BY <1>1 DEF FlattenSeq
<1>2. CASE Len(ss) # 0
  <2> DEFINE n == Len(ss)
             f[i \in 1 .. n] == IF i = 1 THEN ss[i] ELSE f[i - 1] \o ss[i]
             step == [i \in 1 .. n |-> [s \in Seq(T) |-> s \o ss[i]]]
  <2>1. n \in Nat \ {0} /\ <<>> \in Seq(T)
    BY <1>2
  <2>2. step \in Steps(n, Seq(T))
    BY DEF Steps
  <2>3. PICK g : IsRun(g, n, Seq(T), <<>>, step)
    <3>1. n \in Nat
      BY <2>1
    <3> HIDE DEF step, n
    <3> QED BY <2>1, <2>2, <3>1, RunExists
  <2> DEFINE h == [i \in 1 .. n |-> g[i]]
  <2>4. h = [i \in 1 .. n |-> IF i = 1 THEN ss[i] ELSE h[i - 1] \o ss[i]]
    <3>1. \A i \in 1 .. n : g[i] = g[i - 1] \o ss[i]
      <4> SUFFICES ASSUME NEW i \in 1 .. n PROVE g[i] = g[i - 1] \o ss[i]
        OBVIOUS
      <4>1. g \in [0 .. n -> Seq(T)] /\ g[i] = step[i][g[i - 1]]
        <5> HIDE DEF step
        <5> QED BY <2>3 DEF IsRun
      <4>2. i - 1 \in 0 .. n
        BY <2>1
      <4>3. g[i - 1] \in Seq(T)
        BY <4>1, <4>2
      <4>4. step[i][g[i - 1]] = g[i - 1] \o ss[i]
        BY <4>3
      <4> QED BY <4>1, <4>4
    <3>2. g[1] = ss[1]
      <4>3. 1 \in 1 .. n /\ 1 - 1 = 0
        BY <2>1
      <4>1. g[1] = <<>> \o ss[1]
        BY <2>3, <3>1, <4>3 DEF IsRun
      <4>2. ss[1] \in Seq(T)
        BY <2>1
      <4> QED BY <4>1, <4>2, ConcatEmptySeq
    <3>3. ASSUME NEW i \in 1 .. n PROVE h[i] = IF i = 1 THEN ss[i] ELSE h[i - 1] \o ss[i]
      <4>1. CASE i = 1
        BY <3>2, <4>1
      <4>2. CASE i # 1
        <5>1. h[i] = g[i] /\ h[i - 1] = g[i - 1]
          BY <4>2
        <5> QED BY <3>1, <4>2, <5>1
      <4> QED BY <4>1, <4>2
    <3> QED
      BY <3>3
  <2>5. f = [i \in 1 .. n |-> IF i = 1 THEN ss[i] ELSE f[i - 1] \o ss[i]]
    <3> HIDE DEF h
    <3> QED BY <2>4, Zenon
  <2>6. FlattenSeq(ss) = f[n]
    BY <1>2, Zenon DEF FlattenSeq
  <2> HIDE DEF f
  <2>8. ASSUME NEW i \in 1 .. n PROVE f[i] = IF i = 1 THEN ss[i] ELSE f[i - 1] \o ss[i]
    <3> DEFINE ff == [j \in 1 .. n |-> IF j = 1 THEN ss[j] ELSE f[j - 1] \o ss[j]]
    <3>1. ff[i] = IF i = 1 THEN ss[i] ELSE f[i - 1] \o ss[i]
      OBVIOUS
    <3>2. f = ff
      BY <2>5, Zenon
    <3> QED BY <3>1, <3>2, Zenon
  <2> DEFINE S == {i \in 0 .. n : i = 0 \/ f[i] \in Seq(T)}
  <2>7. 0 .. n \subseteq S
    <3>1. ASSUME NEW i \in 0 .. n, i \in S, i < n PROVE i + 1 \in S
      <4>1. f[i + 1] = IF i + 1 = 1 THEN ss[i + 1] ELSE f[i + 1 - 1] \o ss[i + 1]
        BY <2>8, <3>1
      <4>3. i + 1 - 1 = i
        OBVIOUS
      <4>2. ss[i + 1] \in Seq(T)
        BY <3>1
      <4>4. i = 0 \/ f[i] \o ss[i + 1] \in Seq(T)
        BY <3>1, <4>2
      <4>5. f[i + 1] \in Seq(T)
        BY <4>1, <4>2, <4>3, <4>4
      <4> QED BY <3>1, <4>5
    <3> HIDE DEF S
    <3>2. 0 \in S
      BY <2>1 DEF S
    <3> QED BY <2>1, <3>1, <3>2, UpTo
  <2> QED
    BY <2>1, <2>6, <2>7
<1> QED
  BY <1>1, <1>2

LEMMA ReplacingType ==
    ASSUME NEW T, NEW s \in Seq(T), NEW e \in Edits(T)
    PROVE  Replacing(s, e) \in Seq(T)
<1> DEFINE ss == [i \in DOMAIN s |-> IF s[i] = e.old THEN e.new ELSE <<s[i]>>]
<1>1. ss \in Seq(Seq(T))
  <2>1. \A i \in 1 .. Len(s) : ss[i] \in Seq(T)
    BY DEF Edits
  <2>2. ss = [i \in 1 .. Len(s) |-> ss[i]] /\ Len(s) \in Nat
    OBVIOUS
  <2> HIDE DEF ss
  <2> QED BY <2>1, <2>2
<1>2. FlattenSeq(ss) \in Seq(T)
  <2> HIDE DEF ss
  <2> QED BY <1>1, FlattenType
<1> QED
  BY <1>2 DEF Replacing

LEMMA ReplacedRuns ==
    ASSUME NEW T, NEW s \in Seq(T), NEW edits \in Seq(Edits(T))
    PROVE  /\ Replaced(s, edits) \in [0 .. Len(edits) -> Seq(T)]
           /\ Replaced(s, edits)[0] = s
           /\ \A i \in 1 .. Len(edits) :
                 Replaced(s, edits)[i] = Replacing(Replaced(s, edits)[i - 1], edits[i])
<1> DEFINE n == Len(edits)
           buf[i \in 0 .. n] == IF i = 0 THEN s ELSE Replacing(buf[i - 1], edits[i])
           step == [i \in 1 .. n |-> [x \in Seq(T) |-> Replacing(x, edits[i])]]
<1>1. n \in Nat /\ \A i \in 1 .. n : edits[i] \in Edits(T)
  OBVIOUS
<1>2. step \in Steps(n, Seq(T))
  <2>1. \A i \in 1 .. n : \A x \in Seq(T) : Replacing(x, edits[i]) \in Seq(T)
    <3> HIDE DEF n
    <3> QED BY <1>1, ReplacingType
  <2> QED BY <2>1 DEF Steps
<1>3. PICK g : IsRun(g, n, Seq(T), s, step)
  <2> HIDE DEF step, n
  <2> QED BY <1>1, <1>2, RunExists
<1>4. ASSUME NEW i \in 0 .. n PROVE g[i] = IF i = 0 THEN s ELSE Replacing(g[i - 1], edits[i])
  <2>1. CASE i = 0
    BY <1>3, <2>1 DEF IsRun
  <2>2. CASE i # 0
    <3>1. i \in 1 .. n /\ i - 1 \in 0 .. n
      BY <1>1, <2>2
    <3>2. g[i] = step[i][g[i - 1]] /\ g[i - 1] \in Seq(T)
      <4> HIDE DEF step
      <4> QED BY <1>3, <3>1 DEF IsRun
    <3> QED BY <2>2, <3>1, <3>2
  <2> QED BY <2>1, <2>2
<1>5. g = [i \in 0 .. n |-> IF i = 0 THEN s ELSE Replacing(g[i - 1], edits[i])]
  <2>1. g \in [0 .. n -> Seq(T)]
    BY <1>3 DEF IsRun
  <2> HIDE DEF n
  <2> QED BY <1>4, <2>1
<1>6. buf = [i \in 0 .. n |-> IF i = 0 THEN s ELSE Replacing(buf[i - 1], edits[i])]
  BY <1>5, Zenon
<1>7. Replaced(s, edits) = buf
  BY Zenon DEF Replaced
<1> HIDE DEF buf
<1>8. ASSUME NEW i \in 0 .. n PROVE buf[i] = IF i = 0 THEN s ELSE Replacing(buf[i - 1], edits[i])
  <2> DEFINE ff == [j \in 0 .. n |-> IF j = 0 THEN s ELSE Replacing(buf[j - 1], edits[j])]
  <2>1. ff[i] = IF i = 0 THEN s ELSE Replacing(buf[i - 1], edits[i])
    OBVIOUS
  <2>2. buf = ff
    BY <1>6, Zenon
  <2> QED BY <2>1, <2>2, Zenon
<1> DEFINE S == {i \in 0 .. n : buf[i] \in Seq(T)}
<1>9. 0 .. n \subseteq S
  <2>1. 0 \in S
    BY <1>1, <1>8
  <2>2. ASSUME NEW i \in 0 .. n, i \in S, i < n PROVE i + 1 \in S
    <3>1. i + 1 \in 1 .. n /\ i + 1 \in 0 .. n /\ i + 1 - 1 = i /\ i + 1 # 0
      BY <2>2
    <3>2. buf[i + 1] = Replacing(buf[i], edits[i + 1])
      BY <1>8, <3>1
    <3>3. buf[i + 1] \in Seq(T)
      BY <1>1, <2>2, <3>1, <3>2, ReplacingType
    <3> QED BY <3>1, <3>3
  <2> HIDE DEF S, n
  <2> QED BY <1>1, <2>1, <2>2, UpTo
<1>10. buf \in [0 .. n -> Seq(T)]
  <2> HIDE DEF n
  <2>1. buf = [i \in 0 .. n |-> buf[i]]
    BY <1>6
  <2> QED BY <1>9, <2>1
<1>11. ASSUME NEW i \in 1 .. n PROVE buf[i] = Replacing(buf[i - 1], edits[i])
  BY <1>8
<1> QED
  BY <1>1, <1>7, <1>8, <1>10, <1>11
LEMMA ApplyType ==
    ASSUME NEW T, NEW s \in Seq(T), NEW e \in Edits(T)
    PROVE  Apply(s, e) \in Seq(T) \cup {Failed}
BY ReplacingType DEF Apply

LEMMA BuffersRun ==
    ASSUME NEW T, NEW s \in Seq(T), NEW edits \in Seq(Edits(T))
    PROVE  /\ Buffers(s, edits) \in [0 .. Len(edits) -> Seq(T) \cup {Failed}]
           /\ Buffers(s, edits)[0] = s
           /\ \A i \in 1 .. Len(edits) :
                 Buffers(s, edits)[i] = IF Buffers(s, edits)[i - 1] = Failed THEN Failed
                                        ELSE Apply(Buffers(s, edits)[i - 1], edits[i])
<1> DEFINE W == Seq(T) \cup {Failed}
           n == Len(edits)
           buf[i \in 0 .. n] == IF i = 0 THEN s ELSE (IF buf[i - 1] = Failed THEN Failed ELSE Apply(buf[i - 1], edits[i]))
           step == [i \in 1 .. n |-> [x \in W |-> (IF x = Failed THEN Failed ELSE Apply(x, edits[i]))]]
<1>1. n \in Nat /\ \A i \in 1 .. n : edits[i] \in Edits(T)
  OBVIOUS
<1>2. step \in Steps(n, W)
  <2>1. \A i \in 1 .. n : \A x \in W : (IF x = Failed THEN Failed ELSE Apply(x, edits[i])) \in W
    <3> HIDE DEF n
    <3> QED BY <1>1, ApplyType
  <2> QED BY <2>1 DEF Steps
<1>3. PICK g : IsRun(g, n, W, s, step)
  <2> HIDE DEF step, n
  <2> QED BY <1>1, <1>2, RunExists
<1>4. ASSUME NEW i \in 0 .. n PROVE g[i] = IF i = 0 THEN s ELSE (IF g[i - 1] = Failed THEN Failed ELSE Apply(g[i - 1], edits[i]))
  <2>1. CASE i = 0
    BY <1>3, <2>1 DEF IsRun
  <2>2. CASE i # 0
    <3>1. i \in 1 .. n /\ i - 1 \in 0 .. n
      BY <1>1, <2>2
    <3>2. g[i] = step[i][g[i - 1]] /\ g[i - 1] \in W
      <4> HIDE DEF step
      <4> QED BY <1>3, <3>1 DEF IsRun
    <3> QED BY <2>2, <3>1, <3>2
  <2> QED BY <2>1, <2>2
<1>5. g = [i \in 0 .. n |-> IF i = 0 THEN s ELSE (IF g[i - 1] = Failed THEN Failed ELSE Apply(g[i - 1], edits[i]))]
  <2>1. g \in [0 .. n -> W]
    BY <1>3 DEF IsRun
  <2> HIDE DEF n
  <2> QED BY <1>4, <2>1
<1>6. buf = [i \in 0 .. n |-> IF i = 0 THEN s ELSE (IF buf[i - 1] = Failed THEN Failed ELSE Apply(buf[i - 1], edits[i]))]
  BY <1>5, Zenon
<1>7. Buffers(s, edits) = buf
  BY Zenon DEF Buffers
<1> HIDE DEF buf
<1>8. ASSUME NEW i \in 0 .. n PROVE buf[i] = IF i = 0 THEN s ELSE (IF buf[i - 1] = Failed THEN Failed ELSE Apply(buf[i - 1], edits[i]))
  <2> DEFINE ff == [j \in 0 .. n |-> IF j = 0 THEN s ELSE (IF buf[j - 1] = Failed THEN Failed ELSE Apply(buf[j - 1], edits[j]))]
  <2>1. ff[i] = IF i = 0 THEN s ELSE (IF buf[i - 1] = Failed THEN Failed ELSE Apply(buf[i - 1], edits[i]))
    OBVIOUS
  <2>2. buf = ff
    BY <1>6, Zenon
  <2> QED BY <2>1, <2>2, Zenon
<1> DEFINE S == {i \in 0 .. n : buf[i] \in W}
<1>9. 0 .. n \subseteq S
  <2>1. 0 \in S
    BY <1>1, <1>8
  <2>2. ASSUME NEW i \in 0 .. n, i \in S, i < n PROVE i + 1 \in S
    <3>1. i + 1 \in 1 .. n /\ i + 1 \in 0 .. n /\ i + 1 - 1 = i /\ i + 1 # 0
      BY <2>2
    <3>2. buf[i + 1] = (IF buf[i] = Failed THEN Failed ELSE Apply(buf[i], edits[i + 1]))
      BY <1>8, <3>1
    <3>3. buf[i + 1] \in W
      BY <1>1, <2>2, <3>1, <3>2, ApplyType
    <3> QED BY <3>1, <3>3
  <2> HIDE DEF S, n
  <2> QED BY <1>1, <2>1, <2>2, UpTo
<1>10. buf \in [0 .. n -> W]
  <2> HIDE DEF n
  <2>1. buf = [i \in 0 .. n |-> buf[i]]
    BY <1>6
  <2> QED BY <1>9, <2>1
<1>11. ASSUME NEW i \in 1 .. n PROVE buf[i] = (IF buf[i - 1] = Failed THEN Failed ELSE Apply(buf[i - 1], edits[i]))
  BY <1>8
<1> QED
  BY <1>1, <1>7, <1>8, <1>10, <1>11

\* A batch that is made is its edits in order, each of something that is there.
LEMMA BatchIsWhole ==
    ASSUME NEW T, NEW s \in Seq(T), NEW edits \in Seq(Edits(T)), ApplyBatch(s, edits) # Failed
    PROVE  /\ ApplyBatch(s, edits) \in Seq(T)
           /\ ApplyBatch(s, edits) = Replaced(s, edits)[Len(edits)]
           /\ \A i \in DOMAIN edits :
                 LET count == Count(Replaced(s, edits)[i - 1], edits[i].old)
                 IN  count # 0 /\ (count > 1 => edits[i].all)
<1> DEFINE n == Len(edits)
           buf == Buffers(s, edits)
           done == Replaced(s, edits)
           Later == {k \in 0 .. n : buf[n - k] # Failed}
           Same == {i \in 0 .. n : buf[i] = done[i]}
<1>1. n \in Nat /\ buf[n] # Failed /\ DOMAIN edits = 1 .. n
  BY DEF ApplyBatch
<1>2. /\ buf \in [0 .. n -> Seq(T) \cup {Failed}] /\ buf[0] = s
      /\ \A i \in 1 .. n : buf[i] = IF buf[i - 1] = Failed THEN Failed ELSE Apply(buf[i - 1], edits[i])
  BY BuffersRun
<1>3. /\ done \in [0 .. n -> Seq(T)] /\ done[0] = s
      /\ \A i \in 1 .. n : done[i] = Replacing(done[i - 1], edits[i])
  BY ReplacedRuns
<1> HIDE DEF n, buf, done
<1>4. 0 .. n \subseteq Later
  <2>1. 0 \in Later
    BY <1>1
  <2>2. ASSUME NEW k \in 0 .. n, k \in Later, k < n PROVE k + 1 \in Later
    <3>1. n - k \in 1 .. n /\ n - k - 1 = n - (k + 1) /\ k + 1 \in 0 .. n
      BY <1>1, <2>2
    <3>2. buf[n - k - 1] # Failed
      BY <1>2, <2>2, <3>1
    <3> QED BY <3>1, <3>2
  <2> HIDE DEF Later
  <2> QED BY <1>1, <2>1, <2>2, UpTo
<1>5. ASSUME NEW i \in 0 .. n PROVE buf[i] # Failed
  <2>1. n - i \in Later /\ n - (n - i) = i
    <3>1. n - i \in 0 .. n /\ n - (n - i) = i
      BY <1>1
    <3> HIDE DEF Later
    <3> QED BY <1>4, <3>1
  <2> QED BY <2>1
<1>6. ASSUME NEW i \in 1 .. n
      PROVE  /\ buf[i] = Replacing(buf[i - 1], edits[i])
             /\ LET count == Count(buf[i - 1], edits[i].old)
                IN  count # 0 /\ (count > 1 => edits[i].all)
  <2>1. i - 1 \in 0 .. n /\ i \in 0 .. n
    BY <1>1
  <2>2. buf[i - 1] # Failed /\ buf[i] # Failed
    BY <1>5, <2>1
  <2>3. buf[i] = Apply(buf[i - 1], edits[i])
    BY <1>2, <2>2
  <2> QED BY <2>2, <2>3 DEF Apply
<1>7. 0 .. n \subseteq Same
  <2>1. 0 \in Same
    BY <1>1, <1>2, <1>3
  <2>2. ASSUME NEW i \in 0 .. n, i \in Same, i < n PROVE i + 1 \in Same
    <3>1. i + 1 \in 1 .. n /\ i + 1 - 1 = i /\ i + 1 \in 0 .. n
      BY <1>1, <2>2
    <3>2. buf[i + 1] = Replacing(buf[i], edits[i + 1]) /\ done[i + 1] = Replacing(done[i], edits[i + 1])
      BY <1>3, <1>6, <3>1
    <3> QED BY <2>2, <3>1, <3>2
  <2> HIDE DEF Same
  <2> QED BY <1>1, <2>1, <2>2, UpTo
<1>8. ASSUME NEW i \in DOMAIN edits
      PROVE  LET count == Count(done[i - 1], edits[i].old)
             IN  count # 0 /\ (count > 1 => edits[i].all)
  <2>1. i \in 1 .. n /\ i - 1 \in 0 .. n
    BY <1>1
  <2>2. buf[i - 1] = done[i - 1]
    BY <1>7, <2>1
  <2> QED BY <1>6, <2>1, <2>2
<1>9. n \in 0 .. n
  BY <1>1
<1>10. buf[n] = done[n] /\ done[n] \in Seq(T)
  BY <1>3, <1>7, <1>9
<1>11. ApplyBatch(s, edits) = buf[n]
  BY DEF ApplyBatch, buf, n
<1> QED
  BY <1>1, <1>8, <1>10, <1>11 DEF done, n

-----------------------------------------------------------------------------
(* LocalStore.                                                             *)

(* The invariant.                                                          *)

Active(p) == proc[p].pc # "idle"

\* An edit that was made is the batch that was asked for, of what was read.
EditOwn(p) ==
    IF proc[p].pc \in {"temp", "rename"}
    THEN Call(p).op = "edit" =>
            /\ proc[p].base \in Seq(Token) /\ proc[p].buf # Failed
            /\ proc[p].buf = ApplyBatch(proc[p].base, Call(p).edits)
    ELSE proc[p].buf = None
EditInv == \A p \in Proc : EditOwn(p)

\* No two calls have a snapshot, and the one that a call is taking is its own.
StampOwn(p) ==
    /\ proc[p].pc \in {"begin", "create", "temp", "rename", "stage"} => proc[p].stamp = 0
    /\ proc[p].pc = "snap" => proc[p].stamp # 0 /\ Exists(Mine(p)) /\ Mine(p) \notin whole
    /\ Active(p) /\ Call(p).op = "revert" /\ proc[p].pc # "begin" => proc[p].target # 0
StampInv ==
    /\ \A p, q \in Proc : p # q /\ proc[p].stamp # 0 => proc[p].stamp # proc[q].stamp
    /\ \A p \in Proc : StampOwn(p)

\* The snapshot of a call that is going to take the canvas away has all the files
\* of it that others have not touched since.
Kept(p, f) ==
    Has(Dest(p), f) => proc[p].stamp # 0 /\ Has(Mine(p), f) /\ dir[Mine(p)][f] = dir[Dest(p)][f]
SafeOwn(p) ==
    /\ proc[p].pc = "snap" =>
          \A f \in File \ (hist[p].dirty \cup proc[p].todo) : Kept(p, f)
    /\ proc[p].pc \in {"clear", "start", "restore", "out"} =>
          /\ \A f \in File \ hist[p].dirty : Kept(p, f)
          /\ proc[p].stamp # 0 => Mine(p) \in whole
SafeInv == \A p \in Proc : SafeOwn(p)

\* The snapshots that a revert may be to: the one named, or the latest of them.
There(p) == Snapshots(Call(p).c) \ {proc[p].stamp}
Choice(p) == {n \in There(p) : IF Call(p).name # 0 THEN n = Call(p).name ELSE \A m \in There(p) : m <= n}

\* Where a revert that nobody else moves with has got to.
ExactInv(p) ==
    LET pc == proc[p].pc
        asked == dir[snapshot(Call(p).c, proc[p].target)]
        orig == hist[p].orig
    IN  /\ pc # "begin" => proc[p].target \in Choice(p)
        /\ pc \in {"begin", "create", "snap", "clear", "start", "restore", "out"} => dir[Dest(p)] = orig
        /\ pc \in {"start", "restore", "out"} => ~Exists(Spare(p))
        /\ pc = "start" => ~Exists(Fresh(p))
        /\ pc = "restore" => /\ Exists(Fresh(p)) /\ proc[p].todo \subseteq Entries(asked)
                             /\ \A n \in Name \ proc[p].todo : dir[Fresh(p)][n] = asked[n]
        /\ pc \in {"out", "in"} => dir[Fresh(p)] = asked
        /\ pc = "in" => ~Exists(Dest(p)) /\ dir[Spare(p)] = orig
        /\ pc = "drop" => dir[Dest(p)] = asked

AloneOwn(p) ==
    Active(p) /\ hist[p].alone =>
        /\ \A q \in Proc \ {p} : ~Active(q)
        /\ Call(p).op = "revert" => ExactInv(p)
AloneInv == \A p \in Proc : AloneOwn(p)

\* There is no snapshot but those that were started.
ClockInv == \A c \in Canvas, n \in 1 .. MaxSnaps : n > clock => ~Exists(snapshot(c, n))

Invs == TypeOK /\ EditInv /\ StampInv /\ SafeInv /\ AloneInv
LocalInv == Invs /\ ClockInv /\ SnapshotsAreWhole

-----------------------------------------------------------------------------
(* Places.                                                                 *)

LEMMA Places ==
    /\ \A c, d \in Canvas :
          /\ live(c) # tmpDir(d) /\ live(c) # oldDir(d) /\ tmpDir(c) # oldDir(d)
          /\ live(c) = live(d) => c = d
          /\ tmpDir(c) = tmpDir(d) => c = d
          /\ oldDir(c) = oldDir(d) => c = d
    /\ \A c \in Canvas, p \in Proc :
          /\ live(c) # staging(p) /\ live(c) # aside(p) /\ tmpDir(c) # staging(p)
          /\ tmpDir(c) # aside(p) /\ oldDir(c) # staging(p) /\ oldDir(c) # aside(p)
    /\ \A p, q \in Proc : staging(p) # aside(q)
BY DEF live, tmpDir, oldDir, staging, aside

LEMMA SnapshotPlaces ==
    ASSUME NEW c \in Canvas, NEW n \in 1 .. MaxSnaps
    PROVE  /\ \A d \in Canvas : /\ snapshot(c, n) # live(d) /\ snapshot(c, n) # tmpDir(d)
                               /\ snapshot(c, n) # oldDir(d)
           /\ \A p \in Proc : snapshot(c, n) # staging(p) /\ snapshot(c, n) # aside(p)
           /\ \A d \in Canvas, m \in 1 .. MaxSnaps : snapshot(c, n) = snapshot(d, m) => c = d /\ n = m
BY DEF live, tmpDir, oldDir, staging, aside, snapshot

LEMMA InPlace ==
    /\ \A c \in Canvas : /\ live(c) \in Place /\ tmpDir(c) \in Place /\ oldDir(c) \in Place
                        /\ \A n \in 1 .. MaxSnaps : snapshot(c, n) \in Place
    /\ \A p \in Proc : staging(p) \in Place /\ aside(p) \in Place
BY DEF Place

LEMMA CallType ==
    ASSUME TypeOK, NEW p \in Proc, Active(p)
    PROVE  /\ Call(p) \in Request /\ Call(p).c \in Canvas
           /\ Call(p).op \in {"edit", "write", "snap", "rm", "revert", "copy"}
           /\ Call(p).op = "edit" => Call(p).f \in File /\ Call(p).edits \in Seq(Edits(Token))
           /\ Call(p).op = "write" => Call(p).f \in File /\ Call(p).body \in Seq(Token)
           /\ Call(p).op = "revert" => Call(p).name \in Nat
           /\ Call(p).op = "copy" => Call(p).to \in Canvas
           /\ proc[p].pc \in Stages(Call(p).op)
<1> DEFINE c == Call(p)
<1>1. c \in Request /\ proc[p].pc \in Stages(c.op)
  BY DEF TypeOK, Active, Idle, Call
<1> HIDE DEF c
<1>2. CASE c \in [op : {"edit"}, c : Canvas, f : File, edits : Seq(Edits(Token))]
  BY <1>1, <1>2 DEF c
<1>3. CASE c \in [op : {"write"}, c : Canvas, f : File, body : Seq(Token)]
  BY <1>1, <1>3 DEF c
<1>4. CASE c \in [op : {"snap", "rm"}, c : Canvas]
  BY <1>1, <1>4 DEF c
<1>5. CASE c \in [op : {"revert"}, c : Canvas, name : Nat]
  BY <1>1, <1>5 DEF c
<1>6. CASE c \in [op : {"copy"}, c : Canvas, to : Canvas, overwrite : BOOLEAN]
  BY <1>1, <1>6 DEF c
<1> QED
  BY <1>1, <1>2, <1>3, <1>4, <1>5, <1>6 DEF Request

LEMMA DestType ==
    ASSUME TypeOK, NEW p \in Proc, Active(p)
    PROVE  /\ \E d \in Canvas : Dest(p) = live(d) /\ Dest(p)[2] = d
           /\ Dest(p) \in Place /\ Fresh(p) \in Place /\ Spare(p) \in Place
           /\ Fresh(p) # Spare(p) /\ Fresh(p) # Dest(p) /\ Spare(p) # Dest(p)
           /\ \A d \in Canvas : Fresh(p) # live(d) /\ Spare(p) # live(d)
           /\ \A d \in Canvas, n \in 1 .. MaxSnaps :
                 Fresh(p) # snapshot(d, n) /\ Spare(p) # snapshot(d, n) /\ Dest(p) # snapshot(d, n)
           /\ proc[p].stamp # 0 => \E d \in Canvas, n \in 1 .. clock : Mine(p) = snapshot(d, n) /\ n = proc[p].stamp
           /\ proc[p].stamp # 0 => /\ Mine(p) \in Place /\ Mine(p) # Fresh(p) /\ Mine(p) # Spare(p)
                                  /\ \A d \in Canvas : Mine(p) # live(d)
<1> DEFINE c == Call(p).c
           d == IF Call(p).op = "copy" THEN Call(p).to ELSE Call(p).c
<1>1. c \in Canvas /\ d \in Canvas
  BY CallType
<1>2. Dest(p) = live(d) /\ live(d)[2] = d
  BY DEF Dest, live
<1>3. \/ Fresh(p) = staging(p) /\ Spare(p) = aside(p)
      \/ Fresh(p) = tmpDir(c) /\ Spare(p) = oldDir(c)
  BY DEF Fresh, Spare
<1>4. proc[p].stamp \in 0 .. clock /\ clock \in 0 .. MaxSnaps /\ MaxSnaps \in Nat
  BY LocalStoreAssumption DEF TypeOK, LocalStoreAssumption
<1>5. proc[p].stamp # 0 => proc[p].stamp \in 1 .. clock /\ proc[p].stamp \in 1 .. MaxSnaps
  BY <1>4
<1>6. Mine(p) = snapshot(d, proc[p].stamp)
  BY <1>2 DEF Mine
<1> HIDE DEF c, d
<1>7. /\ Fresh(p) \in Place /\ Spare(p) \in Place /\ Fresh(p) # Spare(p)
      /\ \A e \in Canvas : Fresh(p) # live(e) /\ Spare(p) # live(e)
  <2>1. CASE Fresh(p) = staging(p) /\ Spare(p) = aside(p)
    BY <2>1, Places, InPlace
  <2>2. CASE Fresh(p) = tmpDir(c) /\ Spare(p) = oldDir(c)
    BY <1>1, <2>2, Places, InPlace
  <2> QED BY <1>3, <2>1, <2>2
<1>8. \A e \in Canvas, n \in 1 .. MaxSnaps :
         Fresh(p) # snapshot(e, n) /\ Spare(p) # snapshot(e, n) /\ Dest(p) # snapshot(e, n)
  BY <1>1, <1>2, <1>3, SnapshotPlaces
<1>9. proc[p].stamp # 0 =>
         Mine(p) \in Place /\ \E e \in Canvas, n \in 1 .. clock : Mine(p) = snapshot(e, n) /\ n = proc[p].stamp
  BY <1>1, <1>5, <1>6, InPlace
<1>11. proc[p].stamp # 0 => /\ Mine(p) # Fresh(p) /\ Mine(p) # Spare(p)
                           /\ \A e \in Canvas : Mine(p) # live(e)
  BY <1>1, <1>5, <1>6, <1>8, SnapshotPlaces
<1>10. Dest(p) \in Place /\ Fresh(p) # Dest(p) /\ Spare(p) # Dest(p)
  BY <1>1, <1>2, <1>7, InPlace
<1> QED
  BY <1>1, <1>2, <1>7, <1>8, <1>9, <1>10, <1>11

-----------------------------------------------------------------------------
(* Types.                                                                  *)

ProcType == [pc : Pcs, call : Request \cup {None}, todo : SUBSET Name,
             stamp : 0..clock, target : 0..clock, had : BOOLEAN,
             base : Seq(Token) \cup {None}, buf : Seq(Token) \cup {None}]
HistType == [alone : BOOLEAN, orig : Dir \cup {None}, dirty : SUBSET File]

WholeOK == \A s \in whole : Exists(s) /\ \E c \in Canvas, n \in 1 .. clock : s = snapshot(c, n)

\* A step of p alone.
Moves(p, r) == r \in ProcType' /\ proc' = [proc EXCEPT ![p] = r]
               /\ IF r.call = None THEN r = Idle ELSE r.pc \in Stages(r.call.op)

LEMMA TypeKept ==
    ASSUME TypeOK, NEW p \in Proc, NEW r, Moves(p, r), dir' \in [Place -> Dir \cup {None}],
           clock' \in clock .. MaxSnaps, left' \in [Proc -> Seq(Request)], hist' \in [Proc -> HistType],
           crashed' \in BOOLEAN, WholeOK'
    PROVE  TypeOK'
<1>1. clock \in 0 .. MaxSnaps /\ clock' \in 0 .. MaxSnaps /\ clock <= clock'
  BY DEF TypeOK
<1>2. proc \in [Proc -> ProcType] /\ \A q \in Proc : proc[q] \in ProcType'
  BY <1>1 DEF TypeOK, ProcType
<1>3. proc' \in [Proc -> ProcType'] /\ proc'[p] = r /\ \A q \in Proc : q # p => proc'[q] = proc[q]
  BY <1>2 DEF Moves
<1>4. \A q \in Proc : IF proc'[q].call = None THEN proc'[q] = Idle
                     ELSE proc'[q].pc \in Stages(proc'[q].call.op)
  BY <1>3 DEF TypeOK, Moves
<1> QED
  BY <1>1, <1>3, <1>4 DEF TypeOK, ProcType, HistType, WholeOK

LEMMA InitType == Init => TypeOK
<1> SUFFICES ASSUME Init PROVE TypeOK
  OBVIOUS
<1>1. dir \in [Place -> Dir \cup {None}]
  BY LocalStoreAssumption DEF Init, LocalStoreAssumption
<1>2. Idle \in ProcType
  <2>1. clock = 0
    BY DEF Init
  <2>2. 0 \in 0 .. clock /\ {} \in SUBSET Name
    BY <2>1
  <2>3. "idle" \in Pcs
    BY DEF Pcs
  <2>4. FALSE \in BOOLEAN
    BY SMT
  <2> HIDE DEF Name, Request
  <2> QED BY <2>2, <2>3, <2>4 DEF Idle, ProcType
<1>3. Unwatched \in HistType
  BY DEF Unwatched, HistType
<1> QED
  <2>1. proc = [p \in Proc |-> Idle] /\ hist = [p \in Proc |-> Unwatched] /\ whole = {}
        /\ crashed = FALSE /\ clock = 0 /\ left \in Scenarios
    BY DEF Init
  <2>2. proc \in [Proc -> ProcType] /\ hist \in [Proc -> HistType] /\ left \in [Proc -> Seq(Request)]
    BY LocalStoreAssumption, <1>2, <1>3, <2>1 DEF LocalStoreAssumption
  <2>3. \A p \in Proc : proc[p].call = None /\ proc[p] = Idle
    BY <2>1 DEF Idle
  <2>4. MaxSnaps \in Nat
    BY LocalStoreAssumption DEF LocalStoreAssumption
  <2>5. clock \in 0 .. MaxSnaps
    BY <2>1, <2>4
  <2>8. crashed \in BOOLEAN
    BY <2>1
  <2>6. \A s \in whole : Exists(s) /\ \E c \in Canvas, n \in 1 .. clock : s = snapshot(c, n)
    BY <2>1
  <2>7. \A p \in Proc :
          IF proc[p].call = None THEN proc[p] = Idle ELSE proc[p].pc \in Stages(proc[p].call.op)
    BY <2>3
  <2> QED BY <1>1, <2>2, <2>5, <2>6, <2>7, <2>8 DEF TypeOK, ProcType, HistType

\* A step of p that changes its place only.
LEMMA GotoMoves ==
    ASSUME TypeOK, NEW p \in Proc, NEW pc \in Pcs, pc \in Stages(Call(p).op), Call(p) # None,
           clock' = clock, Goto(p, pc)
    PROVE  Moves(p, [proc[p] EXCEPT !.pc = pc])
BY DEF TypeOK, ProcType, Moves, Goto, Call

LEMMA OverMoves ==
    ASSUME TypeOK, NEW p \in Proc, Over(p), clock' \in Nat
    PROVE  Moves(p, Idle)
<1>1. Idle \in ProcType'
  <2>1. 0 \in 0 .. clock' /\ {} \in SUBSET Name
    OBVIOUS
  <2>2. "idle" \in Pcs
    BY DEF Pcs
  <2>3. FALSE \in BOOLEAN
    OBVIOUS
  <2> HIDE DEF Name, Request
  <2> QED BY <2>1, <2>2, <2>3 DEF Idle, ProcType
<1> QED
  BY <1>1 DEF Moves, Over, Idle

LEMMA DirTypes ==
    ASSUME TypeOK
    PROVE  /\ dir \in [Place -> Dir \cup {None}] /\ Empty \in Dir
           /\ \A x \in Place : MkdirAll(x) \in Dir
           /\ \A xs : Removed(xs) \in [Place -> Dir \cup {None}]
           /\ \A x, y \in Place : Renamed(x, y) \in [Place -> Dir \cup {None}]
           /\ \A x \in Place, d \in Dir : [dir EXCEPT ![x] = d] \in [Place -> Dir \cup {None}]
<1>1. dir \in [Place -> Dir \cup {None}]
  BY DEF TypeOK
<1>2. Empty \in Dir
  BY DEF Empty, Dir
<1> HIDE DEF Dir, Place
<1> QED
  BY <1>1, <1>2 DEF MkdirAll, Removed, Renamed, Exists

LEMMA DirPut ==
    ASSUME NEW d \in Dir, NEW n \in Name, NEW b \in Seq(Token) \cup {None}
    PROVE  [d EXCEPT ![n] = b] \in Dir
BY DEF Dir

LEMMA DirtyType ==
    ASSUME TypeOK, NEW p \in Proc, NEW files \in SUBSET File
    PROVE  Dirty(p, files) \in [Proc -> HistType]
<1>1. hist \in [Proc -> HistType]
  BY DEF TypeOK, HistType
<1>2. ASSUME NEW h \in HistType PROVE [h EXCEPT !.dirty = @ \cup files] \in HistType
  BY DEF HistType
<1> QED
  BY <1>1, <1>2 DEF Dirty

LEMMA MovesFrom ==
    ASSUME TypeOK, NEW p \in Proc, Active(p), NEW r \in ProcType',
           r.call = Call(p), r.pc \in Stages(Call(p).op), proc' = [proc EXCEPT ![p] = r]
    PROVE  Moves(p, r)
<1>1. Call(p) \in Request /\ None \notin Request
  BY LocalStoreAssumption, CallType DEF LocalStoreAssumption
<1> QED
  BY <1>1 DEF Moves

\* What a step of p leaves typed.
Typed(p) ==
    /\ \E r : Moves(p, r)
    /\ dir' \in [Place -> Dir \cup {None}] /\ clock' \in clock .. MaxSnaps
    /\ left' \in [Proc -> Seq(Request)] /\ hist' \in [Proc -> HistType] /\ crashed' \in BOOLEAN

LEMMA Variables ==
    ASSUME TypeOK
    PROVE  /\ proc \in [Proc -> ProcType] /\ hist \in [Proc -> HistType] /\ left \in [Proc -> Seq(Request)]
           /\ crashed \in BOOLEAN /\ clock \in 0 .. MaxSnaps /\ clock \in clock .. MaxSnaps /\ clock \in Nat
           /\ clock' = clock => ProcType' = ProcType
           /\ \A p \in Proc : proc[p] \in ProcType
<1>1. clock \in 0 .. MaxSnaps /\ MaxSnaps \in Nat
  BY LocalStoreAssumption DEF TypeOK, LocalStoreAssumption
<1>2. clock' = clock => ProcType' = ProcType
  BY DEF ProcType
<1>3. proc \in [Proc -> ProcType] /\ hist \in [Proc -> HistType] /\ left \in [Proc -> Seq(Request)]
      /\ crashed \in BOOLEAN
  BY DEF TypeOK, ProcType, HistType
<1> QED
  BY <1>1, <1>2, <1>3

LEMMA TypeBegin ==
    ASSUME TypeOK, NEW p \in Proc, Begin(p)
    PROVE  Typed(p) /\ dir' = dir /\ whole' = whole
<1>1. PICK call : /\ call = Head(left[p])
                  /\ proc' = [proc EXCEPT ![p].pc = "begin", ![p].call = call]
                  /\ hist' = Watch(p, IF call.op = "copy" THEN call.to ELSE call.c)
  BY DEF Begin
<1>2. call \in Request /\ left' \in [Proc -> Seq(Request)]
  BY <1>1, Variables DEF Begin
<1>3. PICK r : r = [proc[p] EXCEPT !.pc = "begin", !.call = call]
  OBVIOUS
<1>4. call.op \in {"edit", "write", "snap", "rm", "revert", "copy"}
      /\ (IF call.op = "copy" THEN call.to ELSE call.c) \in Canvas
  BY <1>2 DEF Request
<1>5. Moves(p, r)
  <2>1. clock' = clock /\ proc[p] \in ProcType
    BY Variables DEF Begin
  <2>2. r \in ProcType'
    <3>1. "begin" \in Pcs
      BY DEF Pcs
    <3> QED BY <1>2, <1>3, <2>1, <3>1, Variables DEF ProcType
  <2>3. r.call = call /\ r.pc = "begin"
    BY <1>3, <2>1 DEF ProcType
  <2>4. proc' = [proc EXCEPT ![p] = r]
    BY <1>1, <1>3, Variables DEF ProcType
  <2>5. "begin" \in Stages(call.op)
    BY <1>4 DEF Stages
  <2>6. call # None
    BY LocalStoreAssumption, <1>2 DEF LocalStoreAssumption
  <2> QED BY <2>2, <2>3, <2>4, <2>5, <2>6 DEF Moves
<1>6. hist' \in [Proc -> HistType]
  <2>1. PICK d : d = dir[live(IF call.op = "copy" THEN call.to ELSE call.c)]
    OBVIOUS
  <2>2. d \in Dir \cup {None}
    BY <1>4, <2>1, DirTypes, InPlace
  <2>3. [alone |-> Others(p) = {}, orig |-> d, dirty |-> {}] \in HistType
    <3>1. (Others(p) = {}) \in BOOLEAN
      OBVIOUS
    <3> QED BY <2>2, <3>1 DEF HistType
  <2>4. ASSUME NEW q \in Proc PROVE [hist[q] EXCEPT !.alone = FALSE] \in HistType
    <3>1. hist[q] \in HistType /\ FALSE \in BOOLEAN
      BY Variables
    <3> QED BY <3>1 DEF HistType
  <2> QED BY <1>1, <2>1, <2>3, <2>4 DEF Watch
<1> QED
  BY <1>2, <1>5, <1>6, Variables, DirTypes DEF Begin, Typed

\* A step of p that changes neither the directories nor the history.
LEMMA TypeQuiet ==
    ASSUME TypeOK, NEW p \in Proc, NEW r, Moves(p, r),
           dir' \in [Place -> Dir \cup {None}], hist' \in [Proc -> HistType],
           clock' \in clock .. MaxSnaps, UNCHANGED <<left, crashed>>
    PROVE  Typed(p)
BY Variables DEF Typed

LEMMA TypeOver ==
    ASSUME TypeOK, NEW p \in Proc, Over(p), UNCHANGED <<clock, left>>,
           crashed' \in BOOLEAN, dir' \in [Place -> Dir \cup {None}], hist' \in [Proc -> HistType]
    PROVE  Typed(p)
<1>1. Moves(p, Idle)
  BY OverMoves, Variables
<1> QED
  BY <1>1, Variables DEF Typed

LEMMA TypeGoto ==
    ASSUME TypeOK, NEW p \in Proc, Active(p), NEW pc \in Stages(Call(p).op),
           pc \in Pcs, Goto(p, pc), UNCHANGED <<clock, left, crashed>>,
           dir' \in [Place -> Dir \cup {None}], hist' \in [Proc -> HistType]
    PROVE  Typed(p)
<1>1. Call(p) # None
  BY LocalStoreAssumption, CallType DEF LocalStoreAssumption
<1> QED
  BY <1>1, GotoMoves, TypeQuiet, Variables

LEMMA StageOf ==
    ASSUME TypeOK, NEW p \in Proc, Active(p)
    PROVE  /\ proc[p].pc \in {"temp", "rename"} => Call(p).op \in {"edit", "write"}
           /\ proc[p].pc \in {"create", "snap"} => Call(p).op \in {"snap", "revert", "copy"}
           /\ proc[p].pc \in {"clear", "start", "restore"} => Call(p).op = "revert"
           /\ proc[p].pc = "stage" => Call(p).op = "copy"
           /\ proc[p].pc \in {"out", "in", "drop"} => Call(p).op \in {"revert", "copy"}
<1>1. proc[p].pc \in Stages(Call(p).op) /\ Call(p).op \in {"edit", "write", "snap", "rm", "revert", "copy"}
  BY CallType
<1>2. CASE Call(p).op \in {"edit", "write"}
  BY <1>1, <1>2 DEF Stages
<1>3. CASE Call(p).op = "snap"
  BY <1>1, <1>3 DEF Stages
<1>4. CASE Call(p).op = "revert"
  BY <1>1, <1>4 DEF Stages
<1>5. CASE Call(p).op = "copy"
  BY <1>1, <1>5 DEF Stages
<1>6. CASE Call(p).op = "rm"
  BY <1>1, <1>6 DEF Stages
<1> QED
  BY <1>1, <1>2, <1>3, <1>4, <1>5, <1>6

LEMMA CanGo ==
    ASSUME NEW op
    PROVE  /\ op \in {"edit", "write"} => "temp" \in Stages(op) /\ "rename" \in Stages(op)
           /\ op \in {"snap", "revert", "copy"} => "create" \in Stages(op) /\ "snap" \in Stages(op)
           /\ op = "revert" => /\ "clear" \in Stages(op) /\ "start" \in Stages(op)
                               /\ "restore" \in Stages(op)
           /\ op = "copy" => "stage" \in Stages(op)
           /\ op \in {"revert", "copy"} => /\ "out" \in Stages(op) /\ "in" \in Stages(op)
                                          /\ "drop" \in Stages(op)
<1>2. CASE op \in {"edit", "write"}
  BY <1>2 DEF Stages
<1>3. CASE op = "snap"
  BY <1>3 DEF Stages
<1>4. CASE op = "revert"
  BY <1>4 DEF Stages
<1>5. CASE op = "copy"
  BY <1>5 DEF Stages
<1> QED
  BY <1>2, <1>3, <1>4, <1>5

LEMMA TypeEdit ==
    ASSUME TypeOK, NEW p \in Proc, EditFile(p)
    PROVE  /\ Typed(p)
           /\ ~Over(p) =>
                 /\ proc'[p].pc = "temp" /\ proc'[p].stamp = proc[p].stamp /\ proc'[p].call = Call(p)
                 /\ proc'[p].base \in Seq(Token) /\ proc'[p].buf \in Seq(Token) /\ proc'[p].buf # Failed
                 /\ proc'[p].buf = ApplyBatch(proc'[p].base, Call(p).edits)
<1>1. Active(p) /\ Call(p).op = "edit"
  BY DEF EditFile, At, Active
<1>2. dir' = dir /\ hist' = hist /\ UNCHANGED <<clock, left, whole, crashed>>
  BY DEF EditFile, Unchanged
<1>3. PICK data, edited :
         /\ data = (IF Exists(Dest(p)) THEN dir[Dest(p)][Call(p).f] ELSE None)
         /\ edited = ApplyBatch(data, Call(p).edits)
         /\ IF data = None \/ Len(data) > MaxBytes \/ edited = Failed
            THEN Over(p)
            ELSE proc' = [proc EXCEPT ![p].pc = "temp", ![p].base = data, ![p].buf = edited]
  BY DEF EditFile
<1>4. CASE Over(p)
  BY <1>2, <1>4, TypeOver, Variables, DirTypes
<1>5. CASE ~Over(p)
  <2>1. data # None /\ edited # Failed
        /\ proc' = [proc EXCEPT ![p].pc = "temp", ![p].base = data, ![p].buf = edited]
    BY <1>3, <1>5
  <2>2. data \in Seq(Token)
    <3>1. Exists(Dest(p)) /\ data = dir[Dest(p)][Call(p).f]
      BY <1>3, <2>1
    <3>2. dir[Dest(p)] \in Dir /\ Call(p).f \in Name
      BY <1>1, <3>1, CallType, DestType, DirTypes DEF Exists, Name
    <3> QED BY <2>1, <3>1, <3>2 DEF Dir
  <2>3. edited \in Seq(Token)
    BY <1>1, <1>3, <2>1, <2>2, CallType, BatchIsWhole
  <2>4. PICK r : r = [proc[p] EXCEPT !.pc = "temp", !.base = data, !.buf = edited]
    OBVIOUS
  <2>5. proc[p] \in ProcType /\ "temp" \in Pcs
    BY Variables DEF Pcs
  <2>6. proc' = [proc EXCEPT ![p] = r]
    BY <2>1, <2>4, Variables DEF ProcType
  <2>7. r \in ProcType /\ r.pc = "temp" /\ r.call = Call(p) /\ r.base = data /\ r.buf = edited
        /\ r.stamp = proc[p].stamp
    BY <2>2, <2>3, <2>4, <2>5 DEF ProcType, Call
  <2>8. Moves(p, r)
    BY <1>1, <1>2, <2>6, <2>7, MovesFrom, CanGo, Variables
  <2>9. proc'[p] = r
    BY <2>6, Variables
  <2>10. Typed(p)
    BY <1>2, <2>8, TypeQuiet, Variables, DirTypes
  <2> QED BY <1>3, <2>1, <2>2, <2>3, <2>7, <2>9, <2>10
<1> QED
  BY <1>4, <1>5

LEMMA TypeWrite ==
    ASSUME TypeOK, NEW p \in Proc, WriteFile(p)
    PROVE  /\ Typed(p)
           /\ ~Over(p) => /\ proc'[p].pc = "temp" /\ proc'[p].stamp = proc[p].stamp
                          /\ proc'[p].call = Call(p) /\ proc'[p].buf \in Seq(Token)
<1>1. Active(p) /\ Call(p).op = "write"
  BY DEF WriteFile, At, Active
<1>2. dir' = dir /\ hist' = hist /\ UNCHANGED <<clock, left, whole, crashed>>
  BY DEF WriteFile, Unchanged
<1>4. CASE Over(p)
  BY <1>2, <1>4, TypeOver, Variables, DirTypes
<1>5. CASE ~Over(p)
  <2>1. proc' = [proc EXCEPT ![p].pc = "temp", ![p].buf = Call(p).body]
    BY <1>5 DEF WriteFile
  <2>4. PICK r : r = [proc[p] EXCEPT !.pc = "temp", !.buf = Call(p).body]
    OBVIOUS
  <2>5. proc[p] \in ProcType /\ "temp" \in Pcs /\ Call(p).body \in Seq(Token)
    BY <1>1, CallType, Variables DEF Pcs
  <2>6. proc' = [proc EXCEPT ![p] = r]
    BY <2>1, <2>4, Variables DEF ProcType
  <2>7. r \in ProcType /\ r.pc = "temp" /\ r.call = Call(p) /\ r.buf = Call(p).body
        /\ r.stamp = proc[p].stamp
    BY <2>4, <2>5 DEF ProcType, Call
  <2>8. Moves(p, r)
    BY <1>1, <1>2, <2>6, <2>7, MovesFrom, CanGo, Variables
  <2>9. proc'[p] = r
    BY <2>6, Variables
  <2>10. Typed(p)
    BY <1>2, <2>8, TypeQuiet, Variables, DirTypes
  <2> QED BY <2>5, <2>7, <2>9, <2>10
<1> QED
  BY <1>4, <1>5

-----------------------------------------------------------------------------
(* What a step of p does to the others: a snapshot changes only in the     *)
(* hands of the call that takes it, and what a file of a canvas becomes is *)
(* in the history of the other calls that have the canvas as destination.  *)

SnapsKept(p) ==
    \A c \in Canvas, n \in 1 .. MaxSnaps :
        \/ dir'[snapshot(c, n)] = dir[snapshot(c, n)]
        \/ proc[p].pc = "snap" /\ snapshot(c, n) = Mine(p)
        \/ /\ proc[p].pc = "create" /\ clock' = clock + 1 /\ n = clock + 1
           /\ snapshot(c, n) = snapshot(Dest(p)[2], n) /\ proc'[p].pc = "snap"
LiveKept(p) ==
    \A d \in Canvas, f \in File :
        dir'[live(d)] # None /\ dir'[live(d)][f] # None =>
            \/ /\ dir[live(d)] # None
               /\ dir'[live(d)][f] = dir[live(d)][f]
            \/ \A q \in Proc \ {p} : Active(q) /\ Dest(q) = live(d) => f \in hist'[q].dirty
OthersKept(p) ==
    \A q \in Proc \ {p} :
        /\ proc'[q] = proc[q] /\ hist[q].dirty \subseteq hist'[q].dirty
        /\ hist'[q].alone => hist[q].alone /\ Active(p)
StampMoves(p) ==
    \/ clock' = clock /\ proc'[p].stamp \in {0, proc[p].stamp}
    \/ /\ clock' = clock + 1 /\ proc[p].pc = "create"
       /\ proc'[p].stamp = clock + 1 /\ proc'[p].call = Call(p) /\ proc'[p].pc = "snap"
WholeMoves(p) ==
    \/ whole' = whole
    \/ proc[p].pc = "snap" /\ whole' = whole \cup {Mine(p)} /\ dir' = dir

Shape(p) ==
    Typed(p) /\ SnapsKept(p) /\ LiveKept(p) /\ OthersKept(p) /\ StampMoves(p) /\ WholeMoves(p)

LEMMA OthersStill ==
    ASSUME TypeOK, NEW p \in Proc, Typed(p)
    PROVE  \A q \in Proc \ {p} : proc'[q] = proc[q]
BY Variables DEF Typed, Moves

LEMMA OverStamp ==
    ASSUME TypeOK, NEW p \in Proc, Over(p)
    PROVE  proc'[p] = Idle /\ proc'[p].stamp = 0 /\ proc'[p].pc = "idle"
BY Variables DEF Over, Idle

LEMMA GotoStamp ==
    ASSUME TypeOK, NEW p \in Proc, NEW pc, Goto(p, pc)
    PROVE  /\ proc'[p].stamp = proc[p].stamp /\ proc'[p].pc = pc /\ proc'[p].call = Call(p)
           /\ proc'[p].buf = proc[p].buf /\ proc'[p].base = proc[p].base
           /\ proc'[p].todo = proc[p].todo /\ proc'[p].target = proc[p].target
BY Variables DEF Goto, ProcType, Call

\* The places that other calls look at.
Seen(x) == (\E d \in Canvas : x = live(d)) \/ (\E d \in Canvas, n \in 1 .. MaxSnaps : x = snapshot(d, n))

LEMMA ShapeQuiet ==
    ASSUME TypeOK, NEW p \in Proc, Typed(p), Active(p),
           \A x \in Place : Seen(x) => dir'[x] = dir[x],
           UNCHANGED <<clock, whole, hist>>, proc'[p].stamp \in {0, proc[p].stamp}
    PROVE  Shape(p)
<1>1. SnapsKept(p) /\ LiveKept(p)
  BY InPlace DEF SnapsKept, LiveKept, Seen
<1>2. OthersKept(p)
  BY OthersStill DEF OthersKept
<1> QED
  BY <1>1, <1>2 DEF Shape, StampMoves, WholeMoves

LEMMA ShapeStill ==
    ASSUME TypeOK, NEW p \in Proc, Typed(p), Active(p),
           UNCHANGED <<dir, clock, whole, hist>>, proc'[p].stamp \in {0, proc[p].stamp}
    PROVE  Shape(p)
BY ShapeQuiet

\* ... and so does one that changes its own temporary directories.
LEMMA ShapeAside ==
    ASSUME TypeOK, NEW p \in Proc, Typed(p), Active(p),
           \A x \in Place : x # Fresh(p) /\ x # Spare(p) => dir'[x] = dir[x],
           UNCHANGED <<clock, whole, hist>>, proc'[p].stamp \in {0, proc[p].stamp}
    PROVE  Shape(p)
<1>1. \A x \in Place : Seen(x) => x # Fresh(p) /\ x # Spare(p)
  BY DestType DEF Seen
<1> QED
  BY <1>1, ShapeQuiet

LEMMA ShapeBegin ==
    ASSUME TypeOK, NEW p \in Proc, Begin(p)
    PROVE  Shape(p) /\ proc'[p].stamp = proc[p].stamp
<1>1. Typed(p) /\ dir' = dir /\ whole' = whole /\ clock' = clock
  BY TypeBegin DEF Begin
<1>2. SnapsKept(p) /\ WholeMoves(p)
  BY <1>1 DEF SnapsKept, WholeMoves
<1>3. LiveKept(p)
  BY <1>1 DEF LiveKept
<1>4. proc'[p].stamp = proc[p].stamp
  BY Variables DEF Begin, ProcType
<1>5. OthersKept(p)
  <2>1. ASSUME NEW q \in Proc \ {p} PROVE hist'[q] = [hist[q] EXCEPT !.alone = FALSE]
    BY <2>1 DEF Begin, Watch
  <2>2. ASSUME NEW q \in Proc \ {p} PROVE hist'[q].dirty = hist[q].dirty /\ ~hist'[q].alone
    BY <2>1, Variables DEF HistType
  <2> QED BY <1>1, <2>2, OthersStill DEF OthersKept
<1> QED
  BY <1>1, <1>2, <1>3, <1>4, <1>5 DEF Shape, StampMoves

LEMMA ShapeEdit ==
    ASSUME TypeOK, NEW p \in Proc, EditFile(p) \/ WriteFile(p)
    PROVE  Shape(p) /\ proc'[p].stamp \in {0, proc[p].stamp}
<1>1. Typed(p) /\ UNCHANGED <<dir, clock, whole, hist>> /\ Active(p)
  BY TypeEdit, TypeWrite DEF EditFile, WriteFile, Unchanged, At, Active
<1>2. proc'[p].stamp \in {0, proc[p].stamp}
  BY TypeEdit, TypeWrite, OverStamp
<1> QED
  BY <1>1, <1>2, ShapeStill

LEMMA ShapeTemp ==
    ASSUME TypeOK, NEW p \in Proc, CreateTemp(p)
    PROVE  Shape(p) /\ proc'[p].stamp \in {0, proc[p].stamp}
<1>1. Active(p) /\ UNCHANGED <<clock, left, whole, crashed, hist>> /\ proc[p].pc = "temp"
  BY DEF CreateTemp, Active, Unchanged
<1>2. CASE Over(p) /\ dir' = dir
  BY <1>1, <1>2, TypeOver, OverStamp, ShapeStill, Variables, DirTypes
<1>3. CASE /\ dir' = [dir EXCEPT ![Dest(p)] = [MkdirAll(Dest(p)) EXCEPT ![p] = proc[p].buf]]
           /\ Goto(p, "rename")
  <2>1. PICK d \in Canvas : Dest(p) = live(d) /\ Dest(p) \in Place
    BY <1>1, DestType
  <2>2. PICK e : e = [MkdirAll(Dest(p)) EXCEPT ![p] = proc[p].buf]
    OBVIOUS
  <2>3. MkdirAll(Dest(p)) \in Dir /\ proc[p].buf \in Seq(Token) \cup {None} /\ p \in Name
    BY <2>1, DirTypes, Variables DEF ProcType, Name
  <2>4. e \in Dir
    BY <2>2, <2>3, DirPut
  <2>5. dir' \in [Place -> Dir \cup {None}]
    BY <1>3, <2>1, <2>2, <2>4, DirTypes
  <2>6. Typed(p)
    BY <1>1, <1>3, <2>5, TypeGoto, StageOf, CanGo, Variables DEF Pcs
  <2>7. \A x \in Place : x # live(d) => dir'[x] = dir[x]
    BY <1>3, <2>1, DirTypes
  <2>8. dir'[live(d)] = e
    BY <1>3, <2>1, <2>2, DirTypes
  <2>9. \A f \in File : e[f] = MkdirAll(live(d))[f]
    BY LocalStoreAssumption, <2>1, <2>2, <2>3 DEF Dir, Name, LocalStoreAssumption
  <2>10. LiveKept(p)
    <3> SUFFICES ASSUME NEW b \in Canvas, NEW f \in File, dir'[live(b)] # None, dir'[live(b)][f] # None
                 PROVE  dir[live(b)] # None /\ dir'[live(b)][f] = dir[live(b)][f]
      BY DEF LiveKept
    <3>1. CASE b = d
      <4>1. MkdirAll(live(d))[f] # None
        BY <2>8, <2>9, <3>1
      <4>2. f \in Name
        BY DEF Name
      <4>3. Exists(live(d))
        BY <4>1, <4>2 DEF MkdirAll, Empty
      <4> QED BY <2>8, <2>9, <3>1, <4>3 DEF MkdirAll, Exists
    <3>2. CASE b # d
      BY <2>7, <3>2, Places, InPlace
    <3> QED BY <3>1, <3>2
  <2>11. SnapsKept(p)
    BY <2>7, SnapshotPlaces, InPlace DEF SnapsKept
  <2>12. OthersKept(p) /\ proc'[p].stamp = proc[p].stamp
    BY <1>1, <1>3, <2>6, OthersStill, GotoStamp DEF OthersKept
  <2> QED
    BY <1>1, <2>6, <2>10, <2>11, <2>12 DEF Shape, StampMoves, WholeMoves
<1> QED
  BY <1>2, <1>3 DEF CreateTemp

\* What others are told of the files that a step of p changes.
LEMMA Told ==
    ASSUME TypeOK, NEW p \in Proc, Active(p), NEW files \in SUBSET File, hist' = Dirty(p, files)
    PROVE  /\ hist' \in [Proc -> HistType]
           /\ \A q \in Proc \ {p} : /\ hist[q].dirty \subseteq hist'[q].dirty /\ (hist'[q].alone => hist[q].alone)
                                    /\ Active(q) /\ Dest(q) = Dest(p) => files \subseteq hist'[q].dirty
           /\ hist'[p] = hist[p]
<1>1. ASSUME NEW q \in Proc PROVE hist'[q] = IF q # p /\ proc[q].pc # "idle" /\ Dest(q) = Dest(p)
                    THEN [hist[q] EXCEPT !.dirty = @ \cup files] ELSE hist[q]
  BY DEF Dirty
<1>2. \A q \in Proc : hist[q] \in HistType
  BY Variables
<1> QED
  BY <1>1, <1>2, DirtyType DEF HistType, Active

LEMMA ShapeRename ==
    ASSUME TypeOK, NEW p \in Proc, Rename(p)
    PROVE  Shape(p) /\ proc'[p].stamp \in {0, proc[p].stamp}
<1>1. Active(p) /\ UNCHANGED <<clock, left, whole, crashed>> /\ proc[p].pc = "rename" /\ Over(p)
  BY DEF Rename, Active, Unchanged
<1>2. CASE dir' = dir /\ hist' = hist
  BY <1>1, <1>2, TypeOver, OverStamp, ShapeStill, Variables, DirTypes
<1>3. CASE /\ Has(Dest(p), p)
           /\ dir' = [dir EXCEPT ![Dest(p)] = [@ EXCEPT ![Call(p).f] = dir[Dest(p)][p], ![p] = None]]
           /\ hist' = Dirty(p, {Call(p).f})
  <2>1. PICK d \in Canvas : Dest(p) = live(d) /\ Dest(p) \in Place
    BY <1>1, DestType
  <2>2. Call(p).f \in File
    BY <1>1, CallType, StageOf
  <2>3. PICK e : e = [dir[live(d)] EXCEPT ![Call(p).f] = dir[live(d)][p], ![p] = None]
    OBVIOUS
  <2>4. dir[live(d)] \in Dir /\ dir[live(d)] # None
    BY <1>3, <2>1, DirTypes DEF Has, Exists
  <2>5. e \in Dir
    BY <2>2, <2>3, <2>4 DEF Dir, Name
  <2>6. dir' = [dir EXCEPT ![live(d)] = e]
    BY <1>3, <2>1, <2>3, DirTypes
  <2>7. Typed(p)
    <3>1. dir' \in [Place -> Dir \cup {None}]
      BY <2>1, <2>5, <2>6, DirTypes
    <3>2. hist' \in [Proc -> HistType]
      BY <1>1, <1>3, <2>2, Told
    <3> QED BY <1>1, <3>1, <3>2, TypeOver, Variables
  <2>8. (\A x \in Place : x # live(d) => dir'[x] = dir[x]) /\ dir'[live(d)] = e
    BY <2>1, <2>6, DirTypes
  <2>9. \A f \in File : f # Call(p).f => e[f] = dir[live(d)][f]
    BY LocalStoreAssumption, <2>2, <2>3, <2>4 DEF Dir, Name, LocalStoreAssumption
  <2>13. \A q \in Proc \ {p} : /\ hist[q].dirty \subseteq hist'[q].dirty /\ (hist'[q].alone => hist[q].alone)
                               /\ Active(q) /\ Dest(q) = Dest(p) => Call(p).f \in hist'[q].dirty
    <3>1. PICK files \in SUBSET File : files = {Call(p).f}
      BY <2>2
    <3>2. hist' = Dirty(p, files)
      BY <1>3, <3>1
    <3> QED BY <1>1, <3>1, <3>2, Told
  <2>10. LiveKept(p)
    <3> SUFFICES ASSUME NEW b \in Canvas, NEW f \in File, dir'[live(b)] # None, dir'[live(b)][f] # None
                 PROVE  \/ dir[live(b)] # None /\ dir'[live(b)][f] = dir[live(b)][f]
                        \/ \A q \in Proc \ {p} : Active(q) /\ Dest(q) = live(b) => f \in hist'[q].dirty
      BY DEF LiveKept
    <3>1. CASE b = d /\ f = Call(p).f
      <4>1. \A q \in Proc \ {p} : Active(q) /\ Dest(q) = live(b) => f \in hist'[q].dirty
        BY <2>1, <2>13, <3>1
      <4> QED BY <4>1
    <3>2. CASE b = d /\ f # Call(p).f
      BY <2>4, <2>8, <2>9, <3>2
    <3>3. CASE b # d
      BY <2>8, <3>3, Places, InPlace
    <3> QED BY <3>1, <3>2, <3>3
  <2>11. SnapsKept(p)
    BY <2>8, SnapshotPlaces, InPlace DEF SnapsKept
  <2>12. OthersKept(p)
    BY <1>1, <2>7, <2>13, OthersStill DEF OthersKept
  <2> QED
    BY <1>1, <2>7, <2>10, <2>11, <2>12, OverStamp DEF Shape, StampMoves, WholeMoves
<1> QED
  BY <1>2, <1>3 DEF Rename

LEMMA ShapeRemove ==
    ASSUME TypeOK, NEW p \in Proc, RemoveCanvas(p)
    PROVE  Shape(p) /\ proc'[p].stamp \in {0, proc[p].stamp}
<1>1. Active(p) /\ UNCHANGED <<clock, left, whole, crashed, hist>> /\ Over(p) /\ dir' = Removed({Dest(p)})
  BY DEF RemoveCanvas, At, Active, Unchanged
<1>2. PICK d \in Canvas : Dest(p) = live(d) /\ Dest(p) \in Place
  BY <1>1, DestType
<1>3. (\A x \in Place : x # live(d) => dir'[x] = dir[x]) /\ dir'[live(d)] = None
  BY <1>1, <1>2 DEF Removed
<1>4. Typed(p)
  BY <1>1, TypeOver, DirTypes, Variables
<1>5. LiveKept(p)
  <2> SUFFICES ASSUME NEW b \in Canvas, NEW f \in File, dir'[live(b)] # None, dir'[live(b)][f] # None
               PROVE  dir[live(b)] # None /\ dir'[live(b)][f] = dir[live(b)][f]
    BY DEF LiveKept
  <2>1. live(b) # live(d) /\ live(b) \in Place
    BY <1>3, InPlace
  <2> QED BY <1>3, <2>1
<1>6. SnapsKept(p)
  BY <1>3, SnapshotPlaces, InPlace DEF SnapsKept
<1>7. OthersKept(p)
  BY <1>1, <1>4, OthersStill DEF OthersKept
<1> QED
  BY <1>1, <1>4, <1>5, <1>6, <1>7, OverStamp DEF Shape, StampMoves, WholeMoves

\* A call that fails takes away only what is its own.
LEMMA ShapeFail ==
    ASSUME TypeOK, NEW p \in Proc, Active(p), Fail(p),
           proc[p].pc = "snap" => proc[p].stamp # 0,
           UNCHANGED <<clock, left, whole, crashed, hist>>
    PROVE  /\ Shape(p) /\ Over(p)
           /\ \A x \in Place : x = Fresh(p) \/ (proc[p].pc = "snap" /\ x = Mine(p)) \/ dir'[x] = dir[x]
           /\ proc[p].pc = "snap" => dir'[Mine(p)] = None
<1>1. Typed(p) /\ Over(p)
  BY TypeOver, DirTypes, Variables DEF Fail
<1>2. Debris(p) \subseteq {Fresh(p)} \cup (IF proc[p].pc = "snap" THEN {Mine(p)} ELSE {})
  BY DEF Debris, Copying, IsCopying, Fresh
<1>3. \A x \in Place : x = Fresh(p) \/ (proc[p].pc = "snap" /\ x = Mine(p)) \/ dir'[x] = dir[x]
  BY <1>2 DEF Fail, Removed
<1>4. proc[p].pc = "snap" => dir'[Mine(p)] = None
  BY DestType DEF Fail, Removed, Debris, IsCopying, Copying
<1>5. \A d \in Canvas : dir'[live(d)] = dir[live(d)]
  <2>1. ASSUME NEW d \in Canvas, proc[p].pc = "snap" PROVE Mine(p) # live(d)
    BY <2>1, DestType
  <2> QED BY <1>3, <2>1, DestType, InPlace
<1>6. LiveKept(p)
  BY <1>5 DEF LiveKept
<1>7. SnapsKept(p)
  BY <1>3, DestType, InPlace DEF SnapsKept
<1>8. OthersKept(p)
  BY <1>1, OthersStill DEF OthersKept
<1> QED
  BY <1>1, <1>3, <1>4, <1>6, <1>7, <1>8, OverStamp DEF Shape, StampMoves, WholeMoves

LEMMA ShapeCopy ==
    ASSUME TypeOK, StampInv, NEW p \in Proc, CopyFile(p)
    PROVE  /\ Shape(p) /\ Active(p) /\ UNCHANGED <<clock, left, whole, crashed, hist>>
           /\ IsCopying(p)
           /\ \/ Over(p) /\ Fail(p)
              \/ \E n \in proc[p].todo :
                    /\ Has(Copying(p).from, n) /\ n \in Name
                    /\ proc' = [proc EXCEPT ![p] = [proc[p] EXCEPT !.todo = @ \ {n}]]
                    /\ \A x \in Place : x # Copying(p).to => dir'[x] = dir[x]
                    /\ Copying(p).to \in Place /\ dir'[Copying(p).to] \in Dir
                    /\ dir'[Copying(p).to] = [MkdirAll(Copying(p).to) EXCEPT ![n] = dir[Copying(p).from][n]]
                    /\ proc'[p].stamp = proc[p].stamp
<1>1. Active(p) /\ UNCHANGED <<clock, left, whole, crashed, hist>> /\ IsCopying(p)
  BY DEF CopyFile, Active, Unchanged, IsCopying
<1>2. /\ proc[p].pc = "snap" => proc[p].stamp # 0
      /\ proc[p].pc \in {"snap", "restore", "stage"}
  BY <1>1 DEF StampInv, StampOwn, IsCopying
<1>3. CASE Fail(p)
  BY <1>1, <1>2, <1>3, ShapeFail
<1>4. CASE ~Fail(p)
  <2>1. PICK n \in proc[p].todo :
           /\ Has(Copying(p).from, n)
           /\ dir' = [dir EXCEPT ![Copying(p).to] =
                         [MkdirAll(Copying(p).to) EXCEPT ![n] = dir[Copying(p).from][n]]]
           /\ proc' = [proc EXCEPT ![p].todo = @ \ {n}]
    BY <1>4 DEF CopyFile
  <2>2. n \in Name /\ proc[p] \in ProcType
    BY Variables DEF ProcType
  <2>3. Copying(p).to \in Place /\ Copying(p).from \in Place
    <3>1. CASE proc[p].pc = "snap"
      BY <1>1, <1>2, <3>1, DestType DEF Copying
    <3>2. CASE proc[p].pc = "stage"
      BY <1>1, <3>2, DestType, CallType, InPlace DEF Copying
    <3>3. CASE proc[p].pc = "restore"
      <4>1. Copying(p).to \in Place
        BY <1>1, <3>3, DestType DEF Copying
      <4>2. proc[p].target \in 0 .. clock /\ clock \in 0 .. MaxSnaps /\ MaxSnaps \in Nat
        BY LocalStoreAssumption, <2>2, Variables DEF ProcType, LocalStoreAssumption
      <4>3. Copying(p).from = snapshot(Call(p).c, proc[p].target) /\ Call(p).c \in Canvas
        BY <1>1, <3>3, CallType DEF Copying
      <4>4. proc[p].target # 0
        BY <1>1, <3>3, StageOf DEF StampInv, StampOwn
      <4> QED BY <4>1, <4>2, <4>3, <4>4, InPlace
    <3> QED BY <1>2, <3>1, <3>2, <3>3
  <2>4. PICK r : r = [proc[p] EXCEPT !.todo = @ \ {n}]
    OBVIOUS
  <2>5. /\ r \in ProcType /\ r.stamp = proc[p].stamp /\ r.call = Call(p) /\ r.pc = proc[p].pc
        /\ proc' = [proc EXCEPT ![p] = r]
    BY <2>1, <2>2, <2>4, Variables DEF ProcType, Call
  <2>6. Moves(p, r)
    BY <1>1, <2>5, MovesFrom, CallType, Variables
  <2>7. PICK e : e = [MkdirAll(Copying(p).to) EXCEPT ![n] = dir[Copying(p).from][n]]
    OBVIOUS
  <2>8. dir[Copying(p).from][n] \in Seq(Token) \cup {None}
    <3>1. dir[Copying(p).from] \in Dir
      BY <2>1, <2>3, DirTypes DEF Has, Exists
    <3> QED BY <2>2, <3>1 DEF Dir
  <2>9. e \in Dir
    BY <2>2, <2>3, <2>7, <2>8, DirTypes, DirPut
  <2>10. /\ dir' \in [Place -> Dir \cup {None}] /\ dir'[Copying(p).to] = e
         /\ \A x \in Place : x # Copying(p).to => dir'[x] = dir[x]
    BY <2>1, <2>3, <2>7, <2>9, DirTypes
  <2>11. Typed(p)
    BY <1>1, <2>6, <2>10, TypeQuiet, Variables
  <2>12. proc'[p].stamp = proc[p].stamp
    BY <2>5, Variables
  <2>13. Shape(p)
    <3>1. \A d \in Canvas : Copying(p).to # live(d)
      BY <1>1, <1>2, DestType DEF Copying
    <3>2. LiveKept(p)
      BY <2>10, <3>1, InPlace DEF LiveKept
    <3>3. SnapsKept(p)
      <4>1. CASE proc[p].pc = "snap"
        BY <2>10, <4>1, InPlace DEF SnapsKept, Copying
      <4>2. CASE proc[p].pc # "snap"
        <5>1. Copying(p).to = Fresh(p)
          BY <1>2, <4>2 DEF Copying
        <5> QED BY <1>1, <2>10, <5>1, DestType, InPlace DEF SnapsKept
      <4> QED BY <4>1, <4>2
    <3>4. OthersKept(p)
      BY <1>1, <2>11, OthersStill DEF OthersKept
    <3> QED BY <1>1, <2>11, <2>12, <3>2, <3>3, <3>4 DEF Shape, StampMoves, WholeMoves
  <2> QED
    BY <1>1, <2>1, <2>2, <2>3, <2>4, <2>5, <2>7, <2>9, <2>10, <2>12, <2>13
<1> QED
  BY <1>3, <1>4

LEMMA ShapeCopied ==
    ASSUME TypeOK, NEW p \in Proc, Copied(p)
    PROVE  /\ Shape(p) /\ Active(p) /\ UNCHANGED <<dir, clock, left, crashed, hist>>
           /\ proc[p].pc \in {"snap", "restore", "stage"} /\ proc[p].todo = {}
           /\ whole' = IF proc[p].pc = "snap" THEN whole \cup {Mine(p)} ELSE whole
           /\ \/ proc[p].pc = "snap" /\ Over(p)
              \/ \E pc \in {"clear", "out", "create", "in"} :
                   /\ Goto(p, pc)
                   /\ pc \in {"clear"} => Call(p).op = "revert"
                   /\ pc \in {"in", "create"} => Call(p).op = "copy" /\ proc[p].pc = "stage"
                   /\ pc \in {"clear", "out"} => proc[p].pc \in {"snap", "restore"}
                   /\ pc = "out" /\ Call(p).op = "revert" => proc[p].pc = "restore"
<1>1. Active(p) /\ UNCHANGED <<dir, clock, left, crashed, hist>>
      /\ proc[p].pc \in {"snap", "restore", "stage"} /\ proc[p].todo = {}
  BY DEF Copied, Active, IsCopying
<1>2. whole' = IF proc[p].pc = "snap" THEN whole \cup {Mine(p)} ELSE whole
  BY DEF Copied
<1>3. \/ proc[p].pc = "snap" /\ Over(p)
      \/ \E pc \in {"clear", "out", "create", "in"} :
           /\ Goto(p, pc) /\ pc \in Stages(Call(p).op) /\ pc \in Pcs
           /\ pc \in {"clear"} => Call(p).op = "revert"
           /\ pc \in {"in", "create"} => Call(p).op = "copy" /\ proc[p].pc = "stage"
           /\ pc \in {"clear", "out"} => proc[p].pc \in {"snap", "restore"}
           /\ pc = "out" /\ Call(p).op = "revert" => proc[p].pc = "restore"
  <2>0. {"clear", "out", "create", "in"} \subseteq Pcs
    BY DEF Pcs
  <2>1. CASE proc[p].pc = "snap"
    <3>1. Call(p).op \in {"snap", "revert", "copy"}
      BY <1>1, <2>1, StageOf
    <3>2. CASE Call(p).op = "snap"
      BY <2>1, <3>2 DEF Copied
    <3>3. CASE Call(p).op = "revert"
      BY <2>0, <2>1, <3>3, CanGo DEF Copied
    <3>4. CASE Call(p).op = "copy"
      BY <2>0, <2>1, <3>4, CanGo DEF Copied
    <3> QED BY <3>1, <3>2, <3>3, <3>4
  <2>2. CASE proc[p].pc = "restore"
    <3>1. Call(p).op = "revert"
      BY <1>1, <2>2, StageOf
    <3> QED BY <2>0, <2>2, <3>1, CanGo DEF Copied
  <2>3. CASE proc[p].pc = "stage"
    <3>1. Call(p).op = "copy"
      BY <1>1, <2>3, StageOf
    <3>2. Goto(p, IF proc[p].had THEN "create" ELSE "in")
      BY <2>3 DEF Copied
    <3> QED BY <2>0, <2>3, <3>1, <3>2, CanGo
  <2> QED BY <1>1, <2>1, <2>2, <2>3
<1>4. Typed(p) /\ proc'[p].stamp \in {0, proc[p].stamp}
  BY <1>1, <1>3, TypeOver, TypeGoto, OverStamp, GotoStamp, DirTypes, Variables
<1>5. LiveKept(p) /\ SnapsKept(p)
  BY <1>1 DEF LiveKept, SnapsKept
<1>6. OthersKept(p)
  BY <1>1, <1>4, OthersStill DEF OthersKept
<1>7. WholeMoves(p)
  BY <1>1, <1>2 DEF WholeMoves
<1> QED
  BY <1>1, <1>2, <1>3, <1>4, <1>5, <1>6, <1>7 DEF Shape, StampMoves

LEMMA ShapeBeginSnap ==
    ASSUME TypeOK, NEW p \in Proc, BeginSnap(p)
    PROVE  Shape(p) /\ Active(p) /\ Goto(p, "create") /\ proc[p].pc = "begin"
<1>1. Active(p) /\ UNCHANGED <<dir, clock, left, whole, crashed, hist>> /\ Goto(p, "create")
      /\ Call(p).op = "snap" /\ proc[p].pc = "begin"
  BY DEF BeginSnap, At, Active, Unchanged
<1>2. Typed(p)
  BY <1>1, TypeGoto, CanGo, Variables, DirTypes DEF Pcs
<1> QED
  BY <1>1, <1>2, GotoStamp, ShapeStill

LEMMA ShapeCreate ==
    ASSUME TypeOK, NEW p \in Proc, Create(p)
    PROVE  /\ Shape(p) /\ Active(p) /\ proc[p].pc = "create" /\ UNCHANGED <<left, whole, crashed>>
           /\ \/ Over(p) /\ hist' = hist /\ \A d \in Canvas : dir'[live(d)] = dir[live(d)]
              \/ /\ Exists(Dest(p)) /\ clock' = clock + 1 /\ clock' \in 1 .. MaxSnaps
                 /\ proc' = [proc EXCEPT ![p] = [proc[p] EXCEPT !.pc = "snap", !.stamp = clock',
                                                                !.todo = Entries(dir[Dest(p)])]]
                 /\ proc[p].call = proc'[p].call /\ proc'[p].pc = "snap" /\ proc'[p].stamp = clock'
                 /\ proc'[p].todo = Entries(dir[Dest(p)]) /\ proc'[p].target = proc[p].target
                 /\ proc'[p].buf = proc[p].buf /\ proc'[p].base = proc[p].base
                 /\ hist' = [hist EXCEPT ![p] = [hist[p] EXCEPT !.dirty = {}]]
                 /\ hist'[p].dirty = {} /\ hist'[p].orig = hist[p].orig /\ (hist'[p].alone => hist[p].alone)
                 /\ dir'[snapshot(Dest(p)[2], clock')] = Empty
                 /\ \A x \in Place : x # snapshot(Dest(p)[2], clock') => dir'[x] = dir[x]
<1>1. Active(p) /\ proc[p].pc = "create" /\ UNCHANGED <<left, whole, crashed>>
  BY DEF Create, Active
<1>2. CASE ~Exists(Dest(p))
  <2>1. Fail(p) /\ UNCHANGED <<clock, hist>>
    BY <1>2 DEF Create
  <2>2. /\ Shape(p) /\ Over(p) /\ \A x \in Place : x = Fresh(p) \/ dir'[x] = dir[x]
    BY <1>1, <2>1, ShapeFail
  <2> QED BY <1>1, <2>1, <2>2, DestType, InPlace
<1>3. CASE Exists(Dest(p))
  <2>1. /\ clock < MaxSnaps /\ clock' = clock + 1
        /\ dir' = [dir EXCEPT ![snapshot(Dest(p)[2], clock')] = Empty]
        /\ proc' = [proc EXCEPT ![p].pc = "snap", ![p].stamp = clock', ![p].todo = Entries(dir[Dest(p)])]
        /\ hist' = [hist EXCEPT ![p].dirty = {}]
    BY <1>3 DEF Create
  <2>2. clock' \in 1 .. MaxSnaps /\ clock' \in clock .. MaxSnaps /\ clock' \in 0 .. clock'
        /\ \A i \in 0 .. clock : i \in 0 .. clock'
    BY LocalStoreAssumption, <2>1, Variables DEF LocalStoreAssumption
  <2>3. PICK d \in Canvas : Dest(p) = live(d) /\ Dest(p)[2] = d /\ Dest(p) \in Place
    BY <1>1, DestType
  <2>4. PICK s \in Place : s = snapshot(d, clock')
    BY <2>2, <2>3, InPlace
  <2>5. dir' = [dir EXCEPT ![s] = Empty] /\ dir' \in [Place -> Dir \cup {None}]
    <3>1. dir' = [dir EXCEPT ![s] = Empty]
      BY <2>1, <2>3, <2>4
    <3> QED BY <3>1, DirTypes
  <2>6. PICK r : r = [proc[p] EXCEPT !.pc = "snap", !.stamp = clock', !.todo = Entries(dir[Dest(p)])]
    OBVIOUS
  <2>7. proc[p] \in ProcType /\ "snap" \in Pcs /\ Entries(dir[Dest(p)]) \subseteq Name
    BY Variables DEF Pcs, Entries
  <2>8. proc' = [proc EXCEPT ![p] = r] /\ proc'[p] = r
    BY <2>1, <2>6, Variables DEF ProcType
  <2>9. /\ r \in ProcType' /\ r.pc = "snap" /\ r.call = Call(p) /\ r.stamp = clock'
        /\ r.todo = Entries(dir[Dest(p)]) /\ r.target = proc[p].target /\ r.buf = proc[p].buf
        /\ r.base = proc[p].base
    BY <2>2, <2>6, <2>7 DEF ProcType, Call
  <2>10. Moves(p, r)
    BY <1>1, <2>8, <2>9, MovesFrom, StageOf, CanGo
  <2>11. PICK h : h = [hist[p] EXCEPT !.dirty = {}]
    OBVIOUS
  <2>12. hist[p] \in HistType
    BY Variables
  <2>13. h \in HistType /\ h.dirty = {} /\ h.orig = hist[p].orig /\ (h.alone => hist[p].alone)
    BY <2>11, <2>12 DEF HistType
  <2>14. hist' = [hist EXCEPT ![p] = h] /\ hist' \in [Proc -> HistType] /\ hist'[p] = h
    <3>1. hist' = [hist EXCEPT ![p] = h]
      BY <2>1, <2>11, Variables DEF HistType
    <3> QED BY <2>13, <3>1, Variables
  <2>15. Typed(p)
    BY <1>1, <2>2, <2>5, <2>10, <2>14, TypeQuiet
  <2>16. dir'[s] = Empty /\ \A x \in Place : x # s => dir'[x] = dir[x]
    BY <2>5, DirTypes
  <2>17. LiveKept(p)
    BY <2>2, <2>3, <2>4, <2>16, SnapshotPlaces, InPlace DEF LiveKept
  <2>18. SnapsKept(p)
    <3> SUFFICES ASSUME NEW c \in Canvas, NEW n \in 1 .. MaxSnaps, dir'[snapshot(c, n)] # dir[snapshot(c, n)]
                 PROVE  snapshot(c, n) = s /\ n = clock + 1
      BY <1>1, <2>1, <2>3, <2>4, <2>8, <2>9 DEF SnapsKept
    <3>1. snapshot(c, n) = s
      BY <2>16, InPlace
    <3> QED BY <2>1, <2>2, <2>4, <3>1, SnapshotPlaces
  <2>19. OthersKept(p)
    <3>1. \A q \in Proc \ {p} : hist'[q] = hist[q]
      BY <2>14, Variables
    <3> QED BY <1>1, <2>15, <3>1, OthersStill DEF OthersKept
  <2>20. Shape(p)
    BY <1>1, <2>1, <2>8, <2>9, <2>15, <2>17, <2>18, <2>19 DEF Shape, StampMoves, WholeMoves
  <2> QED
    BY <1>1, <1>3, <2>1, <2>2, <2>3, <2>4, <2>6, <2>8, <2>9, <2>11, <2>13, <2>14, <2>16, <2>20 DEF Call
<1> QED
  BY <1>2, <1>3

LEMMA ShapeResolve ==
    ASSUME TypeOK, NEW p \in Proc, Resolve(p)
    PROVE  /\ Shape(p) /\ Active(p) /\ Call(p).op = "revert" /\ proc[p].pc = "begin"
           /\ UNCHANGED <<dir, clock, left, whole, crashed, hist>>
           /\ \/ Over(p)
              \/ /\ proc'[p].pc = IF Exists(Dest(p)) THEN "create" ELSE "clear"
                 /\ proc'[p].call = Call(p) /\ proc'[p].stamp = proc[p].stamp
                 /\ proc'[p].buf = proc[p].buf /\ proc'[p].target = Target(p)
                 /\ Target(p) \in Snapshots(Call(p).c)
                 /\ IF Call(p).name = 0 THEN \A m \in Snapshots(Call(p).c) : m <= Target(p)
                    ELSE Target(p) = Call(p).name
<1>1. /\ Active(p) /\ proc[p].pc = "begin" /\ UNCHANGED <<dir, clock, left, whole, crashed, hist>>
      /\ Call(p).op = "revert"
  BY DEF Resolve, Active, At, Unchanged
<1>2. CASE Over(p)
  BY <1>1, <1>2, TypeOver, OverStamp, ShapeStill, Variables, DirTypes
<1>3. CASE ~Over(p)
  <2>1. /\ Snapshots(Call(p).c) # {} /\ Call(p).name \in {0} \cup Snapshots(Call(p).c)
        /\ proc' = [proc EXCEPT ![p].target = Target(p), ![p].pc = IF Safety(p) THEN "create" ELSE "clear"]
    BY <1>3 DEF Resolve
  <2>2. PICK c \in Canvas, name \in Nat : c = Call(p).c /\ name = Call(p).name
    BY <1>1, CallType
  <2>3. Snapshots(c) \subseteq 1 .. clock /\ clock \in Nat
    BY Variables DEF Snapshots
  <2>4. Latest(c) \in Snapshots(c) /\ \A m \in Snapshots(c) : m <= Latest(c)
    <3> DEFINE S == Snapshots(c)
               T == {clock - n : n \in S}
    <3>1. T \in SUBSET Nat /\ T # {}
      BY <2>1, <2>2, <2>3
    <3>2. PICK m \in T : \A n \in T : m <= n
      <4> HIDE DEF T
      <4> QED BY <3>1, LeastNat
    <3>3. PICK n \in S : m = clock - n
      BY <3>2
    <3>4. \A k \in S : k <= n
      BY <2>3, <3>2, <3>3
    <3> QED BY <3>3, <3>4 DEF Latest
  <2>5. /\ Target(p) \in Snapshots(c)
        /\ IF name = 0 THEN \A m \in Snapshots(c) : m <= Target(p) ELSE Target(p) = name
    BY <2>1, <2>2, <2>4 DEF Target
  <2>6. PICK pc : pc = IF Exists(Dest(p)) THEN "create" ELSE "clear"
    OBVIOUS
  <2>7. PICK r : r = [proc[p] EXCEPT !.target = Target(p), !.pc = pc]
    OBVIOUS
  <2>8. proc[p] \in ProcType /\ pc \in Pcs /\ pc \in Stages(Call(p).op) /\ Target(p) \in 0 .. clock
    BY <1>1, <2>3, <2>5, <2>6, CanGo, Variables DEF Pcs
  <2>9. proc' = [proc EXCEPT ![p] = r] /\ proc'[p] = r
    BY <2>1, <2>6, <2>7, Variables DEF ProcType, Safety
  <2>10. /\ r \in ProcType /\ r.pc = pc /\ r.call = Call(p) /\ r.stamp = proc[p].stamp
         /\ r.target = Target(p) /\ r.buf = proc[p].buf
    BY <2>7, <2>8 DEF ProcType, Call
  <2>11. Moves(p, r)
    BY <1>1, <2>8, <2>9, <2>10, MovesFrom, Variables
  <2>12. Typed(p)
    BY <1>1, <2>11, TypeQuiet, Variables, DirTypes
  <2>13. Shape(p)
    BY <1>1, <2>9, <2>10, <2>12, ShapeStill
  <2> QED
    BY <1>1, <2>2, <2>5, <2>6, <2>9, <2>10, <2>13
<1> QED
  BY <1>2, <1>3

LEMMA ShapeClear ==
    ASSUME TypeOK, NEW p \in Proc, Clear(p)
    PROVE  /\ Shape(p) /\ Active(p) /\ Call(p).op = "revert" /\ proc[p].pc = "clear"
           /\ UNCHANGED <<clock, left, whole, crashed, hist>>
           /\ \/ Over(p) /\ dir' = dir
              \/ /\ Goto(p, "start") /\ dir'[Fresh(p)] = None /\ dir'[Spare(p)] = None
                 /\ \A x \in Place : x # Fresh(p) /\ x # Spare(p) => dir'[x] = dir[x]
<1>1. /\ Active(p) /\ proc[p].pc = "clear" /\ UNCHANGED <<clock, left, whole, crashed, hist>>
      /\ Call(p).op = "revert"
  BY StageOf DEF Clear, Active, Unchanged
<1>2. CASE Over(p) /\ dir' = dir
  BY <1>1, <1>2, TypeOver, OverStamp, ShapeStill, Variables, DirTypes
<1>3. CASE dir' = Removed({Fresh(p), Spare(p)}) /\ Goto(p, "start")
  <2>1. Typed(p)
    BY <1>1, <1>3, TypeGoto, CanGo, DirTypes, Variables DEF Pcs
  <2>2. \A x \in Place : x # Fresh(p) /\ x # Spare(p) => dir'[x] = dir[x]
    BY <1>3 DEF Removed
  <2>3. dir'[Fresh(p)] = None /\ dir'[Spare(p)] = None
    BY <1>1, <1>3, DestType DEF Removed
  <2> QED BY <1>1, <1>3, <2>1, <2>2, <2>3, GotoStamp, ShapeAside
<1> QED
  BY <1>2, <1>3 DEF Clear

LEMMA TargetPlace ==
    ASSUME TypeOK, StampInv, NEW p \in Proc, Active(p),
           Call(p).op = "revert", proc[p].pc # "begin"
    PROVE  /\ Call(p).c \in Canvas /\ proc[p].target \in 1 .. MaxSnaps /\ proc[p].target \in 1 .. clock
           /\ snapshot(Call(p).c, proc[p].target) \in Place
<1>1. Call(p).c \in Canvas
  BY CallType
<1>2. proc[p].target # 0 /\ proc[p].target \in 0 .. clock /\ clock \in 0 .. MaxSnaps /\ MaxSnaps \in Nat
  BY LocalStoreAssumption, Variables DEF StampInv, StampOwn, ProcType, LocalStoreAssumption
<1> QED
  BY <1>1, <1>2, InPlace

LEMMA ShapeRestore ==
    ASSUME TypeOK, StampInv, NEW p \in Proc, Restore(p)
    PROVE  /\ Shape(p) /\ Active(p) /\ Call(p).op = "revert" /\ proc[p].pc = "start"
           /\ UNCHANGED <<clock, left, whole, crashed, hist>>
           /\ \A x \in Place : x # Fresh(p) => dir'[x] = dir[x]
           /\ \/ Over(p)
              \/ /\ Exists(snapshot(Call(p).c, proc[p].target))
                 /\ dir'[Fresh(p)] = MkdirAll(Fresh(p))
                 /\ proc'[p].pc = "restore" /\ proc'[p].stamp = proc[p].stamp
                 /\ proc'[p].call = Call(p) /\ proc'[p].target = proc[p].target
                 /\ proc'[p].buf = proc[p].buf
                 /\ proc'[p].todo = Entries(dir[snapshot(Call(p).c, proc[p].target)])
<1>1. /\ Active(p) /\ proc[p].pc = "start" /\ UNCHANGED <<clock, left, whole, crashed, hist>>
      /\ Call(p).op = "revert"
  BY StageOf DEF Restore, Active, Unchanged
<1>0. Fresh(p) \in Place
  BY <1>1, DestType
<1>2. CASE Over(p) /\ dir' = Removed({Fresh(p)})
  <2>1. \A x \in Place : x # Fresh(p) => dir'[x] = dir[x]
    BY <1>2 DEF Removed
  <2> QED BY <1>1, <1>2, <2>1, TypeOver, OverStamp, ShapeAside, Variables, DirTypes
<1>3. CASE /\ Exists(snapshot(Call(p).c, proc[p].target))
           /\ dir' = [dir EXCEPT ![Fresh(p)] = MkdirAll(Fresh(p))]
           /\ proc' = [proc EXCEPT ![p].pc = "restore",
                                   ![p].todo = Entries(dir[snapshot(Call(p).c, proc[p].target)])]
  <2>1. PICK names : names = Entries(dir[snapshot(Call(p).c, proc[p].target)])
    OBVIOUS
  <2>2. PICK r : r = [proc[p] EXCEPT !.pc = "restore", !.todo = names]
    OBVIOUS
  <2>3. proc[p] \in ProcType /\ "restore" \in Pcs /\ names \subseteq Name
    BY <2>1, Variables DEF Pcs, Entries
  <2>4. proc' = [proc EXCEPT ![p] = r] /\ proc'[p] = r
    BY <1>3, <2>1, <2>2, Variables DEF ProcType
  <2>5. /\ r \in ProcType /\ r.pc = "restore" /\ r.call = Call(p) /\ r.stamp = proc[p].stamp
        /\ r.target = proc[p].target /\ r.buf = proc[p].buf /\ r.todo = names
    BY <2>2, <2>3 DEF ProcType, Call
  <2>6. Moves(p, r)
    BY <1>1, <2>4, <2>5, MovesFrom, CanGo, Variables
  <2>7. /\ dir' \in [Place -> Dir \cup {None}] /\ dir'[Fresh(p)] = MkdirAll(Fresh(p))
        /\ \A x \in Place : x # Fresh(p) => dir'[x] = dir[x]
    BY <1>0, <1>3, DirTypes
  <2>8. Typed(p)
    BY <1>1, <2>6, <2>7, TypeQuiet, Variables
  <2>9. Shape(p)
    BY <1>1, <2>4, <2>5, <2>7, <2>8, ShapeAside
  <2> QED
    BY <1>1, <1>3, <2>1, <2>4, <2>5, <2>7, <2>9
<1> QED
  BY <1>2, <1>3 DEF Restore

LEMMA ShapeCopyCanvas ==
    ASSUME TypeOK, NEW p \in Proc, CopyCanvas(p)
    PROVE  /\ Shape(p) /\ Active(p) /\ Call(p).op = "copy" /\ proc[p].pc = "begin"
           /\ UNCHANGED <<clock, left, whole, crashed, hist>>
           /\ \/ Over(p)
              \/ /\ proc'[p].pc = "stage" /\ proc'[p].stamp = proc[p].stamp
                 /\ proc'[p].call = Call(p) /\ proc'[p].buf = proc[p].buf
<1>1. /\ Active(p) /\ proc[p].pc = "begin" /\ UNCHANGED <<clock, left, whole, crashed, hist>>
      /\ Call(p).op = "copy"
  BY DEF CopyCanvas, Active, At, Unchanged
<1>0. Fresh(p) \in Place
  BY <1>1, DestType
<1>2. CASE Over(p) /\ dir' = dir
  BY <1>1, <1>2, TypeOver, OverStamp, ShapeStill, Variables, DirTypes
<1>3. CASE /\ dir' = [dir EXCEPT ![Fresh(p)] = Empty]
           /\ proc' = [proc EXCEPT ![p].pc = "stage", ![p].had = Exists(Dest(p)),
                                   ![p].todo = Entries(dir[live(Call(p).c)])]
  <2>0. PICK names : names = Entries(dir[live(Call(p).c)])
    OBVIOUS
  <2>1. PICK had \in BOOLEAN : had = Exists(Dest(p)) /\ names = Entries(dir[live(Call(p).c)])
    BY <2>0 DEF Exists
  <2>2. PICK r : r = [proc[p] EXCEPT !.pc = "stage", !.had = had, !.todo = names]
    OBVIOUS
  <2>3. proc[p] \in ProcType /\ "stage" \in Pcs /\ names \subseteq Name
    BY <2>1, Variables DEF Pcs, Entries
  <2>4. proc' = [proc EXCEPT ![p] = r] /\ proc'[p] = r
    BY <1>3, <2>1, <2>2, Variables DEF ProcType
  <2>5. /\ r \in ProcType /\ r.pc = "stage" /\ r.call = Call(p) /\ r.stamp = proc[p].stamp
        /\ r.buf = proc[p].buf
    BY <2>1, <2>2, <2>3 DEF ProcType, Call
  <2>6. Moves(p, r)
    BY <1>1, <2>4, <2>5, MovesFrom, CanGo, Variables
  <2>7. /\ dir' \in [Place -> Dir \cup {None}]
        /\ \A x \in Place : x # Fresh(p) => dir'[x] = dir[x]
    BY <1>0, <1>3, DirTypes
  <2>8. Typed(p)
    BY <1>1, <2>6, <2>7, TypeQuiet, Variables
  <2>9. Shape(p)
    BY <1>1, <2>4, <2>5, <2>7, <2>8, ShapeAside
  <2> QED
    BY <1>1, <2>4, <2>5, <2>9
<1> QED
  BY <1>2, <1>3 DEF CopyCanvas

\* A directory that is renamed: nothing is left under the old name.
LEMMA RenamedTo ==
    ASSUME TypeOK, NEW x \in Place, NEW y \in Place, x # y
    PROVE  /\ Renamed(x, y)[y] = dir[x] /\ Renamed(x, y)[x] = None
           /\ \A z \in Place : z # x /\ z # y => Renamed(x, y)[z] = dir[z]
BY DirTypes DEF Renamed

LEMMA ShapeMoveAside ==
    ASSUME TypeOK, NEW p \in Proc, MoveAside(p)
    PROVE  /\ Shape(p) /\ Active(p) /\ proc[p].pc = "out"
           /\ UNCHANGED <<clock, left, whole, crashed, hist>>
           /\ \/ /\ Exists(Dest(p)) /\ Goto(p, "in")
                 /\ dir'[Spare(p)] = dir[Dest(p)] /\ dir'[Dest(p)] = None
                 /\ \A x \in Place : x # Dest(p) /\ x # Spare(p) => dir'[x] = dir[x]
              \/ ~Exists(Dest(p)) /\ Goto(p, "in") /\ dir' = dir
              \/ Over(p) /\ \A x \in Place : x # Fresh(p) => dir'[x] = dir[x]
<1>1. /\ Active(p) /\ proc[p].pc = "out" /\ UNCHANGED <<clock, left, whole, crashed, hist>>
      /\ Call(p).op \in {"revert", "copy"}
  BY StageOf DEF MoveAside, Active, Unchanged
<1>0. Fresh(p) \in Place /\ Dest(p) \in Place /\ Spare(p) \in Place /\ Dest(p) # Spare(p)
  BY <1>1, DestType
<1>2. CASE ~Exists(Dest(p)) /\ Goto(p, "in") /\ dir' = dir
  <2>1. Typed(p)
    BY <1>1, <1>2, TypeGoto, CanGo, DirTypes, Variables DEF Pcs
  <2> QED BY <1>1, <1>2, <2>1, GotoStamp, ShapeStill
<1>3. CASE Over(p) /\ dir' = Removed({Fresh(p)})
  <2>1. \A x \in Place : x # Fresh(p) => dir'[x] = dir[x]
    BY <1>3 DEF Removed
  <2> QED BY <1>1, <1>3, <2>1, TypeOver, OverStamp, ShapeAside, Variables, DirTypes
<1>4. CASE Exists(Dest(p)) /\ dir' = Renamed(Dest(p), Spare(p)) /\ Goto(p, "in")
  <2>1. Typed(p)
    BY <1>0, <1>1, <1>4, TypeGoto, CanGo, DirTypes, Variables DEF Pcs
  <2>2. /\ dir'[Spare(p)] = dir[Dest(p)] /\ dir'[Dest(p)] = None
        /\ \A x \in Place : x # Dest(p) /\ x # Spare(p) => dir'[x] = dir[x]
    BY <1>0, <1>4, RenamedTo
  <2>3. LiveKept(p)
    <3> SUFFICES ASSUME NEW b \in Canvas, NEW f \in File, dir'[live(b)] # None, dir'[live(b)][f] # None
                 PROVE  dir[live(b)] # None /\ dir'[live(b)][f] = dir[live(b)][f]
      BY DEF LiveKept
    <3>1. live(b) # Dest(p) /\ live(b) # Spare(p) /\ live(b) \in Place
      BY <1>1, <2>2, DestType, InPlace
    <3> QED BY <2>2, <3>1
  <2>4. SnapsKept(p)
    BY <1>1, <2>2, DestType, InPlace DEF SnapsKept
  <2>5. OthersKept(p)
    BY <1>1, <2>1, OthersStill DEF OthersKept
  <2> QED BY <1>1, <1>4, <2>1, <2>2, <2>3, <2>4, <2>5, GotoStamp DEF Shape, StampMoves, WholeMoves
<1> QED
  BY <1>2, <1>3, <1>4 DEF MoveAside

LEMMA ShapeSwapIn ==
    ASSUME TypeOK, NEW p \in Proc, SwapIn(p)
    PROVE  /\ Shape(p) /\ Active(p) /\ proc[p].pc = "in"
           /\ UNCHANGED <<clock, left, whole, crashed>> /\ hist'[p] = hist[p]
           /\ \/ Goto(p, "drop") /\ dir'[Dest(p)] = dir[Fresh(p)]
              \/ Over(p) /\ dir'[Dest(p)] = IF Exists(Spare(p)) /\ ~Exists(Dest(p)) THEN dir[Spare(p)] ELSE dir[Dest(p)]
           /\ \A x \in Place : x # Fresh(p) /\ x # Spare(p) /\ x # Dest(p) => dir'[x] = dir[x]
<1>1. /\ Active(p) /\ proc[p].pc = "in" /\ UNCHANGED <<clock, left, whole, crashed>>
      /\ Call(p).op \in {"revert", "copy"} /\ hist' = Dirty(p, File)
  BY StageOf DEF SwapIn, Active, Unchanged
<1>0. /\ Fresh(p) \in Place /\ Dest(p) \in Place /\ Spare(p) \in Place
      /\ Dest(p) # Spare(p) /\ Dest(p) # Fresh(p)
  BY <1>1, DestType
<1>2. /\ hist' \in [Proc -> HistType] /\ hist'[p] = hist[p]
      /\ \A q \in Proc \ {p} : hist[q].dirty \subseteq hist'[q].dirty /\ (hist'[q].alone => hist[q].alone)
      /\ \A q \in Proc \ {p} : Active(q) /\ Dest(q) = Dest(p) => File \subseteq hist'[q].dirty
  <2>1. File \in SUBSET File
    OBVIOUS
  <2> QED BY <1>1, <2>1, Told
<1>3. /\ Typed(p) /\ proc'[p].stamp \in {0, proc[p].stamp}
      /\ \/ Goto(p, "drop") /\ dir'[Dest(p)] = dir[Fresh(p)]
         \/ Over(p) /\ dir'[Dest(p)] = IF Exists(Spare(p)) /\ ~Exists(Dest(p)) THEN dir[Spare(p)] ELSE dir[Dest(p)]
      /\ \A x \in Place : x # Fresh(p) /\ x # Spare(p) /\ x # Dest(p) => dir'[x] = dir[x]
  <2>1. CASE dir' = Renamed(Fresh(p), Dest(p)) /\ Goto(p, "drop")
    <3>1. Typed(p)
      BY <1>0, <1>1, <1>2, <2>1, TypeGoto, CanGo, DirTypes, Variables DEF Pcs
    <3> QED BY <1>0, <2>1, <3>1, GotoStamp, RenamedTo
  <2>2. CASE /\ dir' = [x \in Place |-> IF Call(p).op = "copy" /\ x = Fresh(p) THEN None ELSE PutBack(p)[x]]
             /\ Over(p)
    <3>1. /\ PutBack(p) \in [Place -> Dir \cup {None}]
          /\ PutBack(p)[Dest(p)] = IF Exists(Spare(p)) /\ ~Exists(Dest(p)) THEN dir[Spare(p)] ELSE dir[Dest(p)]
          /\ \A x \in Place : x # Fresh(p) /\ x # Spare(p) /\ x # Dest(p) => PutBack(p)[x] = dir[x]
      BY <1>0, DirTypes, RenamedTo DEF PutBack
    <3>2. dir' \in [Place -> Dir \cup {None}]
      BY <2>2, <3>1
    <3>3. Typed(p)
      BY <1>1, <1>2, <2>2, <3>2, TypeOver, Variables
    <3> QED BY <1>0, <2>2, <3>1, <3>3, OverStamp
  <2> QED BY <2>1, <2>2 DEF SwapIn
<1>4. LiveKept(p)
  <2> SUFFICES ASSUME NEW b \in Canvas, NEW f \in File, dir'[live(b)] # None, dir'[live(b)][f] # None
               PROVE  \/ dir[live(b)] # None /\ dir'[live(b)][f] = dir[live(b)][f]
                      \/ \A q \in Proc \ {p} : Active(q) /\ Dest(q) = live(b) => f \in hist'[q].dirty
    BY DEF LiveKept
  <2>1. CASE live(b) = Dest(p)
    <3>1. \A q \in Proc \ {p} : Active(q) /\ Dest(q) = live(b) => f \in hist'[q].dirty
      BY <1>2, <2>1
    <3> QED BY <3>1
  <2>2. CASE live(b) # Dest(p)
    <3>1. live(b) # Fresh(p) /\ live(b) # Spare(p) /\ live(b) \in Place
      BY <1>1, DestType, InPlace
    <3>2. dir'[live(b)] = dir[live(b)]
      BY <1>3, <2>2, <3>1
    <3> QED BY <3>2
  <2> QED BY <2>1, <2>2
<1>5. SnapsKept(p)
  BY <1>1, <1>3, DestType, InPlace DEF SnapsKept
<1>6. OthersKept(p)
  BY <1>1, <1>2, <1>3, OthersStill DEF OthersKept
<1> QED
  BY <1>1, <1>2, <1>3, <1>4, <1>5, <1>6 DEF Shape, StampMoves, WholeMoves

LEMMA ShapeDropOld ==
    ASSUME TypeOK, NEW p \in Proc, DropOld(p)
    PROVE  /\ Shape(p) /\ Active(p) /\ proc[p].pc = "drop" /\ Over(p) /\ crashed' = crashed
           /\ \A x \in Place : x # Spare(p) => dir'[x] = dir[x]
<1>1. /\ Active(p) /\ proc[p].pc = "drop" /\ Over(p) /\ UNCHANGED <<clock, left, whole, crashed, hist>>
      /\ dir' = Removed({Spare(p)})
  BY DEF DropOld, Active, Unchanged
<1>2. \A x \in Place : x # Spare(p) => dir'[x] = dir[x]
  BY <1>1 DEF Removed
<1> QED
  BY <1>1, <1>2, TypeOver, OverStamp, ShapeAside, Variables, DirTypes

LEMMA ShapeCrash ==
    ASSUME TypeOK, NEW p \in Proc, Crash(p)
    PROVE  Shape(p) /\ Active(p) /\ Over(p) /\ crashed' /\ crashed' = TRUE
<1>1. /\ Active(p) /\ Over(p) /\ UNCHANGED <<dir, clock, left, whole, hist>> /\ crashed' = TRUE
  BY DEF Crash, Active
<1>2. crashed' \in BOOLEAN
  BY <1>1
<1> QED
  BY <1>1, <1>2, TypeOver, OverStamp, ShapeStill, Variables, DirTypes

LEMMA StepShape ==
    ASSUME TypeOK, StampInv, NEW p \in Proc, Step(p) \/ Crash(p)
    PROVE  Shape(p)
BY ShapeBegin, ShapeEdit, ShapeTemp, ShapeRename, ShapeRemove, ShapeCopy, ShapeCopied, ShapeBeginSnap,
   ShapeCreate, ShapeResolve, ShapeClear, ShapeRestore, ShapeCopyCanvas, ShapeMoveAside, ShapeSwapIn,
   ShapeDropOld, ShapeCrash DEF Step

-----------------------------------------------------------------------------
(* What a step of p leaves of the invariant for the other calls.           *)

LEMMA WholeIs ==
    ASSUME TypeOK, NEW s \in whole
    PROVE  Exists(s) /\ \E c \in Canvas, n \in 1 .. MaxSnaps : s = snapshot(c, n) /\ n <= clock
<1>1. Exists(s) /\ \E c \in Canvas, n \in 1 .. clock : s = snapshot(c, n)
  BY DEF TypeOK
<1>2. \A n \in 1 .. clock : n \in 1 .. MaxSnaps /\ n <= clock
  BY LocalStoreAssumption, Variables DEF LocalStoreAssumption
<1> QED
  BY <1>1, <1>2

LEMMA WholeStep ==
    ASSUME TypeOK, StampInv, NEW p \in Proc, Shape(p)
    PROVE  WholeOK' /\ whole \subseteq whole'
<1>1. whole \subseteq whole' /\ clock' \in clock .. MaxSnaps /\ clock \in Nat
  BY Variables DEF Shape, WholeMoves, Typed
<1>2. ASSUME NEW s \in whole'
      PROVE  Exists(s)' /\ \E c \in Canvas, n \in 1 .. clock' : s = snapshot(c, n)
  <2>1. CASE s \in whole
    <3>1. PICK c \in Canvas, n \in 1 .. MaxSnaps : s = snapshot(c, n) /\ n <= clock /\ Exists(s)
      BY <2>1, WholeIs
    <3>2. ~(proc[p].pc = "snap" /\ snapshot(c, n) = Mine(p))
      BY <2>1, <3>1 DEF StampInv, StampOwn
    <3>3. n # clock + 1 /\ n \in 1 .. clock'
      BY <1>1, <3>1
    <3>4. dir'[snapshot(c, n)] = dir[snapshot(c, n)]
      BY <3>2, <3>3 DEF Shape, SnapsKept
    <3> QED BY <3>1, <3>3, <3>4 DEF Exists
  <2>2. CASE s \notin whole
    <3>1. proc[p].pc = "snap" /\ s = Mine(p) /\ dir' = dir
      BY <2>2 DEF Shape, WholeMoves
    <3>2. proc[p].stamp # 0 /\ Exists(s) /\ Active(p)
      BY <3>1 DEF StampInv, StampOwn, Active
    <3>3. PICK c \in Canvas, n \in 1 .. clock : s = snapshot(c, n)
      BY <3>1, <3>2, DestType
    <3>4. n \in 1 .. clock'
      BY <1>1
    <3> QED BY <3>1, <3>2, <3>3, <3>4 DEF Exists
  <2> QED BY <2>1, <2>2
<1> QED
  BY <1>1, <1>2 DEF WholeOK

LEMMA TypeStep ==
    ASSUME TypeOK, StampInv, NEW p \in Proc, Shape(p)
    PROVE  TypeOK'
<1>1. PICK r : Moves(p, r)
  BY DEF Shape, Typed
<1> QED
  BY <1>1, WholeStep, TypeKept DEF Shape, Typed

LEMMA StampsApart ==
    ASSUME TypeOK, StampInv, NEW p \in Proc, Shape(p)
    PROVE  \A q, r \in Proc : q # r /\ proc'[q].stamp # 0 => proc'[q].stamp # proc'[r].stamp
<1>1. \A q \in Proc : proc[q].stamp \in 0 .. clock /\ proc[q].stamp # clock + 1 /\ clock + 1 # 0
  BY Variables DEF ProcType
<1>2. \A q \in Proc : q # p => proc'[q].stamp = proc[q].stamp
  BY DEF Shape, OthersKept
<1>3. proc'[p].stamp \in {0, proc[p].stamp, clock + 1}
  BY DEF Shape, StampMoves
<1> QED
  BY <1>1, <1>2, <1>3 DEF StampInv

\* The snapshot of another call is not touched.
LEMMA OtherMine ==
    ASSUME TypeOK, StampInv, NEW p \in Proc, Shape(p), NEW q \in Proc \ {p}, Active(q),
           proc[q].stamp # 0
    PROVE  /\ dir'[Mine(q)] = dir[Mine(q)]
           /\ proc[p].pc = "snap" => Mine(q) # Mine(p)
<1>1. PICK d \in Canvas, n \in 1 .. clock : Mine(q) = snapshot(d, n) /\ n = proc[q].stamp
  BY DestType
<1>2. n \in 1 .. MaxSnaps /\ n # clock + 1
  BY LocalStoreAssumption, Variables DEF LocalStoreAssumption
<1>3. ASSUME proc[p].pc = "snap" PROVE Mine(q) # Mine(p)
  <2>1. proc[p].stamp # 0 /\ Active(p) /\ proc[p].stamp # n
    BY <1>1, <1>3 DEF StampInv, StampOwn, Active
  <2>2. PICK e \in Canvas, m \in 1 .. clock : Mine(p) = snapshot(e, m) /\ m = proc[p].stamp
    BY <2>1, DestType
  <2>3. m \in 1 .. MaxSnaps
    BY LocalStoreAssumption, Variables DEF LocalStoreAssumption
  <2> QED BY <1>1, <1>2, <2>1, <2>2, <2>3, SnapshotPlaces
<1> QED
  BY <1>1, <1>2, <1>3 DEF Shape, SnapsKept

\* A call that keeps its request and its snapshot.
LEMMA SameCall ==
    ASSUME NEW q \in Proc, proc'[q].call = Call(q)
    PROVE  /\ Call(q)' = Call(q) /\ Dest(q)' = Dest(q) /\ Fresh(q)' = Fresh(q) /\ Spare(q)' = Spare(q)
           /\ proc'[q].stamp = proc[q].stamp => Mine(q)' = Mine(q)
<1>1. Call(q)' = Call(q)
  BY DEF Call
<1>2. Dest(q)' = Dest(q) /\ Fresh(q)' = Fresh(q) /\ Spare(q)' = Spare(q)
  BY <1>1 DEF Dest, Fresh, Spare, live, tmpDir, oldDir, staging, aside
<1> QED
  BY <1>1, <1>2 DEF Mine, snapshot

LEMMA OtherStamp ==
    ASSUME TypeOK, StampInv, NEW p \in Proc, Shape(p), NEW q \in Proc \ {p}
    PROVE  StampOwn(q)'
<1>1. proc'[q] = proc[q] /\ StampOwn(q)
  BY DEF Shape, OthersKept, StampInv
<1>2. Call(q)' = Call(q) /\ Mine(q)' = Mine(q)
  BY <1>1, SameCall DEF Call
<1>3. ASSUME proc[q].pc = "snap" PROVE Exists(Mine(q))' /\ Mine(q) \notin whole'
  <2>1. proc[q].stamp # 0 /\ Active(q) /\ Exists(Mine(q)) /\ Mine(q) \notin whole
    BY <1>1, <1>3 DEF StampOwn, Active
  <2>2. dir'[Mine(q)] = dir[Mine(q)] /\ (proc[p].pc = "snap" => Mine(q) # Mine(p))
    BY <2>1, OtherMine
  <2> QED BY <1>2, <2>1, <2>2 DEF Exists, Shape, WholeMoves
<1> QED
  BY <1>1, <1>2, <1>3 DEF StampOwn, Active

LEMMA OtherEdit ==
    ASSUME NEW p \in Proc, Shape(p), EditInv, NEW q \in Proc \ {p}
    PROVE  EditOwn(q)'
<1>1. proc'[q] = proc[q] /\ EditOwn(q)
  BY DEF Shape, OthersKept, EditInv
<1>2. Call(q)' = Call(q)
  BY <1>1, SameCall DEF Call
<1> QED
  BY <1>1, <1>2 DEF EditOwn

LEMMA OtherKept ==
    ASSUME TypeOK, StampInv, NEW p \in Proc, Shape(p), NEW q \in Proc \ {p}, Active(q),
           NEW f \in File, f \notin hist'[q].dirty, Kept(q, f)
    PROVE  Kept(q, f)'
<1>1. proc'[q] = proc[q]
  BY DEF Shape, OthersKept
<1>2. Dest(q)' = Dest(q) /\ Mine(q)' = Mine(q)
  BY <1>1, SameCall DEF Call
<1>3. PICK d \in Canvas : Dest(q) = live(d)
  BY DestType
<1> SUFFICES ASSUME Has(Dest(q), f)'
             PROVE  proc[q].stamp # 0 /\ Has(Mine(q), f)' /\ dir'[Mine(q)][f] = dir'[live(d)][f]
  BY <1>1, <1>2, <1>3 DEF Kept
<1>4. dir'[live(d)] # None /\ dir'[live(d)][f] # None
  BY <1>2, <1>3 DEF Has, Exists
<1>5. dir[live(d)] # None /\ dir'[live(d)][f] = dir[live(d)][f]
  BY <1>3, <1>4 DEF Shape, LiveKept
<1>6. Has(Dest(q), f)
  BY <1>3, <1>4, <1>5 DEF Has, Exists
<1>7. proc[q].stamp # 0 /\ Has(Mine(q), f) /\ dir[Mine(q)][f] = dir[live(d)][f]
  BY <1>3, <1>6 DEF Kept
<1>8. dir'[Mine(q)] = dir[Mine(q)]
  BY <1>7, OtherMine
<1> QED
  BY <1>2, <1>5, <1>7, <1>8 DEF Has, Exists

LEMMA OtherSafe ==
    ASSUME TypeOK, StampInv, SafeInv, NEW p \in Proc, Shape(p), NEW q \in Proc \ {p}
    PROVE  SafeOwn(q)'
<1>1. proc'[q] = proc[q] /\ hist[q].dirty \subseteq hist'[q].dirty /\ whole \subseteq whole' /\ SafeOwn(q)
  BY WholeStep DEF Shape, OthersKept, SafeInv
<1>2. Mine(q)' = Mine(q)
  BY <1>1, SameCall DEF Call
<1>3. ASSUME proc[q].pc = "snap", NEW f \in File \ (hist'[q].dirty \cup proc[q].todo)
      PROVE  Kept(q, f)'
  BY <1>1, <1>3, OtherKept DEF SafeOwn, Active
<1>4. ASSUME proc[q].pc \in {"clear", "start", "restore", "out"}, NEW f \in File \ hist'[q].dirty
      PROVE  Kept(q, f)'
  BY <1>1, <1>4, OtherKept DEF SafeOwn, Active
<1> QED
  BY <1>1, <1>2, <1>3, <1>4 DEF SafeOwn

\* What other calls see of a call that runs alone.
LEMMA OtherAlone ==
    ASSUME TypeOK, AloneInv, NEW p \in Proc, Shape(p), NEW q \in Proc \ {p}
    PROVE  ~(Active(q) /\ hist'[q].alone)
<1>1. hist'[q].alone => hist[q].alone /\ Active(p)
  BY DEF Shape, OthersKept
<1>2. Active(q) /\ hist[q].alone => ~Active(p)
  BY DEF AloneInv, AloneOwn
<1> QED
  BY <1>1, <1>2

-----------------------------------------------------------------------------
(* What a step of p leaves of the invariant for p.                         *)

OwnInv(p) == EditOwn(p) /\ StampOwn(p) /\ SafeOwn(p) /\ AloneOwn(p)

LEMMA OwnOf ==
    ASSUME Invs, NEW p \in Proc
    PROVE  OwnInv(p)
BY DEF Invs, EditInv, StampInv, SafeInv, AloneInv, OwnInv

LEMMA OverOwn ==
    ASSUME TypeOK, NEW p \in Proc, Over(p)
    PROVE  OwnInv(p)'
<1>1. proc'[p] = Idle
  BY OverStamp
<1>2. proc'[p].pc = "idle" /\ proc'[p].buf = None
  BY <1>1 DEF Idle
<1> QED
  BY <1>2 DEF OwnInv, EditOwn, StampOwn, SafeOwn, AloneOwn, Active

LEMMA IdleIs ==
    ASSUME TypeOK, NEW p \in Proc, ~Active(p)
    PROVE  proc[p] = Idle /\ proc[p].stamp = 0 /\ proc[p].buf = None
<1>1. CASE proc[p].call = None
  BY <1>1 DEF TypeOK, Idle
<1>2. CASE proc[p].call # None
  <2>1. PICK op : op = proc[p].call.op
    OBVIOUS
  <2>2. proc[p].call \in Request
    BY <1>2, Variables DEF ProcType
  <2>3. op \in {"edit", "write", "snap", "rm", "revert", "copy"}
    BY <2>1, <2>2 DEF Request
  <2>4. "idle" \in Stages(op)
    BY <1>2, <2>1 DEF TypeOK, Active
  <2> QED BY <2>3, <2>4 DEF Stages
<1> QED
  BY <1>1, <1>2

LEMMA OwnBegin ==
    ASSUME Invs, NEW p \in Proc, Begin(p)
    PROVE  OwnInv(p)'
<1>0. TypeOK
  BY DEF Invs
<1>1. PICK call : /\ call = Head(left[p])
                  /\ proc' = [proc EXCEPT ![p].pc = "begin", ![p].call = call]
                  /\ hist' = Watch(p, IF call.op = "copy" THEN call.to ELSE call.c)
                  /\ dir' = dir
  BY DEF Begin
<1>2. proc[p].stamp = 0 /\ proc[p].buf = None
  BY <1>0, IdleIs DEF Begin, Active
<1>3. /\ proc'[p].pc = "begin" /\ proc'[p].call = call /\ proc'[p].stamp = 0 /\ proc'[p].buf = None
      /\ \A q \in Proc \ {p} : proc'[q] = proc[q]
  BY <1>0, <1>1, <1>2, Variables DEF ProcType
<1>4. EditOwn(p)' /\ StampOwn(p)' /\ SafeOwn(p)'
  BY <1>3 DEF EditOwn, StampOwn, SafeOwn, Active
<1>5. hist'[p] = [alone |-> Others(p) = {}, orig |-> dir[live(IF call.op = "copy" THEN call.to ELSE call.c)], dirty |-> {}]
  BY <1>1 DEF Watch
<1>6. ASSUME hist'[p].alone, NEW q \in Proc \ {p} PROVE ~Active(q)'
  <2>0. PICK b : b = (Others(p) = {})
    OBVIOUS
  <2>3. PICK o : o = dir[live(IF call.op = "copy" THEN call.to ELSE call.c)]
    OBVIOUS
  <2>4. hist'[p] = [alone |-> b, orig |-> o, dirty |-> {}]
    BY <1>5, <2>0, <2>3, Zenon
  <2>5. hist'[p].alone = b
    BY <2>4
  <2>1. Others(p) = {}
    BY <1>6, <2>0, <2>5, Zenon
  <2>2. q \notin Others(p)
    BY <2>1
  <2> QED BY <1>3, <2>2 DEF Others, Active
<1>7. ASSUME call.op = "revert" PROVE ExactInv(p)'
  <2>1. Call(p)' = call /\ Dest(p)' = live(call.c)
    BY <1>3, <1>7 DEF Call, Dest, live
  <2>2. hist'[p].orig = dir[live(call.c)]
    BY <1>5, <1>7
  <2> QED BY <1>1, <1>3, <2>1, <2>2 DEF ExactInv
<1>8. AloneOwn(p)'
  BY <1>3, <1>6, <1>7 DEF AloneOwn, Call
<1> QED
  BY <1>4, <1>8 DEF OwnInv

\* The snapshots that a revert chooses from stay as they are.
LEMMA ChoiceKept ==
    ASSUME TypeOK, StampInv, NEW p \in Proc, Active(p), Shape(p),
           proc'[p].call = Call(p),
           \/ clock' = clock /\ proc'[p].stamp = proc[p].stamp
           \/ clock' = clock + 1 /\ proc'[p].stamp = clock + 1 /\ proc[p].pc = "create"
    PROVE  /\ There(p)' = There(p) /\ Choice(p)' = Choice(p)
           /\ \A n \in There(p) : dir'[snapshot(Call(p).c, n)] = dir[snapshot(Call(p).c, n)]
<1>1. PICK c \in Canvas : c = Call(p).c /\ c = Call(p)'.c
  BY CallType, SameCall
<1>2. clock \in Nat /\ MaxSnaps \in Nat /\ clock <= MaxSnaps /\ clock' \in clock .. MaxSnaps
  BY LocalStoreAssumption, Variables DEF LocalStoreAssumption, Shape, Typed
<1>3. ASSUME NEW n \in 1 .. MaxSnaps, n # proc[p].stamp, n # proc'[p].stamp
      PROVE  dir'[snapshot(c, n)] = dir[snapshot(c, n)]
  <2>1. ASSUME proc[p].pc = "snap", snapshot(c, n) = Mine(p) PROVE FALSE
    <3>1. proc[p].stamp # 0
      BY <2>1 DEF StampInv, StampOwn
    <3>2. PICK d \in Canvas, m \in 1 .. clock : Mine(p) = snapshot(d, m) /\ m = proc[p].stamp
      BY <3>1, DestType
    <3>3. m \in 1 .. MaxSnaps
      BY <1>2
    <3> QED BY <1>3, <2>1, <3>2, <3>3, SnapshotPlaces
  <2>2. ASSUME clock' = clock + 1, n = clock + 1 PROVE FALSE
    BY <1>2, <1>3, <2>2
  <2> QED BY <2>1, <2>2 DEF Shape, SnapsKept
<1>4. proc[p].pc = "create" => proc[p].stamp = 0
  BY DEF StampInv, StampOwn
<1>5. There(p) = {n \in 1 .. clock : dir[snapshot(c, n)] # None /\ n # proc[p].stamp}
  BY <1>1 DEF There, Snapshots, Exists
<1>6. There(p)' = {n \in 1 .. clock' : dir'[snapshot(c, n)] # None /\ n # proc'[p].stamp}
  BY <1>1 DEF There, Snapshots, Exists
<1>7. \A n \in 1 .. clock' : (n \in 1 .. clock /\ n # proc[p].stamp) <=> n # proc'[p].stamp
  BY <1>2, <1>4
<1>8. \A n \in 1 .. clock : n \in 1 .. clock' /\ n \in 1 .. MaxSnaps
  BY <1>2
<1>9. \A n \in 1 .. clock' : n \in 1 .. MaxSnaps
  BY <1>2
<1>10. There(p)' = There(p)
  BY <1>3, <1>5, <1>6, <1>7, <1>8, <1>9
<1>11. \A n \in There(p) : dir'[snapshot(c, n)] = dir[snapshot(c, n)]
  BY <1>3, <1>5, <1>7, <1>8
<1>12. Call(p)' = Call(p)
  BY SameCall
<1> QED
  BY <1>1, <1>10, <1>11, <1>12 DEF Choice

\* A step within a call that runs alone.
LEMMA AloneKept ==
    ASSUME Invs, NEW p \in Proc, Shape(p), Active(p), proc'[p].call = Call(p),
           hist'[p].alone => hist[p].alone,
           Call(p).op = "revert" /\ ExactInv(p) => ExactInv(p)'
    PROVE  AloneOwn(p)'
<1>1. hist[p].alone => /\ \A q \in Proc \ {p} : ~Active(q)
                       /\ Call(p).op = "revert" => ExactInv(p)
  BY DEF Invs, AloneInv, AloneOwn
<1>2. \A q \in Proc \ {p} : ~Active(q) => ~Active(q)'
  BY DEF Shape, OthersKept, Active
<1>3. Call(p)' = Call(p)
  BY SameCall
<1> QED
  BY <1>1, <1>2, <1>3 DEF AloneOwn

\* The canvas and the snapshot that was made of it, between the two.
LEMMA SafeKept ==
    ASSUME NEW p \in Proc, SafeOwn(p), proc'[p].call = Call(p), proc'[p].stamp = proc[p].stamp,
           dir'[Dest(p)] = dir[Dest(p)], proc[p].stamp # 0 => dir'[Mine(p)] = dir[Mine(p)],
           hist'[p] = hist[p], whole \subseteq whole',
           proc[p].pc \in {"clear", "start", "restore", "out"},
           proc'[p].pc \in {"clear", "start", "restore", "out"}
    PROVE  SafeOwn(p)'
<1>1. Dest(p)' = Dest(p) /\ Mine(p)' = Mine(p)
  BY SameCall
<1>2. \A f \in File \ hist'[p].dirty : Kept(p, f)
  BY DEF SafeOwn
<1>3. \A f \in File \ hist'[p].dirty : Kept(p, f)'
  BY <1>1, <1>2 DEF Kept, Has, Exists
<1>4. proc'[p].stamp # 0 => Mine(p)' \in whole'
  BY <1>1 DEF SafeOwn
<1> QED
  BY <1>3, <1>4 DEF SafeOwn

LEMMA OwnWrites ==
    ASSUME Invs, NEW p \in Proc, EditFile(p) \/ WriteFile(p) \/ CreateTemp(p)
    PROVE  OwnInv(p)'
<1>0. TypeOK /\ EditOwn(p) /\ StampOwn(p) /\ Shape(p) /\ Active(p) /\ hist' = hist
  <2>1. Active(p) /\ hist' = hist
    BY DEF EditFile, WriteFile, CreateTemp, At, Active
  <2> QED BY <2>1, ShapeEdit, ShapeTemp, OwnOf DEF Invs, OwnInv
<1>1. CASE Over(p)
  BY <1>0, <1>1, OverOwn
<1>2. CASE ~Over(p)
  <2>1. /\ proc'[p].call = Call(p) /\ proc'[p].stamp = 0 /\ proc'[p].pc \in {"temp", "rename"}
        /\ Call(p).op \in {"edit", "write"}
        /\ Call(p).op = "edit" =>
              /\ proc'[p].base \in Seq(Token) /\ proc'[p].buf # Failed
              /\ proc'[p].buf = ApplyBatch(proc'[p].base, Call(p).edits)
    <3>1. CASE EditFile(p)
      BY <1>0, <1>2, <3>1, TypeEdit DEF StampOwn, EditFile, At
    <3>2. CASE WriteFile(p)
      BY <1>0, <1>2, <3>2, TypeWrite DEF StampOwn, WriteFile, At
    <3>3. CASE CreateTemp(p)
      <4>1. Goto(p, "rename") /\ proc[p].pc = "temp"
        BY <1>2, <3>3 DEF CreateTemp
      <4> QED BY <1>0, <4>1, GotoStamp, StageOf DEF StampOwn, EditOwn
    <3> QED BY <3>1, <3>2, <3>3
  <2>2. Call(p)' = Call(p)
    BY <2>1, SameCall
  <2>3. EditOwn(p)' /\ StampOwn(p)' /\ SafeOwn(p)'
    BY <2>1, <2>2 DEF EditOwn, StampOwn, SafeOwn
  <2>4. AloneOwn(p)'
    BY <1>0, <2>1, AloneKept
  <2> QED BY <2>3, <2>4 DEF OwnInv
<1> QED
  BY <1>1, <1>2

\* A call on its way to a snapshot.
LEMMA OwnToCreate ==
    ASSUME Invs, NEW p \in Proc, Shape(p), Active(p),
           proc'[p].call = Call(p), proc'[p].pc \in {"create", "stage"},
           proc'[p].stamp = proc[p].stamp, proc[p].pc \in {"begin", "stage"},
           proc'[p].buf = None, hist' = hist, Call(p).op # "revert"
    PROVE  OwnInv(p)'
<1>1. TypeOK /\ StampOwn(p)
  BY OwnOf DEF Invs, OwnInv
<1>2. Call(p)' = Call(p)
  BY SameCall
<1>3. EditOwn(p)' /\ SafeOwn(p)' /\ StampOwn(p)'
  BY <1>1, <1>2 DEF EditOwn, SafeOwn, StampOwn
<1> QED
  BY <1>3, AloneKept DEF OwnInv

LEMMA OwnStart ==
    ASSUME Invs, NEW p \in Proc, BeginSnap(p) \/ CopyCanvas(p)
    PROVE  OwnInv(p)'
<1>0. TypeOK /\ EditOwn(p)
  BY OwnOf DEF Invs, OwnInv
<1>1. CASE BeginSnap(p)
  <2>1. Call(p).op = "snap" /\ hist' = hist
    BY <1>1 DEF BeginSnap, At
  <2>2. Shape(p) /\ Active(p) /\ Goto(p, "create") /\ proc[p].pc = "begin"
    BY <1>0, <1>1, ShapeBeginSnap
  <2>3. proc'[p].buf = None
    BY <1>0, <2>2, GotoStamp DEF EditOwn
  <2> QED BY <1>0, <2>1, <2>2, <2>3, GotoStamp, OwnToCreate
<1>2. CASE CopyCanvas(p)
  <2>1. /\ Shape(p) /\ Active(p) /\ Call(p).op = "copy" /\ proc[p].pc = "begin" /\ hist' = hist
        /\ \/ Over(p)
           \/ /\ proc'[p].pc = "stage" /\ proc'[p].stamp = proc[p].stamp
              /\ proc'[p].call = Call(p) /\ proc'[p].buf = proc[p].buf
    BY <1>0, <1>2, ShapeCopyCanvas
  <2>2. CASE Over(p)
    BY <1>0, <2>2, OverOwn
  <2>3. CASE ~Over(p)
    <3>1. proc[p].buf = None
      BY <1>0, <2>1 DEF EditOwn
    <3> QED BY <2>1, <2>3, <3>1, OwnToCreate
  <2> QED BY <2>2, <2>3
<1> QED
  BY <1>1, <1>2

LEMMA OwnCreate ==
    ASSUME Invs, NEW p \in Proc, Create(p)
    PROVE  OwnInv(p)'
<1>0. TypeOK /\ EditOwn(p) /\ StampOwn(p) /\ StampInv
  BY OwnOf DEF Invs, OwnInv
<1>1. Shape(p) /\ Active(p) /\ proc[p].pc = "create" /\ whole' = whole
  BY <1>0, ShapeCreate
<1>2. CASE Over(p)
  BY <1>0, <1>2, OverOwn
<1>3. CASE ~Over(p)
  <2>1. /\ Exists(Dest(p)) /\ clock' = clock + 1 /\ clock' \in 1 .. MaxSnaps
        /\ Call(p) = proc'[p].call /\ proc'[p].pc = "snap" /\ proc'[p].stamp = clock'
        /\ proc'[p].todo = Entries(dir[Dest(p)]) /\ proc'[p].target = proc[p].target
        /\ proc'[p].buf = proc[p].buf
        /\ hist'[p].dirty = {} /\ hist'[p].orig = hist[p].orig /\ (hist'[p].alone => hist[p].alone)
        /\ dir'[snapshot(Dest(p)[2], clock')] = Empty
        /\ \A x \in Place : x # snapshot(Dest(p)[2], clock') => dir'[x] = dir[x]
    BY <1>0, <1>3, ShapeCreate DEF Call
  <2>2. PICK d \in Canvas : Dest(p) = live(d) /\ Dest(p)[2] = d
    BY <1>0, <1>1, DestType
  <2>3. Call(p)' = Call(p) /\ Dest(p)' = Dest(p) /\ Mine(p)' = snapshot(d, clock')
    BY <2>1, <2>2, SameCall DEF Mine
  <2>4. dir'[live(d)] = dir[live(d)]
    BY <2>1, <2>2, SnapshotPlaces, InPlace
  <2>5. EditOwn(p)'
    BY <1>0, <1>1, <2>1 DEF EditOwn
  <2>6. StampOwn(p)'
    <3>1. clock' # 0 /\ clock' > clock
      BY <1>0, <2>1, Variables
    <3>2. Exists(Mine(p))'
      <4>1. Empty # None
        BY LocalStoreAssumption, <1>0, DirTypes DEF LocalStoreAssumption
      <4> QED BY <2>1, <2>2, <2>3, <4>1 DEF Exists
    <3>3. Mine(p)' \notin whole'
      <4> SUFFICES ASSUME Mine(p)' \in whole PROVE FALSE
        BY <1>1
      <4>1. PICK c \in Canvas, n \in 1 .. MaxSnaps : Mine(p)' = snapshot(c, n) /\ n <= clock
        BY <1>0, WholeIs
      <4>2. n = clock'
        BY <2>1, <2>3, <4>1, SnapshotPlaces
      <4> QED BY <1>0, <3>1, <4>1, <4>2, Variables
    <3> QED BY <1>0, <1>1, <2>1, <2>3, <3>1, <3>2, <3>3 DEF StampOwn, Active
  <2>7. SafeOwn(p)'
    <3>1. ASSUME NEW f \in File \ proc'[p].todo PROVE ~Has(Dest(p), f)'
      <4>1. dir[live(d)][f] = None
        BY <2>1, <2>2, <3>1 DEF Entries, Name
      <4> QED BY <2>2, <2>3, <2>4, <4>1 DEF Has, Exists
    <3> QED BY <2>1, <3>1 DEF SafeOwn, Kept
  <2>8. ASSUME Call(p).op = "revert", ExactInv(p) PROVE ExactInv(p)'
    <3>1. Choice(p)' = Choice(p)
      BY <1>0, <1>1, <2>1, ChoiceKept
    <3> QED
      BY <1>1, <2>1, <2>2, <2>3, <2>4, <2>8, <3>1 DEF ExactInv
  <2>9. AloneOwn(p)'
    BY <1>1, <2>1, <2>8, AloneKept
  <2> QED BY <2>5, <2>6, <2>7, <2>9 DEF OwnInv
<1> QED
  BY <1>2, <1>3

LEMMA OwnCopy ==
    ASSUME Invs, NEW p \in Proc, CopyFile(p)
    PROVE  OwnInv(p)'
<1>0. TypeOK /\ EditOwn(p) /\ StampOwn(p) /\ SafeOwn(p) /\ StampInv
  BY OwnOf DEF Invs, OwnInv
<1>1. Shape(p) /\ Active(p) /\ UNCHANGED <<clock, left, whole, crashed, hist>> /\ IsCopying(p)
  BY <1>0, ShapeCopy
<1>2. CASE Over(p)
  BY <1>0, <1>2, OverOwn
<1>3. CASE ~Over(p)
  <2>1. PICK n \in proc[p].todo :
          /\ Has(Copying(p).from, n) /\ n \in Name
          /\ proc' = [proc EXCEPT ![p] = [proc[p] EXCEPT !.todo = @ \ {n}]]
          /\ \A x \in Place : x # Copying(p).to => dir'[x] = dir[x]
          /\ Copying(p).to \in Place /\ dir'[Copying(p).to] \in Dir
          /\ dir'[Copying(p).to] = [MkdirAll(Copying(p).to) EXCEPT ![n] = dir[Copying(p).from][n]]
    BY <1>0, <1>3, ShapeCopy
  <2>2. /\ proc'[p].call = Call(p) /\ proc'[p].pc = proc[p].pc /\ proc'[p].stamp = proc[p].stamp
        /\ proc'[p].todo = proc[p].todo \ {n} /\ proc'[p].target = proc[p].target
        /\ proc'[p].buf = proc[p].buf
    <3>1. proc'[p] = [proc[p] EXCEPT !.todo = @ \ {n}] /\ proc[p] \in ProcType
      BY <1>0, <2>1, Variables
    <3> QED BY <3>1 DEF ProcType, Call
  <2>3. /\ Call(p)' = Call(p) /\ Dest(p)' = Dest(p) /\ Fresh(p)' = Fresh(p) /\ Spare(p)' = Spare(p)
        /\ Mine(p)' = Mine(p)
    BY <2>2, SameCall
  <2>4. /\ Dest(p) \in Place /\ Fresh(p) \in Place /\ Spare(p) \in Place /\ Fresh(p) # Spare(p)
        /\ Dest(p) # Fresh(p)
        /\ proc[p].stamp # 0 => Mine(p) \in Place /\ Mine(p) # Fresh(p) /\ Mine(p) # Spare(p) /\ Mine(p) # Dest(p)
    BY <1>0, <1>1, DestType
  <2>5. EditOwn(p)'
    BY <1>0, <1>1, <2>2 DEF EditOwn, IsCopying
  <2>6. proc[p].pc = "snap" => /\ Copying(p).to = Mine(p) /\ Copying(p).from = Dest(p) /\ proc[p].stamp # 0
                               /\ dir[Mine(p)] \in Dir /\ Exists(Mine(p)) /\ Mine(p) \notin whole
    BY <1>0, <2>4, DirTypes DEF Copying, StampOwn, Exists
  <2>7. proc[p].pc \in {"restore", "stage"} => Copying(p).to = Fresh(p)
    BY DEF Copying
  <2>8. StampOwn(p)'
    <3>1. proc[p].pc = "snap" => Exists(Mine(p))' /\ Mine(p)' \notin whole'
      BY LocalStoreAssumption, <1>1, <2>1, <2>3, <2>6 DEF Exists, LocalStoreAssumption
    <3> QED BY <1>0, <1>1, <2>2, <2>3, <3>1 DEF StampOwn, Active
  <2>9. SafeOwn(p)'
    <3>1. CASE proc[p].pc = "snap"
      <4> SUFFICES ASSUME NEW f \in File \ (hist[p].dirty \cup proc'[p].todo) PROVE Kept(p, f)'
        BY <1>1, <2>2, <3>1 DEF SafeOwn
      <4>1. dir'[Dest(p)] = dir[Dest(p)]
        BY <2>1, <2>4, <2>6, <3>1
      <4>2. dir'[Mine(p)] = [dir[Mine(p)] EXCEPT ![n] = dir[Dest(p)][n]] /\ dir'[Mine(p)] # None
        BY LocalStoreAssumption, <2>1, <2>6, <3>1 DEF MkdirAll, LocalStoreAssumption
      <4>3. CASE f = n
        <5>1. dir'[Mine(p)][f] = dir[Dest(p)][f] /\ dir[Dest(p)][f] # None
          BY <2>1, <2>6, <3>1, <4>2, <4>3 DEF Dir, Has
        <5> QED BY <2>2, <2>3, <2>6, <3>1, <4>1, <4>2, <5>1 DEF Kept, Has, Exists
      <4>4. CASE f # n
        <5>1. Kept(p, f)
          BY <1>0, <2>2, <3>1, <4>4 DEF SafeOwn
        <5>2. dir'[Mine(p)][f] = dir[Mine(p)][f]
          BY <2>1, <2>6, <3>1, <4>2, <4>4 DEF Dir, Name
        <5> QED BY <2>2, <2>3, <4>1, <4>2, <5>1, <5>2 DEF Kept, Has, Exists
      <4> QED BY <4>3, <4>4
    <3>2. CASE proc[p].pc = "restore"
      <4>1. dir'[Dest(p)] = dir[Dest(p)] /\ (proc[p].stamp # 0 => dir'[Mine(p)] = dir[Mine(p)])
        BY <2>1, <2>4, <2>7, <3>2
      <4>2. hist'[p] = hist[p] /\ whole \subseteq whole'
        BY <1>1
      <4> QED BY <1>0, <2>2, <3>2, <4>1, <4>2, SafeKept
    <3>3. CASE proc[p].pc = "stage"
      BY <2>2, <3>3 DEF SafeOwn
    <3> QED BY <1>1, <3>1, <3>2, <3>3 DEF IsCopying
  <2>10. ASSUME Call(p).op = "revert", ExactInv(p) PROVE ExactInv(p)'
    <3>1. /\ There(p)' = There(p) /\ Choice(p)' = Choice(p)
          /\ \A m \in There(p) : dir'[snapshot(Call(p).c, m)] = dir[snapshot(Call(p).c, m)]
      BY <1>0, <1>1, <2>2, ChoiceKept
    <3>2. proc[p].pc # "stage" /\ proc[p].pc \in {"snap", "restore"}
      BY <1>0, <1>1, <2>10, StageOf DEF IsCopying
    <3>3. proc[p].target \in Choice(p) /\ proc[p].target \in There(p)
      BY <2>10, <3>2 DEF ExactInv, Choice
    <3>4. PICK asked : asked = dir[snapshot(Call(p).c, proc[p].target)]
      OBVIOUS
    <3>5. dir'[snapshot(Call(p).c, proc[p].target)] = asked
      BY <3>1, <3>3, <3>4
    <3>6. dir'[Dest(p)] = dir[Dest(p)] /\ dir'[Spare(p)] = dir[Spare(p)]
      BY <2>1, <2>4, <2>6, <2>7, <3>2
    <3>7. CASE proc[p].pc = "snap"
      BY <1>1, <2>2, <2>3, <2>10, <3>1, <3>3, <3>6, <3>7 DEF ExactInv
    <3>8. CASE proc[p].pc = "restore"
      <4>1. /\ Exists(Fresh(p)) /\ proc[p].todo \subseteq Entries(asked) /\ ~Exists(Spare(p))
            /\ dir[Dest(p)] = hist[p].orig
            /\ \A m \in Name \ proc[p].todo : dir[Fresh(p)][m] = asked[m]
        BY <2>10, <3>4, <3>8 DEF ExactInv
      <4>2. dir[Fresh(p)] \in Dir /\ dir'[Fresh(p)] = [dir[Fresh(p)] EXCEPT ![n] = asked[n]]
        BY <1>0, <2>1, <2>4, <2>7, <3>4, <3>8, <4>1, DirTypes DEF Exists, MkdirAll, Copying
      <4>3. dir'[Fresh(p)] # None
        BY LocalStoreAssumption, <2>1, <2>7, <3>8 DEF LocalStoreAssumption
      <4>4. ASSUME NEW m \in Name \ proc'[p].todo PROVE dir'[Fresh(p)][m] = asked[m]
        BY <2>2, <4>1, <4>2 DEF Dir
      <4>5. proc'[p].todo \subseteq Entries(asked)
        BY <2>2, <4>1
      <4> QED
        BY <1>1, <2>2, <2>3, <3>1, <3>3, <3>5, <3>6, <3>8, <4>1, <4>3, <4>4, <4>5 DEF ExactInv, Exists
    <3> QED BY <3>2, <3>7, <3>8
  <2>11. AloneOwn(p)'
    BY <1>1, <2>2, <2>10, AloneKept
  <2> QED BY <2>5, <2>8, <2>9, <2>11 DEF OwnInv
<1> QED
  BY <1>2, <1>3

LEMMA OwnCopied ==
    ASSUME Invs, NEW p \in Proc, Copied(p)
    PROVE  OwnInv(p)'
<1>0. TypeOK /\ EditOwn(p) /\ StampOwn(p) /\ SafeOwn(p) /\ StampInv
  BY OwnOf DEF Invs, OwnInv
<1>1. /\ Shape(p) /\ Active(p) /\ UNCHANGED <<dir, clock, left, crashed, hist>>
      /\ proc[p].pc \in {"snap", "restore", "stage"} /\ proc[p].todo = {}
      /\ whole' = IF proc[p].pc = "snap" THEN whole \cup {Mine(p)} ELSE whole
  BY <1>0, ShapeCopied
<1>2. CASE Over(p)
  BY <1>0, <1>2, OverOwn
<1>3. CASE ~Over(p)
  <2>1. PICK pc \in {"clear", "out", "create", "in"} :
           /\ Goto(p, pc)
           /\ pc \in {"clear"} => Call(p).op = "revert"
           /\ pc \in {"in", "create"} => Call(p).op = "copy" /\ proc[p].pc = "stage"
           /\ pc \in {"clear", "out"} => proc[p].pc \in {"snap", "restore"}
           /\ pc = "out" /\ Call(p).op = "revert" => proc[p].pc = "restore"
    BY <1>0, <1>3, ShapeCopied
  <2>2. /\ proc'[p].call = Call(p) /\ proc'[p].pc = pc /\ proc'[p].stamp = proc[p].stamp
        /\ proc'[p].todo = {} /\ proc'[p].target = proc[p].target /\ proc'[p].buf = None
    BY <1>0, <1>1, <2>1, GotoStamp DEF EditOwn
  <2>3. /\ Call(p)' = Call(p) /\ Dest(p)' = Dest(p) /\ Fresh(p)' = Fresh(p) /\ Spare(p)' = Spare(p)
        /\ Mine(p)' = Mine(p)
    BY <2>2, SameCall
  <2>4. EditOwn(p)'
    BY <2>2 DEF EditOwn
  <2>5. StampOwn(p)'
    BY <1>0, <1>1, <2>1, <2>2, <2>3 DEF StampOwn, Active
  <2>6. SafeOwn(p)'
    <3>1. CASE pc \in {"create", "in"}
      BY <2>2, <3>1 DEF SafeOwn
    <3>2. CASE pc \in {"clear", "out"} /\ proc[p].pc = "snap"
      <4>1. \A f \in File \ hist'[p].dirty : Kept(p, f)
        BY <1>0, <1>1, <3>2 DEF SafeOwn
      <4>2. \A f \in File \ hist'[p].dirty : Kept(p, f)'
        BY <1>1, <2>2, <2>3, <4>1 DEF Kept, Has, Exists
      <4>3. Mine(p)' \in whole'
        BY <1>1, <2>3, <3>2
      <4> QED BY <2>2, <3>2, <4>2, <4>3 DEF SafeOwn
    <3>3. CASE pc \in {"clear", "out"} /\ proc[p].pc = "restore"
      <4>1. /\ dir'[Dest(p)] = dir[Dest(p)] /\ dir'[Mine(p)] = dir[Mine(p)]
            /\ hist'[p] = hist[p] /\ whole \subseteq whole'
        BY <1>1
      <4> QED BY <1>0, <2>2, <3>3, <4>1, SafeKept
    <3> QED BY <2>1, <3>1, <3>2, <3>3
  <2>7. ASSUME Call(p).op = "revert", ExactInv(p) PROVE ExactInv(p)'
    <3>1. Choice(p)' = Choice(p) /\ \A m \in There(p) : dir'[snapshot(Call(p).c, m)] = dir[snapshot(Call(p).c, m)]
      BY <1>0, <1>1, <2>2, ChoiceKept
    <3>2. proc[p].target \in Choice(p) /\ proc[p].target \in There(p)
      BY <1>1, <2>7 DEF ExactInv, Choice
    <3>3. CASE pc = "clear"
      <4>1. proc[p].pc \in {"snap", "restore"}
        BY <2>1, <3>3
      <4> QED
        BY <1>1, <2>2, <2>3, <2>7, <3>1, <3>2, <3>3, <4>1 DEF ExactInv
    <3>4. CASE pc = "out"
      <4>1. proc[p].pc = "restore"
        BY <2>1, <2>7, <3>4
      <4>2. PICK asked : asked = dir[snapshot(Call(p).c, proc[p].target)]
        OBVIOUS
      <4>3. /\ Exists(Fresh(p)) /\ ~Exists(Spare(p)) /\ dir[Dest(p)] = hist[p].orig
            /\ \A m \in Name : dir[Fresh(p)][m] = asked[m]
        BY <1>1, <2>7, <4>1, <4>2 DEF ExactInv
      <4>4. asked \in Dir
        <5>1. asked # None
          BY <3>2, <4>2 DEF There, Snapshots, Exists
        <5>2. snapshot(Call(p).c, proc[p].target) \in Place
          BY <1>0, <1>1, <2>7, <4>1, TargetPlace
        <5> QED BY <1>0, <4>2, <5>1, <5>2, DirTypes
      <4>5. dir[Fresh(p)] \in Dir
        BY <1>0, <1>1, <4>3, DestType, DirTypes DEF Exists
      <4>6. dir[Fresh(p)] = asked
        BY <4>3, <4>4, <4>5 DEF Dir
      <4> QED
        BY <1>1, <2>2, <2>3, <3>1, <3>2, <3>4, <4>2, <4>3, <4>6 DEF ExactInv, Exists
    <3> QED BY <2>1, <2>7, <3>3, <3>4
  <2>8. AloneOwn(p)'
    BY <1>1, <2>2, <2>7, AloneKept
  <2> QED BY <2>4, <2>5, <2>6, <2>8 DEF OwnInv
<1> QED
  BY <1>2, <1>3

LEMMA OwnResolve ==
    ASSUME Invs, NEW p \in Proc, Resolve(p)
    PROVE  OwnInv(p)'
<1>0. TypeOK /\ EditOwn(p) /\ StampOwn(p) /\ SafeOwn(p) /\ StampInv
  BY OwnOf DEF Invs, OwnInv
<1>1. /\ Shape(p) /\ Active(p) /\ Call(p).op = "revert" /\ proc[p].pc = "begin"
      /\ UNCHANGED <<dir, clock, left, whole, crashed, hist>>
  BY <1>0, ShapeResolve
<1>2. CASE Over(p)
  BY <1>0, <1>2, OverOwn
<1>3. CASE ~Over(p)
  <2>1. /\ proc'[p].pc = IF Exists(Dest(p)) THEN "create" ELSE "clear"
        /\ proc'[p].call = Call(p) /\ proc'[p].stamp = proc[p].stamp
        /\ proc'[p].buf = proc[p].buf /\ proc'[p].target = Target(p)
        /\ Target(p) \in Snapshots(Call(p).c)
        /\ IF Call(p).name = 0 THEN \A m \in Snapshots(Call(p).c) : m <= Target(p)
           ELSE Target(p) = Call(p).name
    BY <1>0, <1>3, ShapeResolve
  <2>2. /\ Call(p)' = Call(p) /\ Dest(p)' = Dest(p) /\ Mine(p)' = Mine(p)
    BY <2>1, SameCall
  <2>3. proc[p].stamp = 0 /\ proc[p].buf = None /\ Target(p) # 0
    BY <1>0, <1>1, <2>1 DEF StampOwn, EditOwn, Snapshots
  <2>4. EditOwn(p)' /\ StampOwn(p)'
    BY <1>1, <2>1, <2>2, <2>3 DEF EditOwn, StampOwn, Active
  <2>5. SafeOwn(p)'
    BY <1>1, <2>1, <2>2, <2>3 DEF SafeOwn, Kept, Has, Exists
  <2>6. ASSUME ExactInv(p) PROVE ExactInv(p)'
    <3>1. Snapshots(Call(p).c) = There(p)
      BY <2>3 DEF There, Snapshots
    <3>2. Target(p) \in Choice(p)
      BY <2>1, <3>1 DEF Choice
    <3>3. Choice(p)' = Choice(p)
      BY <1>0, <1>1, <2>1, ChoiceKept
    <3> QED BY <1>1, <2>1, <2>2, <2>6, <3>2, <3>3 DEF ExactInv
  <2>7. AloneOwn(p)'
    BY <1>1, <2>1, <2>6, AloneKept
  <2> QED BY <2>4, <2>5, <2>7 DEF OwnInv
<1> QED
  BY <1>2, <1>3

LEMMA OwnClear ==
    ASSUME Invs, NEW p \in Proc, Clear(p)
    PROVE  OwnInv(p)'
<1>0. TypeOK /\ EditOwn(p) /\ StampOwn(p) /\ SafeOwn(p) /\ StampInv
  BY OwnOf DEF Invs, OwnInv
<1>1. /\ Shape(p) /\ Active(p) /\ Call(p).op = "revert" /\ proc[p].pc = "clear"
      /\ UNCHANGED <<clock, left, whole, crashed, hist>>
  BY <1>0, ShapeClear
<1>2. CASE Over(p)
  BY <1>0, <1>2, OverOwn
<1>3. CASE ~Over(p)
  <2>1. /\ Goto(p, "start") /\ dir'[Fresh(p)] = None /\ dir'[Spare(p)] = None
        /\ \A x \in Place : x # Fresh(p) /\ x # Spare(p) => dir'[x] = dir[x]
    BY <1>0, <1>3, ShapeClear
  <2>2. /\ proc'[p].call = Call(p) /\ proc'[p].pc = "start" /\ proc'[p].stamp = proc[p].stamp
        /\ proc'[p].target = proc[p].target /\ proc'[p].buf = None
    BY <1>0, <1>1, <2>1, GotoStamp DEF EditOwn
  <2>3. /\ Call(p)' = Call(p) /\ Dest(p)' = Dest(p) /\ Fresh(p)' = Fresh(p) /\ Spare(p)' = Spare(p)
    BY <2>2, SameCall
  <2>4. dir'[Dest(p)] = dir[Dest(p)] /\ (proc[p].stamp # 0 => dir'[Mine(p)] = dir[Mine(p)])
    BY <1>0, <1>1, <2>1, DestType
  <2>5. EditOwn(p)' /\ StampOwn(p)'
    BY <1>0, <1>1, <2>2, <2>3 DEF EditOwn, StampOwn, Active
  <2>6. SafeOwn(p)'
    <3>1. hist'[p] = hist[p] /\ whole \subseteq whole'
      BY <1>1
    <3> QED BY <1>0, <1>1, <2>2, <2>4, <3>1, SafeKept
  <2>7. ASSUME ExactInv(p) PROVE ExactInv(p)'
    <3>1. Choice(p)' = Choice(p)
      BY <1>0, <1>1, <2>2, ChoiceKept
    <3> QED BY <1>1, <2>1, <2>2, <2>3, <2>4, <2>7, <3>1 DEF ExactInv, Exists
  <2>8. AloneOwn(p)'
    BY <1>1, <2>2, <2>7, AloneKept
  <2> QED BY <2>5, <2>6, <2>8 DEF OwnInv
<1> QED
  BY <1>2, <1>3

LEMMA OwnRestore ==
    ASSUME Invs, NEW p \in Proc, Restore(p)
    PROVE  OwnInv(p)'
<1>0. TypeOK /\ EditOwn(p) /\ StampOwn(p) /\ SafeOwn(p) /\ StampInv
  BY OwnOf DEF Invs, OwnInv
<1>1. /\ Shape(p) /\ Active(p) /\ Call(p).op = "revert" /\ proc[p].pc = "start"
      /\ UNCHANGED <<clock, left, whole, crashed, hist>>
      /\ \A x \in Place : x # Fresh(p) => dir'[x] = dir[x]
  BY <1>0, ShapeRestore
<1>2. CASE Over(p)
  BY <1>0, <1>2, OverOwn
<1>3. CASE ~Over(p)
  <2>1. /\ dir'[Fresh(p)] = MkdirAll(Fresh(p))
        /\ proc'[p].pc = "restore" /\ proc'[p].stamp = proc[p].stamp
        /\ proc'[p].call = Call(p) /\ proc'[p].target = proc[p].target
        /\ proc'[p].buf = proc[p].buf
        /\ proc'[p].todo = Entries(dir[snapshot(Call(p).c, proc[p].target)])
    BY <1>0, <1>3, ShapeRestore
  <2>2. proc'[p].buf = None
    BY <1>0, <1>1, <2>1 DEF EditOwn
  <2>3. /\ Call(p)' = Call(p) /\ Dest(p)' = Dest(p) /\ Fresh(p)' = Fresh(p) /\ Spare(p)' = Spare(p)
    BY <2>1, SameCall
  <2>4. /\ dir'[Dest(p)] = dir[Dest(p)] /\ dir'[Spare(p)] = dir[Spare(p)]
        /\ (proc[p].stamp # 0 => dir'[Mine(p)] = dir[Mine(p)])
    BY <1>0, <1>1, DestType
  <2>5. EditOwn(p)' /\ StampOwn(p)'
    BY <1>0, <1>1, <2>1, <2>2, <2>3 DEF EditOwn, StampOwn, Active
  <2>6. SafeOwn(p)'
    <3>1. hist'[p] = hist[p] /\ whole \subseteq whole'
      BY <1>1
    <3> QED BY <1>0, <1>1, <2>1, <2>4, <3>1, SafeKept
  <2>7. ASSUME ExactInv(p) PROVE ExactInv(p)'
    <3>1. Choice(p)' = Choice(p) /\ \A m \in There(p) : dir'[snapshot(Call(p).c, m)] = dir[snapshot(Call(p).c, m)]
      BY <1>0, <1>1, <2>1, ChoiceKept
    <3>2. proc[p].target \in Choice(p) /\ proc[p].target \in There(p)
      BY <1>1, <2>7 DEF ExactInv, Choice
    <3>3. PICK asked : asked = dir[snapshot(Call(p).c, proc[p].target)]
      OBVIOUS
    <3>4. dir'[snapshot(Call(p).c, proc[p].target)] = asked
      BY <3>1, <3>2, <3>3
    <3>5. dir'[Fresh(p)] = Empty
      BY <1>1, <2>1, <2>7 DEF ExactInv, MkdirAll
    <3>6. dir'[Fresh(p)] # None
      BY LocalStoreAssumption, <1>0, <3>5, DirTypes DEF LocalStoreAssumption
    <3>7. ASSUME NEW m \in Name \ proc'[p].todo PROVE dir'[Fresh(p)][m] = asked[m]
      BY <2>1, <3>3, <3>5, <3>7 DEF Entries, Empty
    <3>8. ~Exists(Spare(p)) /\ dir[Dest(p)] = hist[p].orig
      BY <1>1, <2>7 DEF ExactInv
    <3>9. proc'[p].todo \subseteq Entries(asked)
      BY <2>1, <3>3
    <3> QED
      BY <1>1, <2>1, <2>3, <2>4, <3>1, <3>2, <3>4, <3>6, <3>7, <3>8, <3>9 DEF ExactInv, Exists
  <2>8. AloneOwn(p)'
    BY <1>1, <2>1, <2>7, AloneKept
  <2> QED BY <2>5, <2>6, <2>8 DEF OwnInv
<1> QED
  BY <1>2, <1>3

LEMMA OwnMoveAside ==
    ASSUME Invs, NEW p \in Proc, MoveAside(p)
    PROVE  OwnInv(p)'
<1>0. TypeOK /\ EditOwn(p) /\ StampOwn(p) /\ StampInv
  BY OwnOf DEF Invs, OwnInv
<1>1. Shape(p) /\ Active(p) /\ proc[p].pc = "out" /\ UNCHANGED <<clock, left, whole, crashed, hist>>
  BY <1>0, ShapeMoveAside
<1>2. CASE Over(p)
  BY <1>0, <1>2, OverOwn
<1>3. CASE ~Over(p)
  <2>1. \/ /\ Exists(Dest(p)) /\ Goto(p, "in")
           /\ dir'[Spare(p)] = dir[Dest(p)] /\ dir'[Dest(p)] = None
           /\ \A x \in Place : x # Dest(p) /\ x # Spare(p) => dir'[x] = dir[x]
        \/ ~Exists(Dest(p)) /\ Goto(p, "in") /\ dir' = dir
    BY <1>0, <1>3, ShapeMoveAside
  <2>2. /\ proc'[p].call = Call(p) /\ proc'[p].pc = "in" /\ proc'[p].stamp = proc[p].stamp
        /\ proc'[p].target = proc[p].target /\ proc'[p].buf = None
    BY <1>0, <1>1, <2>1, GotoStamp DEF EditOwn
  <2>3. /\ Call(p)' = Call(p) /\ Dest(p)' = Dest(p) /\ Fresh(p)' = Fresh(p) /\ Spare(p)' = Spare(p)
    BY <2>2, SameCall
  <2>4. EditOwn(p)' /\ StampOwn(p)' /\ SafeOwn(p)'
    BY <1>0, <1>1, <2>2, <2>3 DEF EditOwn, StampOwn, SafeOwn, Active
  <2>5. ASSUME Call(p).op = "revert", ExactInv(p) PROVE ExactInv(p)'
    <3>1. Choice(p)' = Choice(p) /\ \A m \in There(p) : dir'[snapshot(Call(p).c, m)] = dir[snapshot(Call(p).c, m)]
      BY <1>0, <1>1, <2>2, ChoiceKept
    <3>2. proc[p].target \in Choice(p) /\ proc[p].target \in There(p)
      BY <1>1, <2>5 DEF ExactInv, Choice
    <3>3. PICK asked : asked = dir[snapshot(Call(p).c, proc[p].target)]
      OBVIOUS
    <3>4. dir'[snapshot(Call(p).c, proc[p].target)] = asked
      BY <3>1, <3>2, <3>3
    <3>5. dir[Dest(p)] = hist[p].orig /\ dir[Fresh(p)] = asked /\ dir[Spare(p)] = None
      BY <1>1, <2>5, <3>3 DEF ExactInv, Exists
    <3>6. dir'[Dest(p)] = None /\ dir'[Spare(p)] = hist[p].orig /\ dir'[Fresh(p)] = asked
      BY <1>0, <1>1, <2>1, <3>5, DestType DEF Exists
    <3> QED
      BY <1>1, <2>2, <2>3, <3>1, <3>2, <3>4, <3>6 DEF ExactInv, Exists
  <2>6. AloneOwn(p)'
    BY <1>1, <2>2, <2>5, AloneKept
  <2> QED BY <2>4, <2>6 DEF OwnInv
<1> QED
  BY <1>2, <1>3

LEMMA OwnSwapIn ==
    ASSUME Invs, NEW p \in Proc, SwapIn(p)
    PROVE  OwnInv(p)'
<1>0. TypeOK /\ EditOwn(p) /\ StampOwn(p) /\ StampInv
  BY OwnOf DEF Invs, OwnInv
<1>1. /\ Shape(p) /\ Active(p) /\ proc[p].pc = "in" /\ UNCHANGED <<clock, left, whole, crashed>>
      /\ hist'[p] = hist[p]
  BY <1>0, ShapeSwapIn
<1>2. CASE Over(p)
  BY <1>0, <1>2, OverOwn
<1>3. CASE ~Over(p)
  <2>1. Goto(p, "drop") /\ dir'[Dest(p)] = dir[Fresh(p)]
    BY <1>0, <1>3, ShapeSwapIn
  <2>2. /\ proc'[p].call = Call(p) /\ proc'[p].pc = "drop" /\ proc'[p].stamp = proc[p].stamp
        /\ proc'[p].target = proc[p].target /\ proc'[p].buf = None
    BY <1>0, <1>1, <2>1, GotoStamp DEF EditOwn
  <2>3. Call(p)' = Call(p) /\ Dest(p)' = Dest(p)
    BY <2>2, SameCall
  <2>4. EditOwn(p)' /\ StampOwn(p)' /\ SafeOwn(p)'
    BY <1>0, <1>1, <2>2, <2>3 DEF EditOwn, StampOwn, SafeOwn, Active
  <2>5. ASSUME Call(p).op = "revert", ExactInv(p) PROVE ExactInv(p)'
    <3>1. Choice(p)' = Choice(p) /\ \A m \in There(p) : dir'[snapshot(Call(p).c, m)] = dir[snapshot(Call(p).c, m)]
      BY <1>0, <1>1, <2>2, ChoiceKept
    <3>2. proc[p].target \in Choice(p) /\ proc[p].target \in There(p)
      BY <1>1, <2>5 DEF ExactInv, Choice
    <3>3. dir'[snapshot(Call(p).c, proc[p].target)] = dir[Fresh(p)]
      BY <1>1, <2>5, <3>1, <3>2 DEF ExactInv
    <3> QED
      BY <1>1, <2>1, <2>2, <2>3, <3>1, <3>2, <3>3 DEF ExactInv
  <2>6. AloneOwn(p)'
    BY <1>1, <2>2, <2>5, AloneKept
  <2> QED BY <2>4, <2>6 DEF OwnInv
<1> QED
  BY <1>2, <1>3

LEMMA OwnStep ==
    ASSUME Invs, NEW p \in Proc, Step(p) \/ Crash(p)
    PROVE  OwnInv(p)'
<1>0. TypeOK
  BY DEF Invs
<1>1. CASE Rename(p) \/ RemoveCanvas(p) \/ DropOld(p) \/ Crash(p)
  BY <1>0, <1>1, OverOwn DEF Rename, RemoveCanvas, DropOld, Crash
<1> QED
  BY <1>1, OwnBegin, OwnWrites, OwnStart, OwnCreate, OwnCopy, OwnCopied, OwnResolve, OwnClear, OwnRestore,
     OwnMoveAside, OwnSwapIn DEF Step

-----------------------------------------------------------------------------
(* Every step keeps the invariant.                                         *)

LEMMA InvsStep ==
    ASSUME Invs, NEW p \in Proc, Step(p) \/ Crash(p)
    PROVE  Invs'
<1>1. TypeOK /\ EditInv /\ StampInv /\ SafeInv /\ AloneInv
  BY DEF Invs
<1>2. Shape(p)
  BY <1>1, StepShape
<1>3. OwnInv(p)'
  BY OwnStep
<1>4. TypeOK'
  BY <1>1, <1>2, TypeStep
<1>5. StampInv'
  BY <1>1, <1>2, <1>3, StampsApart, OtherStamp DEF StampInv, OwnInv
<1>6. EditInv' /\ SafeInv'
  BY <1>1, <1>2, <1>3, OtherEdit, OtherSafe DEF EditInv, SafeInv, OwnInv
<1>7. AloneInv'
  <2>1. ASSUME NEW q \in Proc \ {p} PROVE AloneOwn(q)'
    <3>1. proc'[q] = proc[q]
      BY <1>2 DEF Shape, OthersKept
    <3>2. ~(Active(q)' /\ hist'[q].alone)
      BY <1>1, <1>2, <3>1, OtherAlone DEF Active
    <3> QED BY <3>2 DEF AloneOwn
  <2> QED BY <1>3, <2>1 DEF AloneInv, OwnInv
<1> QED
  BY <1>4, <1>5, <1>6, <1>7 DEF Invs

LEMMA ClockStep ==
    ASSUME Invs, ClockInv, NEW p \in Proc, Shape(p)
    PROVE  ClockInv'
<1>0. TypeOK /\ StampInv
  BY DEF Invs
<1> SUFFICES ASSUME NEW c \in Canvas, NEW n \in 1 .. MaxSnaps, n > clock' PROVE dir'[snapshot(c, n)] = None
  BY DEF ClockInv, Exists
<1>1. clock \in Nat /\ clock' \in Nat /\ clock' >= clock /\ MaxSnaps \in Nat
  BY LocalStoreAssumption, <1>0, Variables DEF Shape, Typed, LocalStoreAssumption
<1>2. n > clock /\ (n # clock + 1 \/ clock' # clock + 1)
  BY <1>1
<1>3. dir[snapshot(c, n)] = None
  BY <1>1 DEF ClockInv, Exists
<1>4. ASSUME proc[p].pc = "snap", snapshot(c, n) = Mine(p) PROVE FALSE
  <2>1. proc[p].stamp # 0 /\ Active(p)
    BY <1>0, <1>4 DEF StampInv, StampOwn, Active
  <2>2. PICK d \in Canvas, m \in 1 .. clock : Mine(p) = snapshot(d, m)
    BY <1>0, <2>1, DestType
  <2>3. m \in 1 .. MaxSnaps
    BY LocalStoreAssumption, <1>0, Variables DEF LocalStoreAssumption
  <2>4. n = m
    BY <1>4, <2>2, <2>3, SnapshotPlaces
  <2> QED BY <1>1, <2>2, <2>4
<1> QED
  BY <1>1, <1>2, <1>3, <1>4 DEF Shape, SnapsKept

LEMMA StepCrashed ==
    ASSUME NEW p \in Proc, Step(p)
    PROVE  crashed' = crashed
BY DEF Step, Begin, EditFile, WriteFile, CreateTemp, Rename, RemoveCanvas, CopyFile, Copied, BeginSnap, Create,
       Resolve, Clear, Restore, CopyCanvas, MoveAside, SwapIn, DropOld, Unchanged

\* A snapshot that is being made is finished, goes on, or goes.
LEMMA MakingStep ==
    ASSUME Invs, NEW p \in Proc, Step(p), proc[p].pc = "snap"
    PROVE  \/ Mine(p) \in whole' \/ dir'[Mine(p)] = None
           \/ proc'[p].pc = "snap" /\ Mine(p)' = Mine(p)
<1>0. TypeOK /\ StampInv /\ proc[p].stamp # 0 /\ Active(p)
  BY DEF Invs, StampInv, StampOwn, Active
<1>1. CASE CopyFile(p)
  <2>1. CASE Fail(p)
    BY <1>0, <1>1, <2>1, ShapeCopy, ShapeFail
  <2>2. CASE ~Fail(p)
    <3>1. PICK n \in proc[p].todo :
            proc' = [proc EXCEPT ![p] = [proc[p] EXCEPT !.todo = @ \ {n}]]
      BY <1>0, <1>1, <2>2, ShapeCopy
    <3>2. proc'[p].call = Call(p) /\ proc'[p].pc = proc[p].pc /\ proc'[p].stamp = proc[p].stamp
      <4>1. proc'[p] = [proc[p] EXCEPT !.todo = @ \ {n}] /\ proc[p] \in ProcType
        BY <1>0, <3>1, Variables
      <4> QED BY <4>1 DEF ProcType, Call
    <3> QED BY <3>2, SameCall
  <2> QED BY <2>1, <2>2
<1>2. CASE Copied(p)
  BY <1>0, <1>2, ShapeCopied
<1>3. ~CopyFile(p) => Copied(p)
  BY DEF Step, Begin, EditFile, WriteFile, CreateTemp, Rename, RemoveCanvas, BeginSnap, Create,
         Resolve, Clear, Restore, CopyCanvas, MoveAside, SwapIn, DropOld, At
<1> QED
  BY <1>1, <1>2, <1>3

LEMMA SnapshotsStep ==
    ASSUME Invs, ClockInv, SnapshotsAreWhole, NEW p \in Proc, Step(p) \/ Crash(p)
    PROVE  SnapshotsAreWhole'
<1>0. TypeOK /\ StampInv /\ Shape(p)
  BY StepShape DEF Invs
<1>1. CASE Crash(p) \/ crashed
  <2>1. crashed'
    BY <1>0, <1>1, StepCrashed, ShapeCrash
  <2> QED BY <2>1 DEF SnapshotsAreWhole
<1>2. CASE ~Crash(p) /\ ~crashed
  <2> SUFFICES ASSUME NEW c \in Canvas, NEW n \in Snapshots(c)'
               PROVE  \/ snapshot(c, n) \in whole'
                      \/ \E q \in Proc : proc'[q].pc = "snap" /\ Mine(q)' = snapshot(c, n)
    BY DEF SnapshotsAreWhole
  <2>1. n \in 1 .. clock' /\ dir'[snapshot(c, n)] # None
    BY DEF Snapshots, Exists
  <2>2. n \in 1 .. MaxSnaps /\ clock \in Nat /\ clock' \in Nat
    BY LocalStoreAssumption, <1>0, <2>1, Variables DEF Shape, Typed, LocalStoreAssumption
  <2>3. CASE proc[p].pc = "snap" /\ snapshot(c, n) = Mine(p)
    BY <1>2, <2>1, <2>3, MakingStep
  <2>4. CASE /\ proc[p].pc = "create" /\ clock' = clock + 1 /\ n = clock + 1
             /\ snapshot(c, n) = snapshot(Dest(p)[2], n) /\ proc'[p].pc = "snap"
    <3>1. clock' # clock /\ proc[p].pc # "snap"
      BY <2>2, <2>4
    <3>2. proc'[p].stamp = n /\ proc'[p].call = Call(p)
      BY <1>0, <2>4, <3>1 DEF Shape, StampMoves
    <3>3. Mine(p)' = snapshot(Dest(p)[2], n)
      BY <3>2, SameCall DEF Mine
    <3> QED BY <2>4, <3>3
  <2>5. CASE /\ dir'[snapshot(c, n)] = dir[snapshot(c, n)]
             /\ ~(proc[p].pc = "snap" /\ snapshot(c, n) = Mine(p))
    <3>1. n \in Snapshots(c)
      BY <2>1, <2>2, <2>5 DEF ClockInv, Snapshots, Exists
    <3>2. CASE snapshot(c, n) \in whole
      BY <1>0, <3>2, WholeStep
    <3>3. CASE snapshot(c, n) \notin whole
      <4>1. PICK q \in Proc : proc[q].pc = "snap" /\ Mine(q) = snapshot(c, n)
        BY <1>2, <3>1, <3>3 DEF SnapshotsAreWhole
      <4>2. q # p /\ proc'[q] = proc[q]
        BY <1>0, <2>5, <4>1 DEF Shape, OthersKept
      <4>3. Mine(q)' = Mine(q)
        BY <4>2, SameCall DEF Call
      <4> QED BY <4>1, <4>2, <4>3
    <3> QED BY <3>2, <3>3
  <2> QED BY <1>0, <2>2, <2>3, <2>4, <2>5 DEF Shape, SnapsKept
<1> QED
  BY <1>1, <1>2

LEMMA LocalInit == Init => LocalInv
<1> SUFFICES ASSUME Init PROVE LocalInv
  OBVIOUS
<1>1. TypeOK
  BY InitType
<1>2. \A p \in Proc : proc[p] = Idle
  BY DEF Init
<1>3. \A p \in Proc : proc[p].pc = "idle" /\ proc[p].buf = None /\ proc[p].stamp = 0
  BY <1>2 DEF Idle
<1>4. EditInv /\ StampInv /\ SafeInv /\ AloneInv
  BY <1>3 DEF EditInv, EditOwn, StampInv, StampOwn, SafeInv, SafeOwn, AloneInv, AloneOwn, Active
<1>5. ClockInv
  <2>1. PICK contents \in Contents : dir = [x \in Place |-> IF x \in DOMAIN contents THEN contents[x] ELSE None]
    BY DEF Init
  <2>2. DOMAIN contents \subseteq {live(c) : c \in Canvas}
    BY LocalStoreAssumption DEF LocalStoreAssumption
  <2> SUFFICES ASSUME NEW c \in Canvas, NEW n \in 1 .. MaxSnaps PROVE dir[snapshot(c, n)] = None
    BY DEF ClockInv, Exists
  <2>3. snapshot(c, n) \notin DOMAIN contents
    BY <2>2, SnapshotPlaces
  <2> QED BY <2>1, <2>3, InPlace
<1>6. SnapshotsAreWhole
  <2>1. clock = 0
    BY DEF Init
  <2>2. \A c \in Canvas : Snapshots(c) = {}
    BY <2>1 DEF Snapshots
  <2> QED BY <2>2 DEF SnapshotsAreWhole
<1> QED
  BY <1>1, <1>4, <1>5, <1>6 DEF LocalInv, Invs

LEMMA LocalStep == LocalInv /\ [Next]_vars => LocalInv'
<1> SUFFICES ASSUME LocalInv, [Next]_vars PROVE LocalInv'
  OBVIOUS
<1>1. CASE Next
  <2>1. PICK p \in Proc : Step(p) \/ Crash(p)
    BY <1>1 DEF Next
  <2>2. Invs /\ ClockInv /\ SnapshotsAreWhole
    BY DEF LocalInv
  <2>3. Shape(p)
    BY <2>1, <2>2, StepShape DEF Invs
  <2>4. Invs' /\ ClockInv' /\ SnapshotsAreWhole'
    BY <2>1, <2>2, <2>3, InvsStep, ClockStep, SnapshotsStep
  <2> QED BY <2>4 DEF LocalInv
<1>2. CASE UNCHANGED vars
  <2>1. UNCHANGED <<dir, clock, left, proc, whole, crashed, hist>>
    BY <1>2 DEF vars
  <2>2. TypeOK'
    BY <2>1 DEF LocalInv, Invs, TypeOK, Exists
  <2>3. EditInv' /\ StampInv' /\ SafeInv'
    <3>0. \A p \in Proc : Call(p)' = Call(p) /\ Mine(p)' = Mine(p) /\ Dest(p)' = Dest(p)
      BY <2>1, SameCall DEF Call
    <3>1. EditInv'
      BY <2>1, <3>0 DEF LocalInv, Invs, EditInv, EditOwn
    <3>2. StampInv'
      BY <2>1, <3>0 DEF LocalInv, Invs, StampInv, StampOwn, Exists, Active
    <3>3. SafeInv'
      BY <2>1, <3>0 DEF LocalInv, Invs, SafeInv, SafeOwn, Kept, Has, Exists
    <3> QED BY <3>1, <3>2, <3>3
  <2>4. AloneInv'
    BY <2>1 DEF LocalInv, Invs, AloneInv, AloneOwn, ExactInv, Choice, There, Snapshots, Exists, Active, Call, Dest,
                Fresh, Spare, Entries
  <2>5. ClockInv' /\ SnapshotsAreWhole'
    BY <2>1 DEF LocalInv, ClockInv, SnapshotsAreWhole, Snapshots, Exists, Mine, Dest, Call
  <2> QED BY <2>2, <2>3, <2>4, <2>5 DEF LocalInv, Invs
<1> QED
  BY <1>1, <1>2

-----------------------------------------------------------------------------
(* What it says.                                                           *)

LEMMA EditsWhole == LocalInv => EditIsWhole
<1> SUFFICES ASSUME LocalInv, NEW p \in Proc, proc[p].buf # None, Call(p).op = "edit"
             PROVE  LET edits == Call(p).edits
                        done == Replaced(proc[p].base, edits)
                    IN  /\ proc[p].buf = done[Len(edits)]
                        /\ \A i \in DOMAIN edits :
                              LET count == Count(done[i - 1], edits[i].old)
                              IN  count # 0 /\ (count > 1 => edits[i].all)
  BY DEF EditIsWhole
<1>1. TypeOK /\ EditOwn(p)
  BY OwnOf DEF LocalInv, Invs, OwnInv
<1>2. Active(p)
  BY <1>1, IdleIs
<1>3. /\ proc[p].base \in Seq(Token) /\ proc[p].buf # Failed
      /\ proc[p].buf = ApplyBatch(proc[p].base, Call(p).edits)
  BY <1>1 DEF EditOwn
<1>4. Call(p).edits \in Seq(Edits(Token))
  BY <1>1, <1>2, CallType
<1> QED
  BY <1>3, <1>4, BatchIsWhole

\* What is moved aside is in the snapshot.
LEMMA AsideIsSaved ==
    ASSUME LocalInv, NEW p \in Proc, proc[p].pc = "out", NEW f \in File \ hist[p].dirty,
           Exists(Dest(p)), dir[Dest(p)][f] # None
    PROVE  /\ proc[p].stamp # 0 /\ Mine(p) \in whole
           /\ dir[Mine(p)][f] = dir[Dest(p)][f]
<1>1. SafeOwn(p)
  BY DEF LocalInv, Invs, SafeInv
<1>2. Kept(p, f) /\ (proc[p].stamp # 0 => Mine(p) \in whole)
  BY <1>1 DEF SafeOwn
<1> QED
  BY <1>2 DEF Kept, Has

Asked(p) ==
    {n \in Snapshots(Call(p).c) \ {proc[p].stamp} :
        IF Call(p).name # 0 THEN n = Call(p).name
        ELSE \A m \in Snapshots(Call(p).c) \ {proc[p].stamp} : m <= n}
Exact(p) ==
    /\ proc[p].pc # "idle" /\ Call(p).op = "revert" /\ hist[p].alone
    /\ proc'[p].pc = "idle" /\ ~crashed'
    => dir'[live(Call(p).c)] \in {hist[p].orig} \cup {dir[snapshot(Call(p).c, n)] : n \in Asked(p)}

\* However a revert that runs alone ends.
LEMMA ExactStep ==
    ASSUME LocalInv, NEW p \in Proc, Step(p), Active(p), Call(p).op = "revert",
           hist[p].alone, proc'[p].pc = "idle"
    PROVE  dir'[live(Call(p).c)] \in {hist[p].orig} \cup {dir[snapshot(Call(p).c, n)] : n \in Asked(p)}
<1>0. TypeOK /\ StampInv /\ Invs /\ ExactInv(p)
  BY DEF LocalInv, Invs, AloneInv, AloneOwn
<1>1. Dest(p) = live(Call(p).c) /\ Asked(p) = Choice(p)
  BY DEF Dest, Asked, Choice, There
<1>2. /\ Dest(p) \in Place /\ Dest(p) # Fresh(p) /\ Dest(p) # Spare(p)
      /\ proc[p].stamp # 0 => Mine(p) # Dest(p)
  BY <1>0, DestType
<1> SUFFICES \/ dir'[Dest(p)] = hist[p].orig
             \/ proc[p].target \in Choice(p) /\ dir'[Dest(p)] = dir[snapshot(Call(p).c, proc[p].target)]
  BY <1>1
<1>3. CASE Create(p)
  <2>1. ~Exists(Dest(p))
    <3> SUFFICES ASSUME Exists(Dest(p)) PROVE FALSE
      OBVIOUS
    <3>1. proc'[p].pc = "snap"
      BY <1>0, <1>3, Variables DEF Create, ProcType
    <3> QED BY <3>1
  <2>2. dir'[Dest(p)] = dir[Dest(p)]
    <3>1. Fail(p) /\ UNCHANGED <<clock, left, whole, crashed, hist>> /\ proc[p].pc = "create"
      BY <1>3, <2>1 DEF Create
    <3> QED BY <1>0, <1>2, <3>1, ShapeFail
  <2>3. proc[p].pc = "create"
    BY <1>3 DEF Create
  <2> QED BY <1>0, <2>2, <2>3 DEF ExactInv
<1>4. CASE CopyFile(p)
  <2>1. proc[p].pc \in {"snap", "restore"}
    <3>1. proc[p].pc # "stage"
      BY <1>0, StageOf
    <3> QED BY <1>4, <3>1 DEF CopyFile, IsCopying
  <2>2. Fail(p)
    <3> SUFFICES ASSUME ~Fail(p) PROVE FALSE
      OBVIOUS
    <3>1. PICK n \in proc[p].todo : proc' = [proc EXCEPT ![p].todo = @ \ {n}]
      BY <1>4 DEF CopyFile
    <3>2. proc'[p].pc = proc[p].pc
      BY <1>0, <3>1, Variables DEF ProcType
    <3> QED BY <2>1, <3>2
  <2>3. proc[p].pc = "snap" => proc[p].stamp # 0
    BY <1>0 DEF StampInv, StampOwn
  <2>4. UNCHANGED <<clock, left, whole, crashed, hist>>
    BY <1>0, <1>4, ShapeCopy
  <2>5. dir'[Dest(p)] = dir[Dest(p)]
    BY <1>0, <1>2, <2>2, <2>3, <2>4, ShapeFail
  <2> QED BY <1>0, <2>1, <2>5 DEF ExactInv
<1>5. CASE Copied(p)
  <2>1. dir' = dir /\ proc[p].pc \in {"snap", "restore", "stage"}
    BY <1>0, <1>5, ShapeCopied
  <2>2. proc[p].pc # "stage"
    BY <1>0, StageOf
  <2> QED BY <1>0, <2>1, <2>2 DEF ExactInv
<1>6. CASE Resolve(p)
  <2>1. dir' = dir /\ proc[p].pc = "begin"
    BY <1>0, <1>6, ShapeResolve
  <2> QED BY <1>0, <2>1 DEF ExactInv
<1>7. CASE Clear(p)
  <2>1. dir'[Dest(p)] = dir[Dest(p)] /\ proc[p].pc = "clear"
    BY <1>0, <1>2, <1>7, ShapeClear
  <2> QED BY <1>0, <2>1 DEF ExactInv
<1>8. CASE Restore(p)
  <2>1. dir'[Dest(p)] = dir[Dest(p)] /\ proc[p].pc = "start"
    BY <1>0, <1>2, <1>8, ShapeRestore
  <2> QED BY <1>0, <2>1 DEF ExactInv
<1>9. CASE MoveAside(p)
  <2>1. proc[p].pc = "out" /\ ~Goto(p, "in")
    BY <1>0, <1>9, GotoStamp, ShapeMoveAside
  <2>2. dir'[Dest(p)] = dir[Dest(p)]
    BY <1>0, <1>2, <1>9, <2>1, ShapeMoveAside
  <2> QED BY <1>0, <2>1, <2>2 DEF ExactInv
<1>10. CASE SwapIn(p)
  <2>1. proc[p].pc = "in" /\ ~Goto(p, "drop")
    BY <1>0, <1>10, GotoStamp, ShapeSwapIn
  <2>2. dir'[Dest(p)] = IF Exists(Spare(p)) /\ ~Exists(Dest(p)) THEN dir[Spare(p)] ELSE dir[Dest(p)]
    BY <1>0, <1>10, <2>1, ShapeSwapIn
  <2>3. ~Exists(Dest(p)) /\ dir[Spare(p)] = hist[p].orig
    BY <1>0, <2>1 DEF ExactInv
  <2> QED BY <2>2, <2>3 DEF Exists
<1>11. CASE DropOld(p)
  <2>1. dir'[Dest(p)] = dir[Dest(p)] /\ proc[p].pc = "drop"
    BY <1>0, <1>2, <1>11, ShapeDropOld
  <2> QED BY <1>0, <2>1 DEF ExactInv
<1> QED
  <2>1. ~Begin(p)
    BY DEF Begin, Active
  <2>2. ~(EditFile(p) \/ WriteFile(p) \/ CopyCanvas(p) \/ RemoveCanvas(p) \/ BeginSnap(p))
    BY DEF EditFile, WriteFile, CopyCanvas, RemoveCanvas, BeginSnap, At
  <2>3. ~(CreateTemp(p) \/ Rename(p))
    BY <1>0, StageOf DEF CreateTemp, Rename
  <2> QED
    BY <1>3, <1>4, <1>5, <1>6, <1>7, <1>8, <1>9, <1>10, <1>11, <2>1, <2>2, <2>3 DEF Step

LEMMA RevertsExact ==
    ASSUME LocalInv, Next, NEW p \in Proc
    PROVE  Exact(p)
<1> SUFFICES ASSUME Active(p), Call(p).op = "revert", hist[p].alone, proc'[p].pc = "idle", ~crashed'
             PROVE  dir'[live(Call(p).c)] \in {hist[p].orig} \cup {dir[snapshot(Call(p).c, n)] : n \in Asked(p)}
  BY DEF Exact, Active
<1>0. TypeOK /\ StampInv
  BY DEF LocalInv, Invs
<1>1. PICK q \in Proc : Step(q) \/ Crash(q)
  BY DEF Next
<1>2. Shape(q)
  BY <1>0, <1>1, StepShape
<1>3. q = p
  BY <1>2 DEF Shape, OthersKept, Active
<1>4. ~Crash(q)
  BY <1>0, ShapeCrash
<1> QED
  BY <1>1, <1>3, <1>4, ExactStep

LEMMA LocalInvariance == Spec => []LocalInv
BY LocalInit, LocalStep, PTL DEF Spec

\* Whatever a revert or a copy takes away, of files that no other call has touched
\* since, is in the snapshot that the call took first, and that snapshot is whole; so
\* is every snapshot that is listed, until a process dies (Create, RevertWithSafety).
THEOREM CanUndo == Spec => Undoable
<1>1. LocalInv => SnapshotsAreWhole
  BY DEF LocalInv
<1>2. LocalInv => [\A p \in Proc :
            proc[p].pc = "out" /\ proc'[p].pc = "in" /\ Exists(Dest(p)) =>
               \A f \in File \ hist[p].dirty :
                   dir[Dest(p)][f] # None =>
                       /\ proc[p].stamp # 0 /\ Mine(p) \in whole
                       /\ dir[Mine(p)][f] = dir[Dest(p)][f]]_vars
  BY AsideIsSaved
<1> QED
  BY <1>1, <1>2, LocalInvariance, PTL DEF Undoable

\* The batch that an edit writes is all that it was asked for, in order; and a revert
\* that nobody interferes with leaves the canvas as it was or as the snapshot has it,
\* at whatever step it fails (editFile, ApplyBatch, Revert).
THEOREM Whole == Spec => WholeOrNothing
<1>1. LocalInv => EditIsWhole
  BY EditsWhole
<1>2. LocalInv /\ [Next]_vars => [\A p \in Proc : Exact(p)]_vars
  BY RevertsExact
<1>3. [\A p \in Proc : Exact(p)]_vars =>
      [\A p \in Proc :
         LET c == Call(p).c
             asked == {n \in Snapshots(c) \ {proc[p].stamp} :
                          IF Call(p).name # 0 THEN n = Call(p).name
                          ELSE \A m \in Snapshots(c) \ {proc[p].stamp} : m <= n}
         IN  /\ proc[p].pc # "idle" /\ Call(p).op = "revert" /\ hist[p].alone
             /\ proc'[p].pc = "idle" /\ ~crashed'
             => dir'[live(c)] \in {hist[p].orig} \cup {dir[snapshot(c, n)] : n \in asked}]_vars
  BY DEF Exact, Asked
<1> QED
  BY <1>1, <1>2, <1>3, LocalInvariance, PTL DEF Spec, WholeOrNothing, RevertIsExact

-----------------------------------------------------------------------------
(* HubTools.                                                               *)

\* The hub's handler makes the edits that the local backend makes.
LEMMA SameBatch ==
    ASSUME NEW s, NEW edits
    PROVE  Hub!ApplyBatch(s, edits) = ApplyBatch(s, edits) /\ Hub!Failed = Failed
BY Zenon DEF Hub!ApplyBatch, ApplyBatch, Hub!Buffers, Buffers, Hub!Apply, Apply,
             Hub!Failed, Failed, Hub!Count, Count, Hub!Cardinality, Cardinality,
             Hub!IsFiniteSet, IsFiniteSet, Hub!Replacing, Replacing, Hub!FlattenSeq, FlattenSeq

HubType == [file : [Canvas -> Hub!Content \cup {None}], snaps : [Canvas -> Seq(Hub!Content)],
            grants : [Canvas -> SUBSET Hub!Grant]]

\* What a request that was carried out has left in a hub.
Done(q, h) ==
    /\ q.tool = "add" => h.file[q.id] # None
    /\ q.tool = "write_file" => h.file[q.id] = q.body
    /\ q.tool = "share_canvas" /\ q.kind # "link" =>
          \E g \in h.grants[q.id] : g.kind = q.kind /\ g.target = q.target

\* The call that a request or an answer belongs to.
CallOf(by) == log[by[1]][by[2]]
Made(by) == by \in Hub!CallId /\ by[2] \in DOMAIN log[by[1]]

\* The request that is made of a call: what the tool was given, or the latest
\* snapshot that the hub named.
Requested(q, e) ==
    \/ q = Hub!Request(e.in)
    \/ /\ e.in.tool = "revert" /\ e.in.name = 0 /\ e.restored >= e.first
       /\ q.tool = "revert" /\ q.id = e.in.id /\ q.name \in Nat

Opens(c, by) ==
    \/ <<c, by>> \in gone
    \/ \E g \in hub.grants[c] : g.kind = "link" /\ g.by = by

\* A request that is under way has not been carried out.
Sent(m) ==
    /\ Made(m.by) /\ ~Hub!Malformed(CallOf(m.by).in) /\ Requested(m.q, CallOf(m.by))
    /\ CallOf(m.by).landed = 0 /\ CallOf(m.by).result \in {"pending", "unknown"}

\* An answer says what the hub did of the request, and somebody waits for it.
Answered(x) ==
    LET e == CallOf(x.by)
    IN  /\ Made(x.by) /\ ~Hub!Malformed(e.in) /\ Requested(x.q, e)
        /\ e.result = "pending" /\ x.by[2] = Len(log[x.by[1]])
        /\ x.q.tool = "snaps" => e.landed = 0 /\ (x.status = "ok" /\ x.value # <<>> => Head(x.value) >= e.first)
        /\ x.q.tool # "snaps" /\ x.status = "ok" => e.landed = 1
        /\ x.q.tool = "share_canvas" /\ x.q.kind = "link" /\ x.status = "ok" => Opens(x.q.id, x.by)
        /\ x.status # "ok" => e.landed = 0
        /\ x.status \in {"invalid", "failed", "redirect"} => e.met \/ Hub!Misnamed(e.in)

\* A call has one request or one answer under way.
Distinct ==
    /\ \A m, n \in net : m.by = n.by => m = n
    /\ \A x, y \in ans : x.by = y.by => x = y
    /\ \A m \in net, x \in ans : m.by # x.by

True(a, n) ==
    LET e == log[a][n]
    IN  /\ Hub!ToldTheTruth(e) /\ Hub!RevertsLatest(e)
        /\ e.result = "ok" => e.in.id \in Canvas
        /\ e.in.tool = "share_canvas" /\ e.in.kind = "link" /\ e.result = "ok" =>
              Opens(e.in.id, <<a, n>>)
        /\ e.in.id \in Canvas => e.first <= Len(hub.snaps[e.in.id])

HubInv ==
    /\ Hub!TypeOK /\ Distinct
    /\ \A m \in net : Sent(m)
    /\ \A x \in ans : Answered(x)
    /\ \A a \in Agent : \A n \in DOMAIN log[a] : True(a, n)
    /\ last # None => Done(last, hub)

-----------------------------------------------------------------------------
(* What the hub's handlers give.                                           *)

LEMMA HubEditType ==
    ASSUME NEW s \in Seq(Token), NEW edits \in Seq(Hub!Edits(Token)), Hub!ApplyBatch(s, edits) # Hub!Failed
    PROVE  Hub!ApplyBatch(s, edits) \in Seq(Token)
<1>1. edits \in Seq(Edits(Token))
  BY DEF Hub!Edits, Edits
<1>2. Hub!ApplyBatch(s, edits) = ApplyBatch(s, edits) /\ Hub!Failed = Failed
  BY SameBatch
<1> QED
  BY <1>1, <1>2, BatchIsWhole

\* The query of each tool.
LEMMA QueryType ==
    ASSUME NEW q \in Hub!Query
    PROVE  /\ q.tool \in {"add", "rm", "snap", "snaps", "write_file", "edit_file", "revert",
                          "copy_canvas", "share_canvas"}
           /\ q.id \in Canvas
           /\ q.tool = "write_file" => q.path = "plain" /\ q.body \in Seq(Token)
           /\ q.tool = "edit_file" => q.path = "plain" /\ q.edits \in Seq(Hub!Edits(Token))
           /\ q.tool = "revert" => q.name \in Hub!Names \ {0}
           /\ q.tool = "copy_canvas" => q.to \in Canvas
           /\ q.tool = "share_canvas" => q.kind \in STRING /\ q.target \in STRING
<1>1. CASE q \in [tool : {"add", "rm", "snap"}, id : Canvas] \cup [tool : {"snaps"}, id : Canvas]
  BY <1>1
<1>2. CASE q \in [tool : {"write_file"}, id : Canvas, path : {"plain"}, body : Seq(Token)]
  BY <1>2
<1>3. CASE q \in [tool : {"edit_file"}, id : Canvas, path : {"plain"}, single : BOOLEAN,
                  batch : BOOLEAN, edits : Seq(Hub!Edits(Token))]
  BY <1>3
<1>4. CASE q \in [tool : {"revert"}, id : Canvas, name : Hub!Names \ {0}]
  BY <1>4
<1>5. CASE q \in [tool : {"copy_canvas"}, id : Canvas, to : Canvas, overwrite : BOOLEAN]
  BY <1>5
<1>6. CASE q \in [tool : {"share_canvas"}, id : Canvas, kind : STRING, target : STRING]
  BY <1>6
<1> QED
  BY <1>1, <1>2, <1>3, <1>4, <1>5, <1>6 DEF Hub!Query, Hub!Arguments

\* What may be said of an outcome of a request.
Sound(m, out) ==
    /\ out.hub \in HubType /\ out.status \in Hub!Status
    /\ out.value \in Seq(Nat \ {0})
    /\ out.status \in {"invalid", "redirect"} => Hub!Misnamed(m.q)
    /\ \A c \in Canvas : Len(hub.snaps[c]) <= Len(out.hub.snaps[c])
    /\ out.status = "ok" => Done(m.q, out.hub)
    /\ m.q.tool = "snaps" /\ out.status = "ok" /\ out.value # <<>> =>
          Head(out.value) = Len(hub.snaps[m.q.id])
    /\ m.q.tool = "share_canvas" /\ m.q.kind = "link" /\ out.status = "ok" =>
          \E g \in out.hub.grants[m.q.id] : g.kind = "link" /\ g.by = m.by
    /\ /\ m.q.tool \in {"add", "write_file", "share_canvas"} /\ Done(m.q, hub)
       /\ ~(m.q.tool = "share_canvas" /\ m.q.kind = "link")
       => out.hub = hub

LEMMA ServedSound ==
    ASSUME Hub!TypeOK, NEW m \in net, NEW out \in Hub!Served(m)
    PROVE  Sound(m, out)
<1> DEFINE q == m.q
<1>1. q \in Hub!Query /\ m.by \in Hub!CallId /\ hub \in HubType
  BY DEF Hub!TypeOK, HubType
<1>2. /\ hub.file \in [Canvas -> Hub!Content \cup {None}] /\ hub.snaps \in [Canvas -> Seq(Hub!Content)]
      /\ hub.grants \in [Canvas -> SUBSET Hub!Grant]
      /\ hub = [file |-> hub.file, snaps |-> hub.snaps, grants |-> hub.grants]
  BY <1>1 DEF HubType
<1>3. q.id \in Canvas
  BY <1>1, QueryType
<1>4. ASSUME NEW s, NEW h PROVE Hub!Outcome(s, <<>>, h).hub = h /\ Hub!Outcome(s, <<>>, h).status = s
                               /\ Hub!Outcome(s, <<>>, h).value = <<>>
  BY DEF Hub!Outcome
<1>5. ASSUME NEW s \in {"refused", "failed", "invalid", "redirect"}, out = Hub!Outcome(s, <<>>, hub),
             s \in {"invalid", "redirect"} => Hub!Misnamed(q)
      PROVE  Sound(m, out)
  <2>1. out.hub = hub /\ out.status = s /\ out.value = <<>>
    BY <1>5 DEF Hub!Outcome
  <2>2. <<>> \in Seq(Nat \ {0}) /\ \A c \in Canvas : Len(hub.snaps[c]) <= Len(hub.snaps[c])
    BY <1>2
  <2>3. /\ out.status # "ok" /\ out.status \in Hub!Status
        /\ out.status \in {"invalid", "redirect"} => Hub!Misnamed(m.q)
    BY <1>5, <2>1 DEF Hub!Status
  <2> QED BY <1>1, <2>1, <2>2, <2>3 DEF Sound
<1>16. ASSUME NEW s \in {"ok", "failed"}, NEW h, out = Hub!Outcome(s, <<>>, h), h \in HubType,
              \A c \in Canvas : Len(hub.snaps[c]) <= Len(h.snaps[c]),
              s = "ok" => Done(q, h), q.tool # "snaps",
              q.tool = "share_canvas" /\ q.kind = "link" /\ s = "ok" =>
                 \E g \in h.grants[q.id] : g.kind = "link" /\ g.by = m.by,
              /\ q.tool \in {"add", "write_file", "share_canvas"} /\ Done(q, hub)
              /\ ~(q.tool = "share_canvas" /\ q.kind = "link")
              => h = hub
       PROVE  Sound(m, out)
  <2>1. out.hub = h /\ out.status = s /\ out.value = <<>>
    BY <1>16 DEF Hub!Outcome
  <2>2. <<>> \in Seq(Nat \ {0})
    OBVIOUS
  <2>3. out.status \in {"ok", "failed"} /\ out.status \in Hub!Status
    BY <2>1 DEF Hub!Status
  <2> QED BY <1>16, <2>1, <2>2, <2>3 DEF Sound
<1>6. CASE q.tool = "add"
  <2> DEFINE h == [hub EXCEPT !.file[q.id] = IF @ = None THEN NoFile ELSE @]
  <2>1. out = Hub!Outcome("ok", <<>>, h)
    BY <1>6 DEF Hub!Served, Hub!Dotted, Hub!handleCreateCanvas, Hub!Ok
  <2>2. h \in HubType /\ h.file[q.id] # None /\ h.snaps = hub.snaps
    BY <1>2, <1>3, ToolsAssumption DEF HubType, Hub!Content, Hub!HubToolsAssumption
  <2>3. hub.file[q.id] # None => h = hub
    BY <1>2, <1>3
  <2> HIDE DEF h
  <2> QED BY <1>2, <1>6, <2>1, <2>2, <2>3, <1>16 DEF Done
<1>7. CASE q.tool = "rm"
  <2> DEFINE h == [hub EXCEPT !.file[q.id] = None, !.grants[q.id] = {}]
  <2>1. out = Hub!Outcome("ok", <<>>, h) \/ out = Hub!Outcome("refused", <<>>, hub)
    BY <1>7 DEF Hub!Served, Hub!Dotted, Hub!handleDeleteCanvas, Hub!Ok, Hub!Unless, Hub!Refuse
  <2>2. h \in HubType /\ h.snaps = hub.snaps
    BY <1>2, <1>3 DEF HubType
  <2> HIDE DEF h
  <2> QED BY <1>2, <1>5, <1>7, <2>1, <2>2, <1>16 DEF Done
<1>8. ASSUME NEW c \in Canvas PROVE
         /\ Hub!Snapshotted(c) \in HubType /\ Hub!Snapshotted(c).file = hub.file
         /\ Hub!Snapshotted(c).grants = hub.grants
         /\ \A d \in Canvas : Len(hub.snaps[d]) <= Len(Hub!Snapshotted(c).snaps[d])
  <2>1. CASE Hub!Missing(c)
    BY <1>1, <1>2, <2>1 DEF Hub!Snapshotted
  <2>2. CASE ~Hub!Missing(c)
    <3> DEFINE s == [hub.snaps EXCEPT ![c] = Append(@, hub.file[c])]
    <3>1. Hub!Snapshotted(c) = [file |-> hub.file, snaps |-> s, grants |-> hub.grants]
      BY <1>2, <2>2 DEF Hub!Snapshotted
    <3>2. hub.file[c] \in Hub!Content
      BY <1>2, <2>2 DEF Hub!Missing
    <3>3. s \in [Canvas -> Seq(Hub!Content)] /\ \A d \in Canvas : Len(hub.snaps[d]) <= Len(s[d])
      BY <1>2, <3>2
    <3> QED BY <1>2, <3>1, <3>3 DEF HubType
  <2> QED BY <2>1, <2>2
<1>9. CASE q.tool = "snap"
  <2>1. out = Hub!Outcome("ok", <<>>, Hub!Snapshotted(q.id)) \/ out = Hub!Outcome("refused", <<>>, hub)
    BY <1>9 DEF Hub!Served, Hub!Dotted, Hub!handleCreateSnapshot, Hub!Ok, Hub!Unless, Hub!Refuse
  <2> QED BY <1>2, <1>3, <1>5, <1>8, <1>9, <2>1, <1>16 DEF Done
<1>10. CASE q.tool = "snaps"
  <2> DEFINE n == Len(hub.snaps[q.id])
             names == [i \in 1 .. n |-> n + 1 - i]
  <2>1. out = Hub!Outcome("ok", names, hub)
    BY <1>10 DEF Hub!Served, Hub!Dotted, Hub!handleListSnapshots
  <2>2. n \in Nat /\ names \in Seq(Nat \ {0}) /\ (names # <<>> => Head(names) = n)
    BY <1>2, <1>3
  <2>3. out.hub = hub /\ out.status = "ok" /\ out.value = names
    BY <2>1 DEF Hub!Outcome
  <2> HIDE DEF names
  <2>4. \A c \in Canvas : Len(hub.snaps[c]) <= Len(hub.snaps[c])
    BY <1>2
  <2>5. Done(q, hub)
    BY <1>10 DEF Done
  <2>6. out.status \in Hub!Status
    BY <2>3 DEF Hub!Status
  <2> QED BY <1>1, <1>10, <2>2, <2>3, <2>4, <2>5, <2>6 DEF Sound
<1>17. CASE q.tool = "revert" /\ q.name = Hub!Dots
  <2>1. out = Hub!Outcome("redirect", <<>>, hub)
    BY <1>17 DEF Hub!Served, Hub!Dotted
  <2> QED BY <1>5, <1>17, <2>1 DEF Hub!Misnamed
<1>18. CASE q.tool = "revert" /\ q.name = Hub!NotAName
  <2>1. out = Hub!Outcome("invalid", <<>>, hub)
    BY <1>18 DEF Hub!Served, Hub!Dotted, Hub!handleRevertSnapshot, Hub!Dots, Hub!NotAName
  <2> QED BY <1>5, <1>18, <2>1 DEF Hub!Misnamed
<1>11. CASE q.tool = "revert" /\ q.name \notin {Hub!Dots, Hub!NotAName}
  <2> DEFINE h == [Hub!Snapshotted(q.id) EXCEPT !.file[q.id] = hub.snaps[q.id][q.name]]
  <2>1. \/ out = Hub!Outcome("ok", <<>>, h) /\ ~(q.name > Len(hub.snaps[q.id]))
        \/ out = Hub!Outcome("refused", <<>>, hub)
    BY <1>11 DEF Hub!Served, Hub!Dotted, Hub!handleRevertSnapshot, Hub!Ok, Hub!Unless, Hub!Refuse
  <2>2. ~(q.name > Len(hub.snaps[q.id])) => h \in HubType /\ h.snaps = Hub!Snapshotted(q.id).snaps
    <3>1. q.name \in Nat \ {0}
      BY <1>1, <1>11, QueryType DEF Hub!Names
    <3>2. ~(q.name > Len(hub.snaps[q.id])) => hub.snaps[q.id][q.name] \in Hub!Content
      BY <1>2, <1>3, <3>1
    <3> QED BY <1>3, <1>8, <3>2 DEF HubType
  <2> HIDE DEF h
  <2> QED BY <1>3, <1>5, <1>8, <1>11, <2>1, <2>2, <1>16 DEF Done
<1>12. CASE q.tool = "copy_canvas"
  <2> DEFINE copied == [Hub!Snapshotted(q.to) EXCEPT !.file[q.to] = hub.file[q.id]]
             h == [copied EXCEPT !.grants[q.to] = hub.grants[q.id]]
  <2>1. \/ out = Hub!Outcome("ok", <<>>, h) /\ ~Hub!Missing(q.id)
        \/ out = Hub!Outcome("failed", <<>>, copied) /\ ~Hub!Missing(q.id)
        \/ out = Hub!Outcome("refused", <<>>, hub)
    BY <1>12 DEF Hub!Served, Hub!Dotted, Hub!handleCopyCanvas, Hub!Ok, Hub!Unless, Hub!Refuse
  <2>2. q.to \in Canvas
    BY <1>1, <1>12, QueryType
  <2>3. copied \in HubType /\ copied.snaps = Hub!Snapshotted(q.to).snaps
    BY <1>2, <1>3, <1>8, <2>2 DEF HubType
  <2> HIDE DEF copied
  <2>4. h \in HubType /\ h.snaps = copied.snaps
    BY <1>2, <1>3, <2>2, <2>3 DEF HubType
  <2> HIDE DEF h
  <2> QED BY <1>5, <1>8, <1>12, <2>1, <2>2, <2>3, <2>4, <1>16 DEF Done
<1>13. CASE q.tool = "share_canvas"
  <2> DEFINE g == [kind |-> q.kind, target |-> q.target, by |-> m.by]
             h == [hub EXCEPT !.grants[q.id] = @ \cup {g}]
             there == \E o \in hub.grants[q.id] : o.kind = q.kind /\ o.target = q.target
  <2>1. \/ out = Hub!Outcome("ok", <<>>, hub) /\ q.kind # "link" /\ there
        \/ out = Hub!Outcome("ok", <<>>, h) /\ ~(q.kind # "link" /\ there)
        \/ out = Hub!Outcome("refused", <<>>, hub)
    BY <1>13 DEF Hub!Served, Hub!Dotted, Hub!handleCreateGrant, Hub!Ok, Hub!Unless, Hub!Refuse
  <2>2. g \in Hub!Grant
    BY <1>1, <1>13, QueryType DEF Hub!Grant
  <2>3. h \in HubType /\ h.snaps = hub.snaps /\ g \in h.grants[q.id]
    BY <1>2, <1>3, <2>2 DEF HubType
  <2>4. g.kind = q.kind /\ g.target = q.target /\ g.by = m.by
    OBVIOUS
  <2> HIDE DEF h, g
  <2> QED BY <1>1, <1>2, <1>3, <1>5, <1>13, <2>1, <2>3, <2>4, <1>16 DEF Done
<1>14. CASE q.tool = "write_file"
  <2> DEFINE h == [hub EXCEPT !.file[q.id] = q.body]
  <2>1. out = Hub!Outcome("ok", <<>>, h) \/ out = Hub!Outcome("refused", <<>>, hub)
    BY <1>1, <1>14, QueryType DEF Hub!Served, Hub!Dotted, Hub!handlePutCanvasFile, Hub!Ok, Hub!Unless, Hub!Refuse
  <2>2. h \in HubType /\ h.snaps = hub.snaps /\ h.file[q.id] = q.body
    BY <1>1, <1>2, <1>3, <1>14, QueryType DEF HubType, Hub!Content
  <2>3. hub.file[q.id] = q.body => h = hub
    BY <1>2, <1>3
  <2> HIDE DEF h
  <2> QED BY <1>2, <1>5, <1>14, <2>1, <2>2, <2>3, <1>16 DEF Done
<1>15. CASE q.tool = "edit_file"
  <2> DEFINE edited == Hub!ApplyBatch(hub.file[q.id], q.edits)
             h == [hub EXCEPT !.file[q.id] = edited]
  <2>1. \/ out = Hub!Outcome("ok", <<>>, h) /\ hub.file[q.id] \notin {None, NoFile} /\ edited # Hub!Failed
        \/ out = Hub!Outcome("refused", <<>>, hub)
    BY <1>1, <1>15, QueryType DEF Hub!Served, Hub!Dotted, Hub!handleEditCanvasFile, Hub!Ok, Hub!Unless, Hub!Refuse
  <2>2. hub.file[q.id] \notin {None, NoFile} /\ edited # Hub!Failed => edited \in Hub!Content
    BY <1>1, <1>2, <1>3, <1>15, QueryType, HubEditType DEF Hub!Content
  <2> HIDE DEF edited
  <2>3. edited \in Hub!Content => h \in HubType /\ h.snaps = hub.snaps
    BY <1>2, <1>3 DEF HubType
  <2> HIDE DEF h
  <2> QED BY <1>2, <1>5, <1>15, <2>1, <2>2, <2>3, <1>16 DEF Done
<1> QED
  BY <1>1, <1>6, <1>7, <1>9, <1>10, <1>11, <1>12, <1>13, <1>14, <1>15, <1>17, <1>18, QueryType

LEMMA OutcomesSound ==
    ASSUME Hub!TypeOK, NEW m \in net, NEW out \in Hub!Outcomes(m)
    PROVE  Sound(m, out) /\ (out.status = "failed" => faults < MaxFaults)
<1>1. CASE out \in Hub!Served(m)
  <2>1. out.status = "failed" => faults < MaxFaults
    BY DEF Hub!Outcomes, Hub!Broken
  <2> QED BY <1>1, <2>1, ServedSound
<1>2. CASE out \notin Hub!Served(m)
  <2>1. out = Hub!Outcome("failed", <<>>, hub) /\ faults < MaxFaults
    BY <1>2 DEF Hub!Outcomes
  <2>2. out.hub = hub /\ out.status = "failed" /\ out.value = <<>>
    BY <2>1 DEF Hub!Outcome
  <2>3. hub \in HubType /\ \A c \in Canvas : Len(hub.snaps[c]) <= Len(hub.snaps[c])
    BY DEF Hub!TypeOK, HubType
  <2>4. <<>> \in Seq(Nat \ {0}) /\ out.status \in Hub!Status \ {"ok", "refused", "invalid", "redirect"}
    BY <2>2 DEF Hub!Status
  <2> QED BY <2>1, <2>2, <2>3, <2>4 DEF Sound
<1> QED
  BY <1>1, <1>2

-----------------------------------------------------------------------------
(* The log.                                                                *)

LEMMA LogPut ==
    ASSUME log \in [Agent -> Seq(Hub!LogEntry)], NEW a \in Agent, NEW n \in DOMAIN log[a],
           NEW e \in Hub!LogEntry, log' = [log EXCEPT ![a][n] = e]
    PROVE  /\ log' \in [Agent -> Seq(Hub!LogEntry)]
           /\ \A b \in Agent : Len(log'[b]) = Len(log[b]) /\ DOMAIN log'[b] = DOMAIN log[b]
           /\ log'[a][n] = e
           /\ \A b \in Agent : \A k \in DOMAIN log[b] : b # a \/ k # n => log'[b][k] = log[b][k]
<1> DEFINE s == [log[a] EXCEPT ![n] = e]
<1>1. log' = [log EXCEPT ![a] = s]
  OBVIOUS
<1>2. s \in Seq(Hub!LogEntry) /\ Len(s) = Len(log[a]) /\ DOMAIN s = DOMAIN log[a] /\ s[n] = e
      /\ \A k \in DOMAIN log[a] : k # n => s[k] = log[a][k]
  OBVIOUS
<1> HIDE DEF s
<1> QED
  BY <1>1, <1>2

LEMMA LogAppend ==
    ASSUME log \in [Agent -> Seq(Hub!LogEntry)], NEW a \in Agent, NEW e \in Hub!LogEntry,
           log' = [log EXCEPT ![a] = Append(@, e)]
    PROVE  /\ log' \in [Agent -> Seq(Hub!LogEntry)]
           /\ \A b \in Agent : b # a => log'[b] = log[b]
           /\ Len(log'[a]) = Len(log[a]) + 1 /\ Len(log[a]) \in Nat
           /\ DOMAIN log'[a] = DOMAIN log[a] \cup {Len(log[a]) + 1}
           /\ Len(log[a]) + 1 \notin DOMAIN log[a]
           /\ log'[a][Len(log[a]) + 1] = e
           /\ \A k \in DOMAIN log[a] : log'[a][k] = log[a][k]
<1> DEFINE s == Append(log[a], e)
<1>1. log' = [log EXCEPT ![a] = s]
  OBVIOUS
<1>2. s \in Seq(Hub!LogEntry) /\ Len(s) = Len(log[a]) + 1 /\ Len(log[a]) \in Nat
      /\ DOMAIN s = DOMAIN log[a] \cup {Len(log[a]) + 1} /\ s[Len(log[a]) + 1] = e
      /\ Len(log[a]) + 1 \notin DOMAIN log[a]
      /\ \A k \in DOMAIN log[a] : s[k] = log[a][k]
  OBVIOUS
<1> HIDE DEF s
<1> QED
  BY <1>1, <1>2

-----------------------------------------------------------------------------
(* The invariant.                                                          *)

LEMMA HubInit == Hub!Init => HubInv
<1> SUFFICES ASSUME Hub!Init PROVE HubInv
  OBVIOUS
<1>1. Hub!TypeOK
  <2>1. hub.file \in [Canvas -> Hub!Content \cup {None}] /\ hub.snaps \in [Canvas -> Seq(Hub!Content)]
        /\ hub.grants \in [Canvas -> SUBSET Hub!Grant]
        /\ hub = [file |-> hub.file, snaps |-> hub.snaps, grants |-> hub.grants]
    BY ToolsAssumption DEF Hub!Init, Hub!HubToolsAssumption
  <2>2. log \in [Agent -> Seq(Hub!LogEntry)]
    BY DEF Hub!Init
  <2>3. hub \in HubType
    BY <2>1 DEF HubType
  <2> QED BY ToolsAssumption, <2>2, <2>3 DEF Hub!Init, Hub!TypeOK, HubType, Hub!HubToolsAssumption
<1>2. \A a \in Agent : DOMAIN log[a] = {}
  BY DEF Hub!Init
<1> QED
  BY <1>1, <1>2 DEF Hub!Init, HubInv, Distinct

\* What is the case of a call that a step leaves alone.
LEMMA Frame ==
    ASSUME HubInv, log' \in [Agent -> Seq(Hub!LogEntry)],
           \A c \in Canvas : Len(hub.snaps[c]) <= Len(hub'.snaps[c]) /\ Len(hub'.snaps[c]) \in Nat,
           \A c \in Canvas, by \in Hub!CallId : Opens(c, by) => Opens(c, by)',
           NEW a \in Agent, NEW n \in DOMAIN log[a], n \in DOMAIN log'[a], log'[a][n] = log[a][n]
    PROVE  True(a, n)'
<1>1. True(a, n) /\ log[a][n] \in Hub!LogEntry /\ <<a, n>> \in Hub!CallId
  BY DEF HubInv, Hub!TypeOK, Hub!CallId
<1>2. \A c \in Canvas : Len(hub.snaps[c]) \in Nat
  BY DEF HubInv, Hub!TypeOK
<1>3. log[a][n].first \in Nat
  BY <1>1 DEF Hub!LogEntry
<1>4. PICK e : e = log[a][n]
  OBVIOUS
<1>5. e = log'[a][n] /\ e.first \in Nat
  BY <1>3, <1>4
<1>6. /\ Hub!ToldTheTruth(e) /\ Hub!RevertsLatest(e)
      /\ e.result = "ok" => e.in.id \in Canvas
      /\ e.in.tool = "share_canvas" /\ e.in.kind = "link" /\ e.result = "ok" =>
            Opens(e.in.id, <<a, n>>)
      /\ e.in.id \in Canvas => e.first <= Len(hub.snaps[e.in.id])
  BY <1>1, <1>4 DEF True
<1>7. ASSUME e.in.id \in Canvas PROVE e.first <= Len(hub'.snaps[e.in.id])
  <2>1. PICK i, j, k : i = e.first /\ j = Len(hub.snaps[e.in.id]) /\ k = Len(hub'.snaps[e.in.id])
    OBVIOUS
  <2>2. i \in Nat /\ i <= j
    BY <1>5, <1>6, <1>7, <2>1
  <2>3. j \in Nat /\ k \in Nat /\ j <= k
    BY <1>2, <1>7, <2>1
  <2> QED BY <2>1, <2>2, <2>3
<1>8. e.in.tool = "share_canvas" /\ e.in.kind = "link" /\ e.result = "ok" =>
         Opens(e.in.id, <<a, n>>)'
  BY <1>1, <1>6
<1> QED
  BY <1>5, <1>6, <1>7, <1>8 DEF True, Hub!ToldTheTruth, Hub!RevertsLatest

LEMMA FrameSent ==
    ASSUME HubInv, NEW m \in net, Made(m.by)', CallOf(m.by)' = CallOf(m.by)
    PROVE  Sent(m)'
<1>1. Sent(m)
  BY DEF HubInv
<1>2. PICK e : e = CallOf(m.by)
  OBVIOUS
<1>3. /\ ~Hub!Malformed(e.in) /\ Requested(m.q, e) /\ e.landed = 0 /\ e.result \in {"pending", "unknown"}
  BY <1>1, <1>2 DEF Sent
<1> QED
  BY <1>2, <1>3 DEF Sent, Requested

LEMMA FrameAnswered ==
    ASSUME HubInv, NEW x \in ans, Made(x.by)', CallOf(x.by)' = CallOf(x.by),
           Len(log'[x.by[1]]) = Len(log[x.by[1]]),
           \A c \in Canvas, by \in Hub!CallId : Opens(c, by) => Opens(c, by)'
    PROVE  Answered(x)'
<1>1. Answered(x) /\ x.by \in Hub!CallId /\ x.q.id \in Canvas
  BY QueryType DEF HubInv, Hub!TypeOK
<1>2. PICK e : e = CallOf(x.by)
  OBVIOUS
<1>3. /\ ~Hub!Malformed(e.in) /\ Requested(x.q, e)
      /\ e.result = "pending" /\ x.by[2] = Len(log[x.by[1]])
      /\ x.q.tool = "snaps" => e.landed = 0 /\ (x.status = "ok" /\ x.value # <<>> => Head(x.value) >= e.first)
      /\ x.q.tool # "snaps" /\ x.status = "ok" => e.landed = 1
      /\ x.q.tool = "share_canvas" /\ x.q.kind = "link" /\ x.status = "ok" => Opens(x.q.id, x.by)
      /\ x.status # "ok" => e.landed = 0
      /\ x.status \in {"invalid", "failed", "redirect"} => e.met \/ Hub!Misnamed(e.in)
  BY <1>1, <1>2 DEF Answered
<1>4. x.q.tool = "share_canvas" /\ x.q.kind = "link" /\ x.status = "ok" => Opens(x.q.id, x.by)'
  BY <1>1, <1>3
<1> QED
  BY <1>2, <1>3, <1>4 DEF Answered, Requested

\* A step that moves nothing in the hub.
LEMMA Idles ==
    ASSUME HubInv, hub' = hub, gone' = gone
    PROVE  /\ \A c \in Canvas : Len(hub.snaps[c]) <= Len(hub'.snaps[c]) /\ Len(hub'.snaps[c]) \in Nat
           /\ \A c \in Canvas, by \in Hub!CallId : Opens(c, by) => Opens(c, by)'
BY DEF HubInv, Hub!TypeOK, Opens

\* What is made of an input that is not turned down.
LEMMA RequestType ==
    ASSUME NEW in \in Hub!Input, ~Hub!Malformed(in)
    PROVE  /\ Hub!Request(in) \in Hub!Query /\ Hub!Request(in).id = in.id /\ in.id \in Canvas
           /\ in.tool = "share_canvas" => Hub!Request(in) = in
           /\ Hub!Request(in).tool = "snaps" <=> in.tool = "revert" /\ in.name = 0
<1> DEFINE Ids == Canvas \cup {BadId}
           Paths == {"plain", "dotted", "escapes", ""}
<1>0. in.id \in Canvas
  BY DEF Hub!Malformed
<1>1. CASE in \in [tool : {"add", "rm", "snap"}, id : Ids]
  <2>1. in \in [tool : {"add", "rm", "snap"}, id : Canvas] /\ Hub!Request(in) = in
    BY <1>0, <1>1 DEF Hub!Request
  <2>2. Hub!Request(in) \in Hub!Query
    BY <2>1 DEF Hub!Query, Hub!Arguments
  <2> QED BY <1>0, <1>1, <2>1, <2>2
<1>2. CASE in \in [tool : {"write_file"}, id : Ids, path : Paths, body : Seq(Token)]
  <2> DEFINE q == [in EXCEPT !.path = "plain"]
  <2>1. Hub!Request(in) = q
    BY <1>2 DEF Hub!Request, Hub!Malformed, Hub!cleanRelPath
  <2>2. q \in [tool : {"write_file"}, id : Canvas, path : {"plain"}, body : Seq(Token)]
        /\ q.id = in.id
    BY <1>0, <1>2
  <2>3. q \in Hub!Query
    BY <2>2 DEF Hub!Query, Hub!Arguments
  <2> QED BY <1>0, <1>2, <2>1, <2>2, <2>3
<1>3. CASE in \in [tool : {"edit_file"}, id : Ids, path : Paths, single : BOOLEAN,
                  batch : BOOLEAN, edits : Seq(Hub!Edits(Token))]
  <2> DEFINE q == [in EXCEPT !.path = "plain"]
  <2>1. Hub!Request(in) = q
    BY <1>3 DEF Hub!Request, Hub!Malformed, Hub!cleanRelPath
  <2>2. q \in [tool : {"edit_file"}, id : Canvas, path : {"plain"}, single : BOOLEAN,
               batch : BOOLEAN, edits : Seq(Hub!Edits(Token))]
        /\ q.id = in.id
    BY <1>0, <1>3
  <2>3. q \in Hub!Query
    BY <2>2 DEF Hub!Query, Hub!Arguments
  <2> QED BY <1>0, <1>3, <2>1, <2>2, <2>3
<1>4. CASE in \in [tool : {"revert"}, id : Ids, name : Hub!Names]
  <2>1. CASE in.name = 0
    <3>1. Hub!Request(in) = [tool |-> "snaps", id |-> in.id]
      BY <1>4, <2>1 DEF Hub!Request
    <3>2. Hub!Request(in) \in Hub!Query
      BY <1>0, <3>1 DEF Hub!Query, Hub!Arguments
    <3>3. in.tool = "revert" /\ Hub!Request(in).tool = "snaps" /\ Hub!Request(in).id = in.id
      BY <1>4, <3>1
    <3> QED BY <1>0, <2>1, <3>2, <3>3
  <2>2. CASE in.name # 0
    <3>1. in \in [tool : {"revert"}, id : Canvas, name : Hub!Names \ {0}] /\ Hub!Request(in) = in
      BY <1>0, <1>4, <2>2 DEF Hub!Request
    <3>2. Hub!Request(in) \in Hub!Query
      BY <3>1 DEF Hub!Query, Hub!Arguments
    <3> QED BY <1>0, <1>4, <2>2, <3>1, <3>2
  <2> QED BY <2>1, <2>2
<1>5. CASE in \in [tool : {"copy_canvas"}, id : Ids, to : Ids, overwrite : BOOLEAN]
  <2>1. in \in [tool : {"copy_canvas"}, id : Canvas, to : Canvas, overwrite : BOOLEAN]
        /\ Hub!Request(in) = in
    BY <1>0, <1>5 DEF Hub!Request, Hub!Malformed
  <2>2. Hub!Request(in) \in Hub!Query
    BY <2>1 DEF Hub!Query, Hub!Arguments
  <2> QED BY <1>0, <1>5, <2>1, <2>2
<1>6. CASE in \in [tool : {"share_canvas"}, id : Ids, kind : STRING, target : STRING]
  <2>1. in \in [tool : {"share_canvas"}, id : Canvas, kind : STRING, target : STRING]
        /\ Hub!Request(in) = in
    BY <1>0, <1>6 DEF Hub!Request
  <2>2. Hub!Request(in) \in Hub!Query
    BY <2>1 DEF Hub!Query, Hub!Arguments
  <2> QED BY <1>0, <1>6, <2>1, <2>2
<1> QED
  BY <1>1, <1>2, <1>3, <1>4, <1>5, <1>6 DEF Hub!Input, Hub!Arguments

\* The name in a revert is the one that the tool was given, or the hub's own.
LEMMA MisnamedAsAsked ==
    ASSUME NEW q, NEW e, e.in \in Hub!Input, ~Hub!Malformed(e.in), Requested(q, e), Hub!Misnamed(q)
    PROVE  Hub!Misnamed(e.in)
<1>1. q = Hub!Request(e.in) /\ q.tool = "revert"
  BY DEF Requested, Hub!Misnamed, Hub!NotAName, Hub!Dots
<1>2. q.tool # "snaps"
  BY <1>1
<1>3. ~(e.in.tool = "revert" /\ e.in.name = 0)
  BY <1>1, <1>2, RequestType
<1>4. CASE e.in.tool \in {"write_file", "edit_file"}
  <2>1. q = [e.in EXCEPT !.path = Hub!cleanRelPath(e.in.path)]
    BY <1>1, <1>3, <1>4 DEF Hub!Request
  <2>2. e.in \in [tool : {"write_file"}, id : Canvas \cup {BadId}, path : {"plain", "dotted", "escapes", ""}, body : Seq(Token)]
        \/ e.in \in [tool : {"edit_file"}, id : Canvas \cup {BadId}, path : {"plain", "dotted", "escapes", ""},
                    single : BOOLEAN, batch : BOOLEAN, edits : Seq(Hub!Edits(Token))]
    BY <1>4 DEF Hub!Input, Hub!Arguments
  <2>3. q.tool = e.in.tool
    BY <2>1, <2>2
  <2> QED BY <1>1, <1>4, <2>3
<1>5. CASE e.in.tool \notin {"write_file", "edit_file"}
  <2>1. q = e.in
    BY <1>1, <1>3, <1>5 DEF Hub!Request
  <2> QED BY <2>1
<1> QED
  BY <1>4, <1>5

LEMMA KeepsCallTool ==
    ASSUME HubInv, NEW a \in Agent, Hub!CallTool(a)
    PROVE  HubInv'
<1>1. PICK in \in work :
         /\ log' = [log EXCEPT ![a] = Append(@, Hub!Entry(in, IF Hub!Malformed(in) THEN "refused" ELSE "pending"))]
         /\ net' = IF Hub!Malformed(in) THEN net
                   ELSE net \cup {[by |-> <<a, Len(log[a]) + 1>>, q |-> Hub!Request(in)]}
  BY DEF Hub!CallTool
<1>2. ~Hub!Pending(a) /\ UNCHANGED <<work, hub, ans, last, gone, faults>>
  BY DEF Hub!CallTool
<1>16. PICK n : n = Len(log[a]) + 1
  OBVIOUS
<1>17. PICK e : e = Hub!Entry(in, IF Hub!Malformed(in) THEN "refused" ELSE "pending")
  OBVIOUS
<1> DEFINE m == [by |-> <<a, n>>, q |-> Hub!Request(in)]
<1>3. in \in Hub!Input
  BY ToolsAssumption, <1>1 DEF HubInv, Hub!TypeOK, Hub!HubToolsAssumption
<1>4. e \in Hub!LogEntry
  <2>1. in.id \in Canvas => Len(hub.snaps[in.id]) \in Nat
    BY DEF HubInv, Hub!TypeOK
  <2> QED BY <1>3, <1>17, <2>1 DEF Hub!Entry, Hub!LogEntry
<1>5. log \in [Agent -> Seq(Hub!LogEntry)]
  BY DEF HubInv, Hub!TypeOK
<1>6. /\ log' \in [Agent -> Seq(Hub!LogEntry)]
      /\ \A b \in Agent : b # a => log'[b] = log[b]
      /\ Len(log'[a]) = Len(log[a]) + 1 /\ Len(log[a]) \in Nat
      /\ DOMAIN log'[a] = DOMAIN log[a] \cup {n} /\ n \notin DOMAIN log[a] /\ log'[a][n] = e
      /\ \A k \in DOMAIN log[a] : log'[a][k] = log[a][k]
  BY <1>1, <1>4, <1>5, <1>16, <1>17, LogAppend
<1>15. n \in Nat \ {0} /\ <<a, n>> \in Hub!CallId
  BY <1>6, <1>16 DEF Hub!CallId
<1>7. ASSUME NEW by, Made(by) PROVE Made(by)' /\ CallOf(by)' = CallOf(by) /\ by # <<a, n>>
  <2>1. CASE by[1] = a
    BY <1>6, <1>7, <2>1 DEF Made, CallOf, Hub!CallId
  <2>2. CASE by[1] # a
    BY <1>6, <1>7, <2>2 DEF Made, CallOf, Hub!CallId
  <2> QED BY <2>1, <2>2
<1>8. ASSUME ~Hub!Malformed(in) PROVE Hub!Request(in) \in Hub!Query
  BY <1>3, <1>8, RequestType
<1>9. ASSUME NEW x \in ans PROVE x.by[1] # a
  <2>1. Made(x.by) /\ CallOf(x.by).result = "pending" /\ x.by[2] = Len(log[x.by[1]])
    BY DEF HubInv, Answered
  <2>2. log[a] \in Seq(Hub!LogEntry)
    BY <1>5
  <2> QED BY <1>2, <2>1, <2>2 DEF Hub!Pending, CallOf, Made
<1>10. Hub!TypeOK'
  <2>1. net' \subseteq [by : Hub!CallId, q : Hub!Query]
    <3>1. ~Hub!Malformed(in) => m \in [by : Hub!CallId, q : Hub!Query]
      BY <1>8, <1>15
    <3> HIDE DEF m
    <3> QED BY <1>1, <1>16, <3>1 DEF HubInv, Hub!TypeOK, m
  <2> QED BY <1>2, <1>6, <2>1 DEF HubInv, Hub!TypeOK
<1>11. Distinct'
  <2>1. \A k \in net \cup ans : Made(k.by)
    BY DEF HubInv, Sent, Answered
  <2>2. \A k \in net \cup ans : k.by # <<a, n>>
    BY <1>7, <2>1
  <2>3. m.by = <<a, n>> /\ (net' = net \/ net' = net \cup {m})
    BY <1>1, <1>16
  <2> HIDE DEF m
  <2> QED BY <1>2, <2>2, <2>3 DEF HubInv, Distinct
<1>12. ASSUME NEW k \in net' PROVE Sent(k)'
  <2>1. CASE k \in net
    <3>1. Made(k.by)
      BY <2>1 DEF HubInv, Sent
    <3> QED BY <1>7, <2>1, <3>1, FrameSent
  <2>2. CASE k \notin net
    <3>1. k.by = <<a, n>> /\ k.q = Hub!Request(in) /\ ~Hub!Malformed(in)
      BY <1>1, <1>12, <1>16, <2>2
    <3>2. Made(<<a, n>>)' /\ CallOf(<<a, n>>)' = e
      BY <1>6, <1>15 DEF Made, CallOf
    <3>3. e.in = in /\ e.landed = 0 /\ e.result = "pending"
      BY <1>17, <3>1 DEF Hub!Entry
    <3> QED BY <3>1, <3>2, <3>3 DEF Sent, Requested
  <2> QED BY <2>1, <2>2
<1>13. ASSUME NEW x \in ans' PROVE Answered(x)'
  <2>1. x \in ans /\ Made(x.by) /\ x.by[1] # a /\ x.by[1] \in Agent
    BY <1>2, <1>9, <1>13 DEF HubInv, Answered, Hub!TypeOK, Hub!CallId
  <2>2. Len(log'[x.by[1]]) = Len(log[x.by[1]])
    BY <1>6, <2>1
  <2> QED BY <1>2, <1>7, <2>1, <2>2, FrameAnswered, Idles
<1>14. ASSUME NEW b \in Agent, NEW k \in DOMAIN log'[b] PROVE True(b, k)'
  <2>1. CASE k \in DOMAIN log[b]
    <3>1. log'[b][k] = log[b][k]
      BY <1>6, <2>1
    <3> QED BY <1>2, <1>6, <1>14, <2>1, <3>1, Idles, Frame
  <2>2. CASE k \notin DOMAIN log[b]
    <3>1. b = a /\ k = n /\ log'[b][k] = e
      BY <1>6, <1>14, <2>2
    <3>2. e.in = in /\ e.landed = 0 /\ e.result \in {"pending", "refused"}
          /\ (in.id \in Canvas => e.first = Len(hub.snaps[in.id]))
      BY <1>17 DEF Hub!Entry
    <3>3. \A c \in Canvas : Len(hub.snaps[c]) \in Nat
      BY DEF HubInv, Hub!TypeOK
    <3> QED BY <1>2, <3>1, <3>2, <3>3 DEF True, Hub!ToldTheTruth, Hub!RevertsLatest
  <2> QED BY <2>1, <2>2
<1> QED
  BY <1>2, <1>10, <1>11, <1>12, <1>13, <1>14 DEF HubInv, Done

\* A step that puts e for the n-th call of a.
Put(a, n, e) ==
    /\ log' \in [Agent -> Seq(Hub!LogEntry)]
    /\ \A b \in Agent : Len(log'[b]) = Len(log[b]) /\ DOMAIN log'[b] = DOMAIN log[b]
    /\ \A b \in Agent : \A k \in DOMAIN log[b] : <<b, k>> # <<a, n>> => log'[b][k] = log[b][k]
    /\ log'[a][n] = e /\ <<a, n>> \in Hub!CallId
    /\ Made(<<a, n>>)' /\ CallOf(<<a, n>>)' = e /\ CallOf(<<a, n>>) = log[a][n]

LEMMA CallPut ==
    ASSUME HubInv, NEW a \in Agent, NEW n \in DOMAIN log[a], NEW e \in Hub!LogEntry,
           log' = [log EXCEPT ![a][n] = e]
    PROVE  Put(a, n, e)
<1>1. log \in [Agent -> Seq(Hub!LogEntry)]
  BY DEF HubInv, Hub!TypeOK
<1>2. /\ log' \in [Agent -> Seq(Hub!LogEntry)]
      /\ \A b \in Agent : Len(log'[b]) = Len(log[b]) /\ DOMAIN log'[b] = DOMAIN log[b]
      /\ log'[a][n] = e
      /\ \A b \in Agent : \A k \in DOMAIN log[b] : b # a \/ k # n => log'[b][k] = log[b][k]
  BY <1>1, LogPut
<1>3. <<a, n>> \in Hub!CallId /\ <<a, n>>[1] = a /\ <<a, n>>[2] = n
  BY <1>1 DEF Hub!CallId
<1> QED
  BY <1>2, <1>3 DEF Put, Made, CallOf

LEMMA PutKeeps ==
    ASSUME NEW a, NEW n, NEW e, Put(a, n, e), NEW by, Made(by), by # <<a, n>>
    PROVE  Made(by)' /\ CallOf(by)' = CallOf(by) /\ Len(log'[by[1]]) = Len(log[by[1]])
<1>1. by[1] \in Agent /\ by[2] \in DOMAIN log[by[1]] /\ by = <<by[1], by[2]>> /\ by \in Hub!CallId
  BY DEF Made, Hub!CallId
<1>2. <<by[1], by[2]>> # <<a, n>>
  BY <1>1
<1>3. log'[by[1]][by[2]] = log[by[1]][by[2]] /\ DOMAIN log'[by[1]] = DOMAIN log[by[1]]
      /\ Len(log'[by[1]]) = Len(log[by[1]])
  BY <1>1, <1>2 DEF Put
<1> QED
  BY <1>1, <1>3 DEF Made, CallOf

\* A result that may be told of an answer, to the agent that waits for it.
Tellable(x, r) ==
    \/ r = "unknown"
    \/ r = "refused" /\ x.q.tool = "snaps"
    \/ r = Hub!Result(x.status) /\ (x.q.tool # "snaps" \/ x.status # "ok")

LEMMA KeepsTell ==
    ASSUME HubInv, NEW x \in ans, NEW r, Tellable(x, r), Hub!Tell(x.by[1], r),
           ans' = ans \ {x}, UNCHANGED <<work, hub, net, last, gone>>, faults' \in 0 .. MaxFaults
    PROVE  HubInv'
<1>1. PICK a, n : a = x.by[1] /\ n = x.by[2]
  OBVIOUS
<1>2. /\ a \in Agent /\ n \in DOMAIN log[a] /\ n = Len(log[a]) /\ x.by = <<a, n>>
      /\ Answered(x) /\ x \in [by : Hub!CallId, q : Hub!Query, value : Seq(Nat \ {0}),
                             status : Hub!Status]
  BY <1>1 DEF HubInv, Answered, Made, Hub!TypeOK, Hub!CallId
<1>3. PICK o : o = log[a][n]
  OBVIOUS
<1>4. PICK e : e = [o EXCEPT !.result = r]
  OBVIOUS
<1>5. r \in {"ok", "refused", "failed", "unknown"}
  BY <1>2 DEF Tellable, Hub!Result, Hub!Status
<1>6. o \in Hub!LogEntry /\ e \in Hub!LogEntry
  <2>1. log[a] \in Seq(Hub!LogEntry)
    BY <1>2 DEF HubInv, Hub!TypeOK
  <2>2. o \in Hub!LogEntry
    BY <1>2, <1>3, <2>1
  <2> QED BY <1>4, <1>5, <2>2 DEF Hub!LogEntry
<1>7. log' = [log EXCEPT ![a][n] = e]
  <2>1. log' = [log EXCEPT ![a][n].result = r]
    BY <1>1, <1>2 DEF Hub!Tell
  <2> QED BY <1>3, <1>4, <2>1
<1>8. /\ e.in = o.in /\ e.landed = o.landed /\ e.met = o.met /\ e.first = o.first
      /\ e.restored = o.restored /\ e.result = r
  BY <1>4, <1>6 DEF Hub!LogEntry
<1>9. Put(a, n, e)
  BY <1>2, <1>6, <1>7, CallPut
<1>10. Hub!TypeOK'
  BY <1>9 DEF HubInv, Hub!TypeOK, Put
<1>11. Distinct'
  BY DEF HubInv, Distinct
<1>12. ASSUME NEW m \in net' PROVE Sent(m)'
  <2>1. m \in net /\ Made(m.by) /\ m.by # <<a, n>>
    BY <1>2 DEF HubInv, Distinct, Sent
  <2>2. Made(m.by)' /\ CallOf(m.by)' = CallOf(m.by)
    BY <1>9, <2>1, PutKeeps
  <2> QED BY <2>1, <2>2, FrameSent
<1>13. ASSUME NEW y \in ans' PROVE Answered(y)'
  <2>1. y \in ans /\ Made(y.by) /\ y.by # <<a, n>>
    BY <1>2 DEF HubInv, Distinct, Answered
  <2>2. Made(y.by)' /\ CallOf(y.by)' = CallOf(y.by) /\ Len(log'[y.by[1]]) = Len(log[y.by[1]])
    BY <1>9, <2>1, PutKeeps
  <2> QED BY <2>1, <2>2, FrameAnswered, Idles
<1>14. True(a, n)'
  <2>1. /\ ~Hub!Malformed(o.in) /\ Requested(x.q, o)
        /\ x.q.tool = "snaps" => o.landed = 0
        /\ x.q.tool # "snaps" /\ x.status = "ok" => o.landed = 1
        /\ x.q.tool = "share_canvas" /\ x.q.kind = "link" /\ x.status = "ok" => Opens(x.q.id, <<a, n>>)
        /\ x.status # "ok" => o.landed = 0
        /\ x.status \in {"invalid", "failed", "redirect"} => o.met \/ Hub!Misnamed(o.in)
    BY <1>2, <1>3, <1>9 DEF Answered, Put
  <2>2. /\ Hub!Request(o.in).id = o.in.id /\ o.in.id \in Canvas
        /\ o.in.tool = "share_canvas" => Hub!Request(o.in) = o.in
        /\ Hub!Request(o.in).tool = "snaps" <=> o.in.tool = "revert" /\ o.in.name = 0
    BY <1>6, <2>1, RequestType DEF Hub!LogEntry
  <2>3. /\ r = "ok" => x.status = "ok" /\ x.q.tool # "snaps"
        /\ r = "refused" => x.status = "refused" \/ x.q.tool = "snaps"
        /\ r = "failed" => x.status \in {"invalid", "failed", "redirect"}
    BY <1>2 DEF Tellable, Hub!Result
  <2>4. Hub!ToldTheTruth(e)
    BY <1>6, <1>8, <2>1, <2>3 DEF Hub!ToldTheTruth, Hub!LogEntry
  <2>5. Hub!RevertsLatest(e)
    BY <1>8, <2>1, <2>2, <2>3 DEF Hub!RevertsLatest, Requested
  <2>6. e.in.tool = "share_canvas" /\ e.in.kind = "link" /\ e.result = "ok" => Opens(e.in.id, <<a, n>>)'
    BY <1>8, <2>1, <2>2, <2>3 DEF Requested, Opens
  <2>7. e.first <= Len(hub.snaps[e.in.id])
    BY <1>2, <1>3, <1>8, <2>2 DEF HubInv, True
  <2> QED BY <1>8, <1>9, <2>2, <2>4, <2>5, <2>6, <2>7 DEF True, Hub!ToldTheTruth, Hub!RevertsLatest, Put
<1>15. ASSUME NEW b \in Agent, NEW k \in DOMAIN log'[b] PROVE True(b, k)'
  <2>1. CASE <<b, k>> = <<a, n>>
    BY <1>14, <2>1
  <2>2. CASE <<b, k>> # <<a, n>>
    <3>1. k \in DOMAIN log[b] /\ log'[b][k] = log[b][k] /\ log' \in [Agent -> Seq(Hub!LogEntry)]
      BY <1>9, <1>15, <2>2 DEF Put
    <3> QED BY <1>15, <3>1, Frame, Idles
  <2> QED BY <2>1, <2>2
<1> QED
  BY <1>10, <1>11, <1>12, <1>13, <1>15 DEF HubInv, Done

\* A step that only takes requests and answers away.
LEMMA KeepsLoss ==
    ASSUME HubInv, net' \subseteq net, ans' \subseteq ans,
           UNCHANGED <<work, hub, log, last, gone>>, faults' \in 0 .. MaxFaults
    PROVE  HubInv'
<1>1. Hub!TypeOK' /\ Distinct'
  BY DEF HubInv, Hub!TypeOK, Distinct
<1>2. ASSUME NEW by, Made(by)
      PROVE  Made(by)' /\ CallOf(by)' = CallOf(by) /\ Len(log'[by[1]]) = Len(log[by[1]])
  BY <1>2 DEF Made, CallOf
<1>3. ASSUME NEW m \in net' PROVE Sent(m)'
  <2>1. m \in net /\ Made(m.by)
    BY DEF HubInv, Sent
  <2> QED BY <1>2, <2>1, FrameSent
<1>4. ASSUME NEW x \in ans' PROVE Answered(x)'
  <2>1. x \in ans /\ Made(x.by)
    BY DEF HubInv, Answered
  <2> QED BY <1>2, <2>1, FrameAnswered, Idles
<1>5. ASSUME NEW a \in Agent, NEW n \in DOMAIN log'[a] PROVE True(a, n)'
  <2>1. n \in DOMAIN log[a] /\ log'[a][n] = log[a][n] /\ log' \in [Agent -> Seq(Hub!LogEntry)]
    BY <1>5 DEF HubInv, Hub!TypeOK
  <2> QED BY <1>5, <2>1, Frame, Idles
<1> QED
  BY <1>1, <1>3, <1>4, <1>5 DEF HubInv, Done

LEMMA KeepsTimeout ==
    ASSUME HubInv, NEW a \in Agent, Hub!Timeout(a)
    PROVE  HubInv'
<1>1. PICK n, o : n = Len(log[a]) /\ o = log[a][n]
  OBVIOUS
<1>2. n \in DOMAIN log[a] /\ o \in Hub!LogEntry
  <2>1. log[a] \in Seq(Hub!LogEntry) /\ log[a] # <<>>
    BY DEF HubInv, Hub!TypeOK, Hub!Timeout, Hub!Pending
  <2> QED BY <1>1, <2>1
<1>3. PICK e : e = [o EXCEPT !.result = "unknown"]
  OBVIOUS
<1>4. /\ e \in Hub!LogEntry /\ e.in = o.in /\ e.landed = o.landed /\ e.met = o.met
      /\ e.first = o.first /\ e.restored = o.restored /\ e.result = "unknown"
  BY <1>2, <1>3 DEF Hub!LogEntry
<1>5. Put(a, n, e)
  <2>1. log' = [log EXCEPT ![a][n].result = "unknown"]
    BY <1>1 DEF Hub!Timeout, Hub!Tell
  <2>2. log' = [log EXCEPT ![a][n] = e]
    BY <1>1, <1>3, <2>1
  <2> QED BY <1>2, <1>4, <2>2, CallPut
<1>6. net' = net /\ ans' = {x \in ans : x.by[1] # a} /\ UNCHANGED <<work, hub, last, gone, faults>>
  BY DEF Hub!Timeout
<1>7. Hub!TypeOK' /\ Distinct'
  BY <1>5, <1>6 DEF HubInv, Hub!TypeOK, Distinct, Put
<1>8. ASSUME NEW m \in net' PROVE Sent(m)'
  <2>1. m \in net /\ Sent(m)
    BY <1>6 DEF HubInv
  <2>2. CASE m.by = <<a, n>>
    <3>1. Made(m.by)' /\ CallOf(m.by)' = e /\ CallOf(m.by) = o
      BY <1>1, <1>5, <2>2 DEF Put
    <3> QED BY <1>4, <2>1, <3>1 DEF Sent, Requested
  <2>3. CASE m.by # <<a, n>>
    <3>1. Made(m.by)' /\ CallOf(m.by)' = CallOf(m.by)
      BY <1>5, <2>1, <2>3, PutKeeps DEF Sent
    <3> QED BY <2>1, <3>1, FrameSent
  <2> QED BY <2>2, <2>3
<1>9. ASSUME NEW x \in ans' PROVE Answered(x)'
  <2>1. x \in ans /\ Made(x.by) /\ x.by # <<a, n>>
    BY <1>6 DEF HubInv, Answered
  <2>2. Made(x.by)' /\ CallOf(x.by)' = CallOf(x.by) /\ Len(log'[x.by[1]]) = Len(log[x.by[1]])
    BY <1>5, <2>1, PutKeeps
  <2> QED BY <1>6, <2>1, <2>2, FrameAnswered, Idles
<1>10. ASSUME NEW b \in Agent, NEW k \in DOMAIN log'[b] PROVE True(b, k)'
  <2>1. CASE <<b, k>> = <<a, n>>
    <3>1. True(a, n) /\ log'[a][n] = e
      BY <1>2, <1>5 DEF HubInv, Put
    <3>2. log'[b][k] = e
      BY <2>1, <3>1
    <3> QED BY <1>1, <1>4, <1>6, <2>1, <3>1, <3>2 DEF True, Hub!ToldTheTruth, Hub!RevertsLatest
  <2>2. CASE <<b, k>> # <<a, n>>
    <3>1. k \in DOMAIN log[b] /\ log'[b][k] = log[b][k] /\ log' \in [Agent -> Seq(Hub!LogEntry)]
      BY <1>5, <1>10, <2>2 DEF Put
    <3> QED BY <1>6, <1>10, <3>1, Frame, Idles
  <2> QED BY <2>1, <2>2
<1> QED
  BY <1>6, <1>7, <1>8, <1>9, <1>10 DEF HubInv, Done

LEMMA KeepsGarble ==
    ASSUME HubInv, NEW x \in ans, Hub!Garble(x)
    PROVE  HubInv'
<1>1. PICK r : r = IF x.q.tool = "write_file" \/ x.status = "redirect" THEN Hub!Result(x.status) ELSE "unknown"
  OBVIOUS
<1>2. Tellable(x, r)
  BY <1>1 DEF Tellable
<1>3. Hub!Tell(x.by[1], r) /\ ans' = ans \ {x} /\ UNCHANGED <<work, hub, net, last, gone>>
  BY <1>1 DEF Hub!Garble
<1>4. faults' \in 0 .. MaxFaults
  BY ToolsAssumption DEF Hub!Garble, Hub!Fault, HubInv, Hub!TypeOK, Hub!HubToolsAssumption
<1> QED
  BY <1>2, <1>3, <1>4, KeepsTell

LEMMA KeepsReceive ==
    ASSUME HubInv, NEW x \in ans, Hub!Receive(x)
    PROVE  HubInv'
<1>1. CASE ~(x.q.tool = "snaps" /\ x.status = "ok" /\ x.value # <<>>)
  <2>1. PICK r : r = IF x.q.tool = "snaps" /\ x.status = "ok" THEN "refused" ELSE Hub!Result(x.status)
    OBVIOUS
  <2>2. Tellable(x, r)
    BY <2>1 DEF Tellable
  <2>3. Hub!Tell(x.by[1], r) /\ ans' = ans \ {x} /\ UNCHANGED <<work, hub, net, last, gone>>
    BY <1>1, <2>1 DEF Hub!Receive
  <2>4. faults' \in 0 .. MaxFaults
    BY DEF Hub!Receive, HubInv, Hub!TypeOK
  <2> QED BY <2>2, <2>3, <2>4, KeepsTell
<1>2. CASE x.q.tool = "snaps" /\ x.status = "ok" /\ x.value # <<>>
  <2>1. PICK a, n : a = x.by[1] /\ n = x.by[2]
    OBVIOUS
  <2>2. PICK o, k : o = log[a][n] /\ k = Head(x.value)
    OBVIOUS
  <2>3. /\ a \in Agent /\ n \in DOMAIN log[a] /\ x.by = <<a, n>> /\ x.by \in Hub!CallId
        /\ x.q \in Hub!Query /\ x.value \in Seq(Nat \ {0}) /\ Answered(x)
    BY <2>1 DEF HubInv, Answered, Made, Hub!TypeOK, Hub!CallId
  <2>4. o \in Hub!LogEntry /\ k \in Nat \ {0}
    <3>1. log[a] \in Seq(Hub!LogEntry)
      BY <2>3 DEF HubInv, Hub!TypeOK
    <3> QED BY <1>2, <2>2, <2>3, <3>1
  <2>5. PICK e : e = [o EXCEPT !.restored = k]
    OBVIOUS
  <2>6. /\ e \in Hub!LogEntry /\ e.in = o.in /\ e.landed = o.landed /\ e.met = o.met
        /\ e.first = o.first /\ e.restored = k /\ e.result = o.result
    BY <2>4, <2>5 DEF Hub!LogEntry
  <2>7. PICK q, m : q = [tool |-> "revert", id |-> x.q.id, name |-> k] /\ m = [by |-> x.by, q |-> q]
    OBVIOUS
  <2>8. Put(a, n, e)
    <3>1. log' = [log EXCEPT ![a][n].restored = k]
      BY <1>2, <2>1, <2>2 DEF Hub!Receive
    <3>2. log' = [log EXCEPT ![a][n] = e]
      BY <2>2, <2>5, <3>1
    <3> QED BY <2>3, <2>6, <3>2, CallPut
  <2>9. net' = net \cup {m} /\ ans' = ans \ {x} /\ UNCHANGED <<work, hub, last, gone, faults>>
    BY <1>2, <2>2, <2>7 DEF Hub!Receive
  <2>10. q \in Hub!Query /\ m.by = x.by /\ m.q = q /\ m \in [by : Hub!CallId, q : Hub!Query]
         /\ q.tool = "revert" /\ q.id = x.q.id
    <3>1. x.q.id \in Canvas /\ k \in Hub!Names \ {0}
      BY <2>3, <2>4, QueryType DEF Hub!Names
    <3>2. q \in Hub!Query
      BY <2>7, <3>1 DEF Hub!Query, Hub!Arguments
    <3> QED BY <2>3, <2>7, <3>2
  <2>11. Hub!TypeOK'
    BY <2>8, <2>9, <2>10 DEF HubInv, Hub!TypeOK, Put
  <2>12. Distinct'
    BY <2>9, <2>10 DEF HubInv, Distinct
  <2>13. Sent(m)'
    <3>1. /\ ~Hub!Malformed(o.in) /\ Requested(x.q, o) /\ o.result = "pending"
          /\ o.landed = 0 /\ k >= o.first
      BY <1>2, <2>2, <2>3, <2>8 DEF Answered, Put
    <3>2. o.in \in Hub!Input
      BY <2>4 DEF Hub!LogEntry
    <3>3. x.q = Hub!Request(o.in) /\ o.in.tool = "revert" /\ o.in.name = 0 /\ x.q.id = o.in.id
      BY <1>2, <3>1, <3>2, RequestType DEF Requested
    <3>4. Made(m.by)' /\ CallOf(m.by)' = e
      BY <2>3, <2>8, <2>10 DEF Put
    <3> QED BY <2>4, <2>6, <2>7, <2>10, <3>1, <3>3, <3>4 DEF Sent, Requested
  <2>14. ASSUME NEW l \in net' PROVE Sent(l)'
    <3>1. CASE l \in net
      <4>1. Made(l.by) /\ l.by # <<a, n>>
        BY <2>3, <3>1 DEF HubInv, Distinct, Sent
      <4>2. Made(l.by)' /\ CallOf(l.by)' = CallOf(l.by)
        BY <2>8, <4>1, PutKeeps
      <4> QED BY <3>1, <4>2, FrameSent
    <3>2. CASE l = m
      BY <2>13, <3>2
    <3> QED BY <2>9, <3>1, <3>2
  <2>15. ASSUME NEW y \in ans' PROVE Answered(y)'
    <3>1. y \in ans /\ Made(y.by) /\ y.by # <<a, n>>
      BY <2>3, <2>9 DEF HubInv, Distinct, Answered
    <3>2. Made(y.by)' /\ CallOf(y.by)' = CallOf(y.by) /\ Len(log'[y.by[1]]) = Len(log[y.by[1]])
      BY <2>8, <3>1, PutKeeps
    <3> QED BY <2>9, <3>1, <3>2, FrameAnswered, Idles
  <2>16. ASSUME NEW b \in Agent, NEW j \in DOMAIN log'[b] PROVE True(b, j)'
    <3>1. CASE <<b, j>> = <<a, n>>
      <4>1. True(a, n) /\ o.result = "pending" /\ log'[b][j] = e
        BY <2>2, <2>3, <2>8, <3>1 DEF HubInv, Answered, Put
      <4> QED BY <2>2, <2>6, <2>9, <3>1, <4>1 DEF True, Hub!ToldTheTruth, Hub!RevertsLatest
    <3>2. CASE <<b, j>> # <<a, n>>
      <4>1. j \in DOMAIN log[b] /\ log'[b][j] = log[b][j] /\ log' \in [Agent -> Seq(Hub!LogEntry)]
        BY <2>8, <2>16, <3>2 DEF Put
      <4> QED BY <2>9, <2>16, <4>1, Frame, Idles
    <3> QED BY <3>1, <3>2
  <2> QED BY <2>9, <2>11, <2>12, <2>14, <2>15, <2>16 DEF HubInv, Done
<1> QED
  BY <1>1, <1>2

\* A request arrives: it is off the net, its call is noted as e, and who waits
\* for an answer may have x.
Arrives(m, e, x) ==
    /\ log' = [log EXCEPT ![m.by[1]][m.by[2]] = e] /\ net' = net \ {m} /\ work' = work
    /\ LET o == CallOf(m.by)
       IN  /\ e.in = o.in /\ e.first = o.first /\ e.restored = o.restored
           /\ e.result = o.result /\ e.landed <= 1 /\ (o.met => e.met)
           /\ \/ ans' = ans
              \/ o.result = "pending" /\ m.by[2] = Len(log[m.by[1]]) /\ ans' = ans \cup {x}
    /\ hub' \in HubType /\ gone' \subseteq Canvas \X Hub!CallId /\ faults' \in 0 .. MaxFaults
    /\ last' # None => last' \in Hub!Query /\ Done(last', hub')
    /\ \A c \in Canvas : Len(hub.snaps[c]) <= Len(hub'.snaps[c])
    /\ \A c \in Canvas, by \in Hub!CallId : Opens(c, by) => Opens(c, by)'
    /\ x.by = m.by /\ x.q = m.q
    /\ x \in [by : Hub!CallId, q : Hub!Query, value : Seq(Nat \ {0}),
              status : Hub!Status]
    /\ x.q.tool = "snaps" => e.landed = 0 /\ (x.status = "ok" /\ x.value # <<>> => Head(x.value) >= e.first)
    /\ x.q.tool # "snaps" /\ x.status = "ok" => e.landed = 1
    /\ x.q.tool = "share_canvas" /\ x.q.kind = "link" /\ x.status = "ok" => Opens(x.q.id, x.by)'
    /\ x.status # "ok" => e.landed = 0
    /\ x.status \in {"invalid", "failed", "redirect"} => e.met \/ Hub!Misnamed(e.in)

LEMMA KeepsArrival ==
    ASSUME HubInv, NEW m \in net, NEW e \in Hub!LogEntry, NEW x, Arrives(m, e, x)
    PROVE  HubInv'
<1>1. PICK a, n, o : a = m.by[1] /\ n = m.by[2] /\ o = CallOf(m.by)
  OBVIOUS
<1>2. /\ a \in Agent /\ n \in DOMAIN log[a] /\ m.by = <<a, n>> /\ m.by \in Hub!CallId
      /\ Sent(m) /\ o = log[a][n]
  BY <1>1 DEF HubInv, Sent, Made, Hub!CallId, CallOf
<1>3. Put(a, n, e)
  BY <1>1, <1>2, CallPut DEF Arrives
<1>0. Arrives(m, e, x)
  OBVIOUS
<1> USE DEF Arrives
<1>4. \A c \in Canvas : Len(hub'.snaps[c]) \in Nat
  BY DEF HubType
<1>5. \A y \in ans' : y \in ans \/ y = x
  OBVIOUS
<1>6. ASSUME NEW y \in ans PROVE y.by # m.by
  BY DEF HubInv, Distinct
<1>7. Hub!TypeOK'
  BY <1>3, <1>5 DEF HubInv, Hub!TypeOK, HubType, Put
<1>8. Distinct'
  BY <1>5, <1>6 DEF HubInv, Distinct
<1>9. ASSUME NEW l \in net' PROVE Sent(l)'
  <2>1. l \in net /\ Made(l.by) /\ l.by # <<a, n>>
    BY <1>2 DEF HubInv, Distinct, Sent
  <2>2. Made(l.by)' /\ CallOf(l.by)' = CallOf(l.by)
    BY <1>3, <2>1, PutKeeps
  <2> QED BY <2>1, <2>2, FrameSent
<1>10. ASSUME NEW y \in ans PROVE Answered(y)'
  <2>1. Made(y.by) /\ y.by # <<a, n>>
    BY <1>2, <1>6 DEF HubInv, Answered
  <2>2. Made(y.by)' /\ CallOf(y.by)' = CallOf(y.by) /\ Len(log'[y.by[1]]) = Len(log[y.by[1]])
    BY <1>3, <2>1, PutKeeps
  <2> QED BY <2>1, <2>2, FrameAnswered
<1>11. ASSUME x \in ans', x \notin ans PROVE Answered(x)'
  <2>1. o.result = "pending" /\ n = Len(log[a])
    BY <1>1, <1>11
  <2>2. Made(x.by)' /\ CallOf(x.by)' = e /\ Len(log'[x.by[1]]) = Len(log[a])
    BY <1>1, <1>2, <1>3 DEF Put
  <2>3. ~Hub!Malformed(e.in) /\ Requested(x.q, e)
    BY <1>1, <1>2 DEF Sent, Requested
  <2> QED BY <1>1, <2>1, <2>2, <2>3 DEF Answered, Requested
<1>12. ASSUME NEW b \in Agent, NEW j \in DOMAIN log'[b] PROVE True(b, j)'
  <2>1. CASE <<b, j>> = <<a, n>>
    <3>1. True(a, n) /\ o.result \in {"pending", "unknown"} /\ log'[b][j] = e
      BY <1>1, <1>2, <1>3, <2>1 DEF HubInv, Sent, Put
    <3>2. e.in.id \in Canvas => e.first <= Len(hub'.snaps[e.in.id])
      <4>0. e.first \in Nat
        BY DEF Hub!LogEntry
      <4>1. e.in.id \in Canvas => e.first <= Len(hub.snaps[e.in.id])
        BY <1>1, <1>2, <3>1 DEF True
      <4>2. \A c \in Canvas : Len(hub.snaps[c]) \in Nat
        BY DEF HubInv, Hub!TypeOK
      <4>3. ASSUME e.in.id \in Canvas PROVE e.first <= Len(hub'.snaps[e.in.id])
        <5>1. PICK u, v, w : u = e.first /\ v = Len(hub.snaps[e.in.id]) /\ w = Len(hub'.snaps[e.in.id])
          OBVIOUS
        <5>2. u \in Nat /\ u <= v
          BY <4>0, <4>1, <4>3, <5>1
        <5>3. v \in Nat /\ w \in Nat /\ v <= w
          BY <1>4, <4>2, <4>3, <5>1
        <5> QED BY <5>1, <5>2, <5>3
      <4> QED BY <4>3
    <3> QED BY <1>1, <3>1, <3>2 DEF True, Hub!ToldTheTruth, Hub!RevertsLatest
  <2>2. CASE <<b, j>> # <<a, n>>
    <3>1. j \in DOMAIN log[b] /\ log'[b][j] = log[b][j] /\ log' \in [Agent -> Seq(Hub!LogEntry)]
      BY <1>3, <1>12, <2>2 DEF Put
    <3> QED BY <1>4, <1>12, <3>1, Frame
  <2> QED BY <2>1, <2>2
<1> QED
  BY <1>5, <1>7, <1>8, <1>9, <1>10, <1>11, <1>12 DEF HubInv

LEMMA KeepsRedirect ==
    ASSUME HubInv, NEW m \in net, Hub!Redirect(m)
    PROVE  HubInv'
<1>1. PICK o, x : o = CallOf(m.by) /\ x = [by |-> m.by, q |-> m.q, status |-> "redirect", value |-> <<>>]
  OBVIOUS
<1>2. PICK e : e = [o EXCEPT !.met = TRUE]
  OBVIOUS
<1>3. Sent(m) /\ m \in [by : Hub!CallId, q : Hub!Query] /\ o \in Hub!LogEntry
  <2>1. Sent(m) /\ m \in [by : Hub!CallId, q : Hub!Query] /\ log \in [Agent -> Seq(Hub!LogEntry)]
    BY DEF HubInv, Hub!TypeOK
  <2>2. m.by[1] \in Agent /\ m.by[2] \in DOMAIN log[m.by[1]] /\ log[m.by[1]] \in Seq(Hub!LogEntry)
    BY <2>1 DEF Sent, Made, Hub!CallId
  <2> QED BY <1>1, <2>1, <2>2 DEF CallOf
<1>4. /\ e \in Hub!LogEntry /\ e.in = o.in /\ e.landed = o.landed /\ e.met
      /\ e.first = o.first /\ e.restored = o.restored /\ e.result = o.result /\ o.landed = 0
  BY <1>1, <1>2, <1>3 DEF Hub!LogEntry, Sent
<1>5. /\ log' = [log EXCEPT ![m.by[1]][m.by[2]] = e] /\ net' = net \ {m}
      /\ ans' = ans \cup {x} /\ UNCHANGED <<work, hub, last, gone>>
      /\ o.result = "pending" /\ m.by[2] = Len(log[m.by[1]])
  <2>1. log' = [log EXCEPT ![m.by[1]][m.by[2]].met = TRUE]
    BY DEF Hub!Redirect
  <2>2. log' = [log EXCEPT ![m.by[1]][m.by[2]] = e]
    BY <1>1, <1>2, <2>1 DEF CallOf
  <2> QED BY <1>1, <2>2 DEF Hub!Redirect, Hub!Waiting, Hub!Pending, CallOf
<1>6. x.by = m.by /\ x.q = m.q /\ x.status = "redirect" /\ x.value = <<>>
      /\ x \in [by : Hub!CallId, q : Hub!Query, value : Seq(Nat \ {0}),
                status : Hub!Status]
  BY <1>1, <1>3 DEF Hub!Status
<1>7. /\ hub' \in HubType /\ gone' \subseteq Canvas \X Hub!CallId /\ faults' \in 0 .. MaxFaults
      /\ last' # None => last' \in Hub!Query /\ Done(last', hub')
  BY ToolsAssumption, <1>5 DEF HubInv, Hub!TypeOK, HubType, Hub!Redirect, Hub!Fault, Hub!HubToolsAssumption
<1>8. Arrives(m, e, x)
  BY <1>1, <1>4, <1>5, <1>6, <1>7, Idles DEF Arrives
<1> QED
  BY <1>4, <1>8, KeepsArrival

LEMMA KeepsServe ==
    ASSUME HubInv, NEW m \in net, Hub!Serve(m)
    PROVE  HubInv'
<1>1. PICK out \in Hub!Outcomes(m) :
         /\ hub' = out.hub
         /\ net' = net \ {m}
         /\ ans' = IF Hub!Waiting(m.by)
                   THEN ans \cup {[by |-> m.by, q |-> m.q, status |-> out.status, value |-> out.value]}
                   ELSE ans
         /\ log' = [log EXCEPT ![m.by[1]][m.by[2]] = Hub!Noted(@, m.q, out)]
         /\ last' = IF out.status = "ok" THEN m.q ELSE IF out.hub = hub THEN last ELSE None
         /\ gone' = gone \cup UNION {{<<c, g.by>> : g \in hub.grants[c] \ out.hub.grants[c]} : c \in Canvas}
         /\ faults' = IF Hub!Broken(out) THEN faults + 1 ELSE faults
         /\ work' = work
  BY DEF Hub!Serve
<1>2. Sound(m, out) /\ (out.status = "failed" => faults < MaxFaults)
  BY OutcomesSound DEF HubInv
<1>3. PICK o, x : /\ o = CallOf(m.by)
                  /\ x = [by |-> m.by, q |-> m.q, status |-> out.status, value |-> out.value]
  OBVIOUS
<1>4. Sent(m) /\ m \in [by : Hub!CallId, q : Hub!Query] /\ o \in Hub!LogEntry
  <2>1. Sent(m) /\ m \in [by : Hub!CallId, q : Hub!Query] /\ log \in [Agent -> Seq(Hub!LogEntry)]
    BY DEF HubInv, Hub!TypeOK
  <2>2. m.by[1] \in Agent /\ m.by[2] \in DOMAIN log[m.by[1]] /\ log[m.by[1]] \in Seq(Hub!LogEntry)
    BY <2>1 DEF Sent, Made, Hub!CallId
  <2> QED BY <1>3, <2>1, <2>2 DEF CallOf
<1>5. PICK landed, met : /\ landed = IF out.status = "ok" /\ m.q.tool # "snaps" THEN 1 ELSE 0
                         /\ met = (o.met \/ out.status = "failed")
  OBVIOUS
<1>6. PICK e : e = [o EXCEPT !.landed = landed, !.met = met]
  OBVIOUS
<1>7. /\ e \in Hub!LogEntry /\ e.in = o.in /\ e.landed = landed /\ e.met = met
      /\ e.first = o.first /\ e.restored = o.restored /\ e.result = o.result /\ o.landed = 0
  BY <1>3, <1>4, <1>5, <1>6 DEF Hub!LogEntry, Sent
<1>8. log' = [log EXCEPT ![m.by[1]][m.by[2]] = e]
  <2>1. PICK d : d = [o EXCEPT !.landed = IF out.status = "ok" /\ m.q.tool # "snaps" THEN @ + 1 ELSE @,
                               !.met = @ \/ Hub!Broken(out)]
    OBVIOUS
  <2>2. log' = [log EXCEPT ![m.by[1]][m.by[2]] = d]
    BY <1>1, <1>3, <2>1 DEF CallOf, Hub!Noted
  <2>3. (IF out.status = "ok" /\ m.q.tool # "snaps" THEN o.landed + 1 ELSE o.landed) = landed
    BY <1>5, <1>7
  <2>4. (o.met \/ Hub!Broken(out)) = met
    BY <1>5 DEF Hub!Broken
  <2>5. d = e
    BY <1>6, <2>1, <2>3, <2>4
  <2> QED BY <2>2, <2>5
<1>9. ans' = ans \/ (o.result = "pending" /\ m.by[2] = Len(log[m.by[1]]) /\ ans' = ans \cup {x})
  BY <1>1, <1>3 DEF Hub!Waiting, Hub!Pending, CallOf
<1>10. /\ x.by = m.by /\ x.q = m.q /\ x.status = out.status /\ x.value = out.value
       /\ x \in [by : Hub!CallId, q : Hub!Query, value : Seq(Nat \ {0}),
                 status : Hub!Status]
  BY <1>2, <1>3, <1>4 DEF Sound
<1>11. \A c \in Canvas, by \in Hub!CallId : Opens(c, by) => Opens(c, by)'
  BY <1>1 DEF Opens
<1>12. hub' \in HubType /\ \A c \in Canvas : Len(hub.snaps[c]) <= Len(hub'.snaps[c])
  BY <1>1, <1>2 DEF Sound
<1>13. gone' \subseteq Canvas \X Hub!CallId
  <2>1. \A c \in Canvas : \A g \in hub.grants[c] : g.by \in Hub!CallId
    BY DEF HubInv, Hub!TypeOK, Hub!Grant
  <2>2. gone \subseteq Canvas \X Hub!CallId
    BY DEF HubInv, Hub!TypeOK
  <2> QED BY <1>1, <2>1, <2>2
<1>14. faults' \in 0 .. MaxFaults
  BY ToolsAssumption, <1>1, <1>2 DEF Hub!Broken, HubInv, Hub!TypeOK, Hub!HubToolsAssumption
<1>15. last' # None => last' \in Hub!Query /\ Done(last', hub')
  BY <1>1, <1>2, <1>4 DEF Sound, HubInv, Hub!TypeOK
<1>16. x.q.tool = "snaps" => e.landed = 0 /\ (x.status = "ok" /\ x.value # <<>> => Head(x.value) >= e.first)
  <2>1. ASSUME x.q.tool = "snaps" PROVE e.landed = 0
    BY <1>5, <1>7, <1>10, <2>1
  <2>2. ASSUME x.q.tool = "snaps", x.status = "ok", x.value # <<>> PROVE Head(x.value) >= e.first
    <3>1. x.q.id = o.in.id /\ o.in.id \in Canvas
      BY <1>3, <1>4, <1>10, RequestType DEF Sent, Requested, Hub!LogEntry
    <3>2. Len(hub.snaps[o.in.id]) >= o.first
      BY <1>3, <1>4, <3>1 DEF Sent, Made, CallOf, Hub!CallId, HubInv, True, Hub!TypeOK, Hub!LogEntry
    <3>3. Head(x.value) = Len(hub.snaps[o.in.id])
      BY <1>2, <1>10, <2>2, <3>1 DEF Sound
    <3> QED BY <1>7, <3>2, <3>3
  <2> QED BY <2>1, <2>2
<1>17. x.q.tool = "share_canvas" /\ x.q.kind = "link" /\ x.status = "ok" => Opens(x.q.id, x.by)'
  BY <1>1, <1>2, <1>10 DEF Sound, Opens
<1>18. /\ x.q.tool # "snaps" /\ x.status = "ok" => e.landed = 1
       /\ x.status # "ok" => e.landed = 0
       /\ x.status \in {"invalid", "failed", "redirect"} => e.met \/ Hub!Misnamed(e.in)
       /\ e.landed <= 1 /\ (o.met => e.met)
  <2>1. x.status \in {"invalid", "redirect"} => Hub!Misnamed(e.in)
    <3>1. o.in \in Hub!Input /\ ~Hub!Malformed(o.in) /\ Requested(m.q, o)
      BY <1>3, <1>4 DEF Sent, Hub!LogEntry
    <3>2. x.status \in {"invalid", "redirect"} => Hub!Misnamed(m.q)
      BY <1>2, <1>10 DEF Sound
    <3> QED BY <1>7, <3>1, <3>2, MisnamedAsAsked
  <2>2. x.status = "failed" => e.met
    BY <1>5, <1>7, <1>10
  <2>3. o.met => e.met
    BY <1>5, <1>7
  <2> QED BY <1>5, <1>7, <1>10, <2>1, <2>2, <2>3
<1>19. Arrives(m, e, x)
  BY <1>1, <1>3, <1>7, <1>8, <1>9, <1>10, <1>11, <1>12, <1>13, <1>14, <1>15, <1>16, <1>17, <1>18
     DEF Arrives
<1> QED
  BY <1>7, <1>19, KeepsArrival

LEMMA HubNext == HubInv /\ [Hub!Next]_(Hub!vars) => HubInv'
<1> SUFFICES ASSUME HubInv, [Hub!Next]_(Hub!vars) PROVE HubInv'
  OBVIOUS
<1>1. faults \in 0 .. MaxFaults
  BY DEF HubInv, Hub!TypeOK
<1>2. ASSUME NEW a \in Agent, Hub!CallTool(a) PROVE HubInv'
  BY <1>2, KeepsCallTool
<1>3. ASSUME NEW a \in Agent, Hub!Timeout(a) PROVE HubInv'
  BY <1>3, KeepsTimeout
<1>4. ASSUME NEW m \in net, Hub!Serve(m) PROVE HubInv'
  BY <1>4, KeepsServe
<1>5. ASSUME NEW m \in net, Hub!LoseRequest(m) PROVE HubInv'
  <2>1. net' \subseteq net /\ ans' \subseteq ans /\ UNCHANGED <<work, hub, log, last, gone>>
        /\ faults' \in 0 .. MaxFaults
    BY ToolsAssumption, <1>1, <1>5 DEF Hub!LoseRequest, Hub!Fault, Hub!HubToolsAssumption
  <2> QED BY <2>1, KeepsLoss
<1>6. ASSUME NEW m \in net, Hub!Redirect(m) PROVE HubInv'
  BY <1>6, KeepsRedirect
<1>7. ASSUME NEW x \in ans, Hub!Receive(x) PROVE HubInv'
  BY <1>7, KeepsReceive
<1>8. ASSUME NEW x \in ans, Hub!LoseAnswer(x) PROVE HubInv'
  <2>1. net' \subseteq net /\ ans' \subseteq ans /\ UNCHANGED <<work, hub, log, last, gone>>
        /\ faults' \in 0 .. MaxFaults
    BY ToolsAssumption, <1>1, <1>8 DEF Hub!LoseAnswer, Hub!Fault, Hub!HubToolsAssumption
  <2> QED BY <2>1, KeepsLoss
<1>9. ASSUME NEW x \in ans, Hub!Garble(x) PROVE HubInv'
  BY <1>9, KeepsGarble
<1>10. CASE UNCHANGED Hub!vars
  <2>1. net' \subseteq net /\ ans' \subseteq ans /\ UNCHANGED <<work, hub, log, last, gone>>
        /\ faults' \in 0 .. MaxFaults
    BY <1>1, <1>10 DEF Hub!vars
  <2> QED BY <2>1, KeepsLoss
<1> QED
  BY <1>2, <1>3, <1>4, <1>5, <1>6, <1>7, <1>8, <1>9, <1>10 DEF Hub!Next

LEMMA HubTruth == HubInv => Hub!TypeOK /\ Hub!AnswersAreTrue
<1> SUFFICES ASSUME HubInv, NEW a \in Agent, NEW n \in DOMAIN log[a]
             PROVE Hub!ToldTheTruth(log[a][n]) /\ Hub!RevertsLatest(log[a][n]) /\ Hub!SecretOpens(a, n)
  BY DEF HubInv, Hub!AnswersAreTrue
<1>1. True(a, n)
  BY DEF HubInv
<1> QED
  BY <1>1 DEF True, Hub!SecretOpens, Opens

Repeats ==
    \/ Hub!Again({"add", "write_file", "share_canvas"})
    \/ last.tool = "share_canvas" /\ last.kind = "link"

LEMMA HubRepeat == HubInv /\ Hub!Next => Repeats
<1> SUFFICES ASSUME HubInv, Hub!Next,
                    NEW m \in net, m \notin net', last = m.q,
                    m.q.tool \in {"add", "write_file", "share_canvas"},
                    ~(last.tool = "share_canvas" /\ last.kind = "link")
             PROVE  hub' = hub
  BY DEF Repeats, Hub!Again
<1>1. m.q \in Hub!Query /\ last # None /\ Done(m.q, hub)
  BY ToolsAssumption DEF HubInv, Hub!TypeOK, Hub!HubToolsAssumption
<1>2. ASSUME NEW k \in net, Hub!Serve(k) PROVE hub' = hub
  <2>1. PICK out \in Hub!Outcomes(k) : hub' = out.hub /\ net' = net \ {k}
    BY <1>2 DEF Hub!Serve
  <2>2. k = m
    BY <2>1
  <2>3. Sound(m, out)
    BY <2>2, OutcomesSound DEF HubInv
  <2> QED BY <1>1, <2>1, <2>3 DEF Sound
<1>3. ASSUME NEW a \in Agent, Hub!CallTool(a) \/ Hub!Timeout(a) PROVE hub' = hub
  BY <1>3 DEF Hub!CallTool, Hub!Timeout
<1>4. ASSUME NEW k \in net, Hub!LoseRequest(k) \/ Hub!Redirect(k) PROVE hub' = hub
  BY <1>4 DEF Hub!LoseRequest, Hub!Redirect
<1>5. ASSUME NEW x \in ans, Hub!Receive(x) \/ Hub!LoseAnswer(x) \/ Hub!Garble(x) PROVE hub' = hub
  BY <1>5 DEF Hub!Receive, Hub!LoseAnswer, Hub!Garble
<1> QED
  BY <1>2, <1>3, <1>4, <1>5 DEF Hub!Next

LEMMA HubInvariance == Hub!Spec => []HubInv
BY HubInit, HubNext, PTL DEF Hub!Spec

\* An agent is told of success or of a refusal only when the hub did it, once, or did
\* not, whatever the network loses, garbles or redirects (backend_hub.go: do, Revert,
\* ShareCanvas).
THEOREM Truth == Hub!Spec => []AnswersAreTrue
<1>1. HubInv => AnswersAreTrue
  BY HubTruth DEF AnswersAreTrue
<1> QED
  BY <1>1, HubInvariance, PTL

\* A request that repeats the last one the hub carried out changes nothing, for the
\* tools that say so of themselves, but for a link (mcpserver.go: toolAnnotations).
THEOREM RepeatsIdle == Hub!Spec => RepeatIsIdle
<1>1. HubInv /\ [Hub!Next]_(Hub!vars) => [Repeats]_(Hub!vars)
  BY HubRepeat
<1>2. Hub!RepeatIsIdle <=> [][Repeats]_(Hub!vars)
  BY DEF Hub!RepeatIsIdle, Repeats
<1> QED
  BY <1>1, <1>2, HubInvariance, PTL DEF Hub!Spec, RepeatIsIdle

-----------------------------------------------------------------------------
(* DaemonSpawn.                                                            *)

\* DaemonSpawn_proofs, of these commands and daemons.
Daemons == INSTANCE DaemonSpawn_proofs WITH Proc <- Cli, Faults <- SpawnFaults, pc <- cmd

LEMMA SpawnAssumptions == Daemons!DaemonSpawnAssumption /\ Daemons!NoLockAssumption
BY ToolsAssumption DEF Spawn!DaemonSpawnAssumption, Spawn!NoLockAssumption, Spawn!LockFile,
                       Daemons!DaemonSpawnAssumption, Daemons!NoLockAssumption, Daemons!LockFile

LEMMA SameSpawn ==
    /\ Spawn!Init = Daemons!Init /\ Spawn!vars = Daemons!vars /\ Spawn!Next = Daemons!Next
    /\ Spawn!TypeOK = Daemons!TypeOK /\ Spawn!LoneSpawner = Daemons!LoneSpawner
<1>1. Spawn!Init = Daemons!Init /\ Spawn!vars = Daemons!vars
  BY DEF Spawn!Init, Daemons!Init, Spawn!vars, Daemons!vars
<1>2. Spawn!Next = Daemons!Next
  BY Zenon DEF Spawn!Begin, Daemons!Begin, Spawn!Load, Daemons!Load, Spawn!Reuse, Daemons!Reuse,
               Spawn!Miss, Daemons!Miss, Spawn!RequestStop, Daemons!RequestStop,
               Spawn!finalizeStop, Daemons!finalizeStop, Spawn!TakeLock,
               Daemons!TakeLock, Spawn!WaitOut, Daemons!WaitOut,
               Spawn!GiveUp, Daemons!GiveUp, Spawn!WriteLock, Daemons!WriteLock, Spawn!JudgeStale,
               Daemons!JudgeStale, Spawn!Steal, Daemons!Steal, Spawn!Release,
               Daemons!Release, Spawn!Spawn, Daemons!Spawn, Spawn!Timeout,
               Daemons!Timeout, Spawn!Crash, Daemons!Crash, Spawn!LockAges,
               Daemons!LockAges, Spawn!Listen, Daemons!Listen, Spawn!Save,
               Daemons!Save, Spawn!Serve, Daemons!Serve, Spawn!IdleStop,
               Daemons!IdleStop, Spawn!Shutdown, Daemons!Shutdown, Spawn!RemoveState,
               Daemons!RemoveState, Spawn!Exit, Daemons!Exit, Spawn!DaemonCrash,
               Daemons!DaemonCrash, Spawn!Command, Daemons!Command, Spawn!Run,
               Daemons!Run, Spawn!Next, Daemons!Next, Spawn!Asking, Daemons!Asking,
               Spawn!Running, Daemons!Running, Spawn!pidAlive, Daemons!pidAlive,
               Spawn!Listening, Daemons!Listening, Spawn!Answers, Daemons!Answers,
               Spawn!Healthy, Daemons!Healthy, Spawn!Unhealthy, Daemons!Unhealthy,
               Spawn!versionSkewed, Daemons!versionSkewed, Spawn!isStaleLock,
               Daemons!isStaleLock, Spawn!Goto, Daemons!Goto, Spawn!Forget,
               Daemons!Forget, Spawn!DaemonGoto, Daemons!DaemonGoto, Spawn!fileVars,
               Daemons!fileVars, Spawn!daemonVars, Daemons!daemonVars, Spawn!cliVars,
               Daemons!cliVars
<1>3. Spawn!TypeOK = Daemons!TypeOK
  BY DEF Spawn!TypeOK, Daemons!TypeOK, Spawn!LockFile, Daemons!LockFile, Spawn!CliStep,
         Daemons!CliStep, Spawn!Asking, Daemons!Asking, Spawn!DaemonStep,
         Daemons!DaemonStep
<1>4. Spawn!LoneSpawner = Daemons!LoneSpawner
  BY DEF Spawn!LoneSpawner, Daemons!LoneSpawner, Spawn!OneSpawner, Daemons!OneSpawner,
         Spawn!NobodyDied, Daemons!NobodyDied, Spawn!Holding, Daemons!Holding
<1> QED
  BY <1>1, <1>2, <1>3, <1>4

LEMMA SpawnSpec == Spawn!Spec => Daemons!Spec
<1>1. Spawn!Init => Daemons!Init
  BY SameSpawn
<1>2. [Spawn!Next]_(Spawn!vars) => [Daemons!Next]_(Daemons!vars)
  BY SameSpawn DEF Spawn!vars, Daemons!vars
<1> QED
  BY <1>1, <1>2, PTL DEF Spawn!Spec, Daemons!Spec

\* withSpawnLock (lock.go): until a command has died, and unless the machine
\* sleeps, at most one command is between making the lock file and removing it.
THEOREM OneAtATime ==
    ASSUME "sleep" \notin SpawnFaults
    PROVE  Spawn!Spec => []LoneSpawner
<1>1. Daemons!Spec => []Daemons!LoneSpawner
  BY SpawnAssumptions, Daemons!LockExcludes
<1>2. Daemons!LoneSpawner => LoneSpawner
  BY SameSpawn DEF LoneSpawner
<1> QED
  BY <1>1, <1>2, SpawnSpec, PTL

-----------------------------------------------------------------------------
(* All three.                                                              *)

\* Commands and tools are well typed wherever they run: a call on the disk is at a
\* stage of its own operation, and a command that returns has a daemon.
THEOREM Types == Spec /\ Hub!Spec /\ Spawn!Spec => []TypesOK
<1>1. Daemons!Spec => []Daemons!TypeOK
  BY SpawnAssumptions, Daemons!Typed
<1>2. LocalInv /\ HubInv /\ Daemons!TypeOK => TypesOK
  BY SameSpawn DEF LocalInv, Invs, HubInv, TypesOK
<1> QED
  BY <1>1, <1>2, SpawnSpec, LocalInvariance, HubInvariance, PTL
=============================================================================
