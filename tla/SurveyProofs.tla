----------------------------- MODULE SurveyProofs -----------------------------
(***************************************************************************)
(* What the policies promise of every survey: for every target, budget,    *)
(* outcome of the probes and number of resumptions.                        *)
(***************************************************************************)
EXTENDS SurveyProps, FiniteSetTheorems, SequenceTheorems, WellFoundedInduction, TLAPS

-----------------------------------------------------------------------------
(* Numbers. *)

\* Induction on a set of numbers.
LEMMA NatSetInduction ==
  ASSUME NEW T, 0 \in T, \A n \in Nat : n \in T => n + 1 \in T
  PROVE  Nat \subseteq T
<1> SUFFICES ASSUME {k \in Nat : k \notin T} # {} PROVE FALSE
  OBVIOUS
<1> DEFINE S == {k \in Nat : k \notin T}
<1>1. PICK a \in S : \A b \in S : ~ (<<b, a>> \in OpToRel(<, Nat))
  <2>1. S \subseteq Nat /\ S # {}
    OBVIOUS
  <2> HIDE DEF S
  <2> QED
    BY <2>1, NatLessThanWellFounded, WFMin, Zenon
<1>2. a \in Nat /\ a \notin T /\ a # 0
  OBVIOUS
<1>3. a - 1 \in Nat /\ a - 1 < a /\ (a - 1) + 1 = a
  BY <1>2
<1>4. a - 1 \in S
  BY <1>2, <1>3
<1>5. ~(a - 1 < a)
  BY <1>1, <1>2, <1>3, <1>4, Zenon DEF OpToRel
<1> QED
  BY <1>3, <1>5

\* The places of a sequence.
LEMMA Places ==
  ASSUME NEW S, NEW s \in Seq(S)
  PROVE  /\ Len(s) \in Nat /\ DOMAIN s = 1..Len(s)
         /\ \A k \in 1..Len(s) : k \in Nat /\ k >= 1 /\ k - 1 \in 0..Len(s) /\ s[k] \in S
         /\ \A k \in 1..Len(s) : s # << >>
         /\ \A k \in 1..Len(s) : \A j \in 1..k : j \in 1..Len(s)
         /\ \A k \in 1..Len(s) : \A j \in 1..(k - 1) : j \in 1..Len(s)
<1>1. Len(s) \in Nat /\ DOMAIN s = 1..Len(s) /\ \A k \in 1..Len(s) : s[k] \in S
  OBVIOUS
<1>2. s = << >> => Len(s) = 0
  OBVIOUS
<1>3. \A k \in 1..Len(s) : Len(s) # 0
  BY <1>1
<1>4. \A k \in 1..Len(s) : k \in Nat /\ k >= 1 /\ k - 1 \in 0..Len(s)
  BY <1>1
<1>5. \A k \in 1..Len(s) : \A j \in 1..k : j \in 1..Len(s)
  BY <1>1
<1>6. \A k \in 1..Len(s) : \A j \in 1..(k - 1) : j \in 1..Len(s)
  BY <1>1
<1> QED
  BY <1>1, <1>2, <1>3, <1>4, <1>5, <1>6

\* A set of numbers that is not empty has a least one.
LEMMA LeastExists ==
  ASSUME NEW S, S \subseteq Nat, S # {}
  PROVE  \E m \in S : \A n \in S : m <= n
<1>1. PICK m \in S : \A n \in S : ~ (<<n, m>> \in OpToRel(<, Nat))
  BY NatLessThanWellFounded, WFMin, Zenon
<1>2. ASSUME NEW n \in S PROVE m <= n
  <2>1. m \in Nat /\ n \in Nat
    OBVIOUS
  <2>2. ~(n < m)
    BY <1>1, <2>1, Zenon DEF OpToRel
  <2> QED
    BY <2>1, <2>2
<1> QED
  BY <1>2

\* A set of positions that is not empty has a last one.
LEMMA GreatestExists ==
  ASSUME NEW n \in Nat, NEW S, S \subseteq 1..n, S # {}
  PROVE  \E m \in S : \A k \in S : k <= m
<1> DEFINE D == {n - k : k \in S}
<1>1. D \subseteq Nat /\ D # {}
  <2>1. ASSUME NEW k \in S PROVE n - k \in Nat
    OBVIOUS
  <2>2. PICK k \in S : TRUE
    OBVIOUS
  <2>3. n - k \in D
    BY <2>2
  <2> QED
    BY <2>1, <2>3
<1> HIDE DEF D
<1>2. PICK d \in D : \A e \in D : d <= e
  BY <1>1, LeastExists
<1>3. PICK m \in S : d = n - m
  BY DEF D
<1>4. ASSUME NEW k \in S PROVE k <= m
  <2>1. n - k \in D /\ k \in 1..n /\ m \in 1..n
    BY DEF D
  <2> QED
    BY <1>2, <1>3, <2>1
<1> QED
  BY <1>4

\* The least and the greatest, as the models choose them.
LEMMA MinIs ==
  ASSUME NEW S, S \subseteq Nat, S # {}
  PROVE  Min(S) \in S /\ \A k \in S : Min(S) <= k
  BY LeastExists, Zenon DEF Min

\* Likewise the greatest of a set of places.
LEMMA MaxIs ==
  ASSUME NEW n \in Nat, NEW S, S \subseteq 1..n, S # {}
  PROVE  Max(S) \in S /\ \A k \in S : k <= Max(S)
<1>1. PICK m \in S : \A k \in S : m >= k
  BY GreatestExists
<1>2. Max(S) \in S /\ \A k \in S : Max(S) >= k
  BY <1>1, Zenon DEF Max
<1> QED
  BY <1>2

-----------------------------------------------------------------------------
(* What DedupeAndCap returns. *)

\* One experiment is taken, or not.
Take(obs, most, out, e) ==
    IF Len(out) >= most \/ HasExperiment(obs, e) \/ Contains(out, e)
    THEN out ELSE Append(out, e)

\* f is the table of what is taken of some of the first n experiments.
Takes(f, obs, exps, most, n) ==
    f = [s \in SUBSET (1..n) |->
            IF s = {} THEN << >>
            ELSE Take(obs, most, f[s \ {Max(s)}], exps[Max(s)])]

\* There is one such table: it is built place by place.
LEMMA TakesExists ==
  ASSUME NEW obs, NEW exps, NEW most, NEW n \in Nat
  PROVE  \E f : Takes(f, obs, exps, most, n)
<1> DEFINE T == {k \in Nat : \E f : Takes(f, obs, exps, most, k)}
<1>1. 0 \in T
  <2> DEFINE f == [s \in SUBSET (1..0) |-> << >>]
  <2>1. \A s \in SUBSET (1..0) : s = {}
    OBVIOUS
  <2>2. Takes(f, obs, exps, most, 0)
    BY <2>1, Zenon DEF Takes
  <2> QED
    BY <2>2
<1>2. ASSUME NEW k \in Nat, k \in T PROVE k + 1 \in T
  <2>1. PICK f : Takes(f, obs, exps, most, k)
    BY <1>2
  <2> DEFINE g == [s \in SUBSET (1..(k + 1)) |->
                     IF k + 1 \in s THEN Take(obs, most, f[s \ {k + 1}], exps[k + 1])
                                    ELSE f[s]]
  <2>2. \A s \in SUBSET (1..k) : s \in SUBSET (1..(k + 1)) /\ k + 1 \notin s
    OBVIOUS
  <2>3. \A s \in SUBSET (1..k) : g[s] = f[s]
    BY <2>2
  <2>4. ASSUME NEW s \in SUBSET (1..(k + 1))
        PROVE  g[s] = IF s = {} THEN << >>
                      ELSE Take(obs, most, g[s \ {Max(s)}], exps[Max(s)])
    <3>1. CASE k + 1 \in s
      <4>1. Max(s) = k + 1
        <5>1. s # {} /\ k + 1 \in Nat /\ s \subseteq 1..(k + 1)
          BY <3>1
        <5>2. Max(s) \in s /\ \A j \in s : j <= Max(s)
          BY <5>1, MaxIs
        <5>3. Max(s) \in 1..(k + 1) /\ k + 1 <= Max(s)
          BY <3>1, <5>2
        <5> QED
          BY <5>3
      <4>2. s \ {k + 1} \in SUBSET (1..k)
        OBVIOUS
      <4>3. g[s \ {k + 1}] = f[s \ {k + 1}]
        BY <2>3, <4>2
      <4>4. g[s] = Take(obs, most, f[s \ {k + 1}], exps[k + 1])
        BY <3>1
      <4> HIDE DEF g
      <4> QED
        BY <3>1, <4>1, <4>3, <4>4
    <3>2. CASE k + 1 \notin s
      <4>1. s \in SUBSET (1..k)
        BY <3>2
      <4>2. s # {} => s \ {Max(s)} \in SUBSET (1..k)
        BY <4>1
      <4>3. f[s] = IF s = {} THEN << >>
                   ELSE Take(obs, most, f[s \ {Max(s)}], exps[Max(s)])
        BY <2>1, <4>1, Zenon DEF Takes
      <4>4. g[s] = f[s] /\ (s # {} => g[s \ {Max(s)}] = f[s \ {Max(s)}])
        BY <2>3, <4>1, <4>2
      <4> HIDE DEF g
      <4> QED
        BY <4>3, <4>4
    <3> QED
      BY <3>1, <3>2
  <2>5. g = [s \in SUBSET (1..(k + 1)) |-> g[s]]
    OBVIOUS
  <2> HIDE DEF g
  <2>6. Takes(g, obs, exps, most, k + 1)
    BY <2>4, <2>5, Zenon DEF Takes
  <2> QED
    BY <2>6
<1> HIDE DEF T
<1>3. Nat \subseteq T
  BY <1>1, <1>2, NatSetInduction
<1> QED
  BY <1>3 DEF T

\* DedupeAndCap is what such a table gives for all of them.
LEMMA DedupeTakes ==
  ASSUME NEW obs, NEW exps, NEW most, NEW n \in Nat, DOMAIN exps = 1..n
  PROVE  \E f : Takes(f, obs, exps, most, n) /\ DedupeAndCap(obs, exps, most) = f[1..n]
<1> DEFINE f == CHOOSE f : f = [s \in SUBSET (1..n) |->
            IF s = {} THEN << >>
            ELSE Take(obs, most, f[s \ {Max(s)}], exps[Max(s)])]
<1>1. Takes(f, obs, exps, most, n)
  <2>1. \E h : Takes(h, obs, exps, most, n)
    BY TakesExists
  <2>2. \E h : h = [s \in SUBSET (1..n) |->
            IF s = {} THEN << >>
            ELSE Take(obs, most, h[s \ {Max(s)}], exps[Max(s)])]
    BY <2>1, Zenon DEF Takes
  <2>3. f = [s \in SUBSET (1..n) |->
            IF s = {} THEN << >>
            ELSE Take(obs, most, f[s \ {Max(s)}], exps[Max(s)])]
    BY <2>2, Zenon
  <2> QED
    BY <2>3, Zenon DEF Takes
<1>2. DedupeAndCap(obs, exps, most) = f[1..n]
  BY Zenon DEF DedupeAndCap, FoldLeft, MapThenFoldSet, Take
<1> QED
  BY <1>1, <1>2

\* The experiment is recorded, or among the first p of out.
Known(obs, out, p, e) == HasExperiment(obs, e) \/ \E q \in 1..p : out[q] = e

\* out is what is taken of the first k experiments: each one in its turn,
\* after all that come before it, unless most are taken.
Selects(out, obs, exps, most, k) ==
    /\ out \in Seq({exps[i] : i \in 1..k})
    /\ Len(out) <= most
    /\ IsInjective(out)
    /\ \A p \in 1..Len(out) : ~HasExperiment(obs, out[p])
    /\ \A p \in 1..Len(out) : \E i \in 1..k :
          out[p] = exps[i] /\ \A j \in 1..(i - 1) : Known(obs, out, p - 1, exps[j])
    /\ Len(out) < most => \A j \in 1..k : Known(obs, out, Len(out), exps[j])

\* Taking one more experiment.
LEMMA TakeSelects ==
  ASSUME NEW obs, NEW exps, NEW most \in Nat, NEW k \in Nat, NEW out,
         Selects(out, obs, exps, most, k)
  PROVE  Selects(Take(obs, most, out, exps[k + 1]), obs, exps, most, k + 1)
<1> DEFINE S == {exps[i] : i \in 1..k}
           R == {exps[i] : i \in 1..(k + 1)}
           e == exps[k + 1]
           n == Len(out)
<1>1. out \in Seq(S) /\ n \in Nat /\ n <= most /\ IsInjective(out) /\ DOMAIN out = 1..n
  <2>1. out \in Seq(S) /\ n <= most /\ IsInjective(out)
    BY DEF Selects
  <2> HIDE DEF S
  <2> QED
    BY <2>1
<1>2. S \subseteq R /\ e \in R
  OBVIOUS
<1>3. out \in Seq(R)
  <2> HIDE DEF S, R
  <2> QED
    BY <1>1, <1>2
<1>4. \A p \in 1..n : ~HasExperiment(obs, out[p])
  BY DEF Selects
<1>5. \A p \in 1..n : \E i \in 1..k :
          out[p] = exps[i] /\ \A j \in 1..(i - 1) : Known(obs, out, p - 1, exps[j])
  BY DEF Selects
<1>6. n < most => \A j \in 1..k : Known(obs, out, n, exps[j])
  BY DEF Selects
<1>7. CASE n >= most \/ HasExperiment(obs, e) \/ Contains(out, e)
  <2>1. Take(obs, most, out, e) = out
    BY <1>7 DEF Take
  <2>2. \A p \in 1..n : \E i \in 1..(k + 1) :
          out[p] = exps[i] /\ \A j \in 1..(i - 1) : Known(obs, out, p - 1, exps[j])
    <3>1. 1..k \subseteq 1..(k + 1)
      OBVIOUS
    <3> QED
      BY <1>5, <3>1
  <2>3. n < most => \A j \in 1..(k + 1) : Known(obs, out, n, exps[j])
    <3>1. n < most => Known(obs, out, n, e)
      BY <1>1, <1>7 DEF Contains, Known
    <3>2. \A j \in 1..(k + 1) : j \in 1..k \/ j = k + 1
      OBVIOUS
    <3> QED
      BY <1>6, <3>1, <3>2
  <2> QED
    BY <1>1, <1>3, <1>4, <2>1, <2>2, <2>3 DEF Selects
<1>8. CASE ~(n >= most \/ HasExperiment(obs, e) \/ Contains(out, e))
  <2> DEFINE t == Append(out, e)
  <2>1. Take(obs, most, out, e) = t
    BY <1>8 DEF Take
  <2>2. /\ t \in Seq(R) /\ Len(t) = n + 1 /\ DOMAIN t = 1..(n + 1)
        /\ \A p \in 1..n : t[p] = out[p]
        /\ t[n + 1] = e
    <3> HIDE DEF R
    <3> QED
      BY <1>2, <1>3
  <2>3. n < most /\ ~HasExperiment(obs, e) /\ \A p \in 1..n : out[p] # e
    BY <1>1, <1>8 DEF Contains
  <2>4. \A p \in 1..(n + 1) : p \in 1..n \/ p = n + 1
    BY <1>1
  <2> HIDE DEF t, R
  <2>5. IsInjective(t)
    <3>1. SUFFICES ASSUME NEW a \in 1..(n + 1), NEW b \in 1..(n + 1), t[a] = t[b] PROVE a = b
      BY <2>2 DEF IsInjective
    <3>2. a \in 1..n /\ b \in 1..n => out[a] = out[b]
      BY <2>2, <3>1
    <3> QED
      BY <1>1, <2>2, <2>3, <2>4, <3>1, <3>2 DEF IsInjective
  <2>6. \A p \in 1..(n + 1) : ~HasExperiment(obs, t[p])
    BY <1>4, <2>2, <2>3, <2>4
  <2>7. ASSUME NEW p \in 1..n, NEW x PROVE Known(obs, out, p, x) <=> Known(obs, t, p, x)
    <3>1. \A q \in 1..p : q \in 1..n
      BY <1>1
    <3> QED
      BY <2>2, <3>1 DEF Known
  <2>8. ASSUME NEW x PROVE Known(obs, out, 0, x) <=> Known(obs, t, 0, x)
    BY DEF Known
  <2>9. ASSUME NEW p \in 1..(n + 1)
        PROVE  \E i \in 1..(k + 1) :
                  t[p] = exps[i] /\ \A j \in 1..(i - 1) : Known(obs, t, p - 1, exps[j])
    <3>1. CASE p = n + 1
      <4>1. \A j \in 1..k : Known(obs, t, n, exps[j])
        <5>1. n = 0 \/ n \in 1..n
          BY <1>1
        <5> QED
          BY <1>6, <2>3, <2>7, <2>8, <5>1
      <4>2. p - 1 = n /\ (k + 1) - 1 = k /\ k + 1 \in 1..(k + 1)
        BY <1>1, <3>1
      <4> QED
        BY <2>2, <3>1, <4>1, <4>2
    <3>2. CASE p # n + 1
      <4>1. p \in 1..n /\ (p - 1 = 0 \/ p - 1 \in 1..n)
        BY <1>1, <3>2
      <4>2. PICK i \in 1..k :
              out[p] = exps[i] /\ \A j \in 1..(i - 1) : Known(obs, out, p - 1, exps[j])
        BY <1>5, <4>1
      <4>3. \A j \in 1..(i - 1) : Known(obs, t, p - 1, exps[j])
        BY <2>7, <2>8, <4>1, <4>2
      <4>4. i \in 1..(k + 1)
        OBVIOUS
      <4> QED
        BY <2>2, <4>1, <4>2, <4>3, <4>4
    <3> QED
      BY <3>1, <3>2
  <2>10. \A j \in 1..(k + 1) : Known(obs, t, n + 1, exps[j])
    <3>1. \A j \in 1..k : Known(obs, t, n + 1, exps[j])
      <4>1. \A q \in 1..n : q \in 1..(n + 1)
        BY <1>1
      <4> QED
        BY <1>6, <2>2, <2>3, <4>1 DEF Known
    <3>2. Known(obs, t, n + 1, e)
      <4>1. n + 1 \in 1..(n + 1)
        BY <1>1
      <4> QED
        BY <2>2, <4>1 DEF Known
    <3>3. \A j \in 1..(k + 1) : j \in 1..k \/ j = k + 1
      OBVIOUS
    <3> QED
      BY <3>1, <3>2, <3>3
  <2>11. n + 1 <= most
    BY <1>1, <2>3
  <2> QED
    BY <2>1, <2>2, <2>5, <2>6, <2>9, <2>10, <2>11 DEF Selects, R
<1> QED
  BY <1>7, <1>8

\* What a policy's plan becomes.
LEMMA DedupeSelects ==
  ASSUME NEW obs, NEW exps, NEW most \in Nat, NEW n \in Nat, DOMAIN exps = 1..n
  PROVE  Selects(DedupeAndCap(obs, exps, most), obs, exps, most, n)
<1>1. PICK f : Takes(f, obs, exps, most, n) /\ DedupeAndCap(obs, exps, most) = f[1..n]
  BY DedupeTakes
<1> DEFINE T == {k \in Nat : k <= n => Selects(f[1..k], obs, exps, most, k)}
<1>2. 0 \in T
  <2>1. f[1..0] = << >>
    <3>1. 1..0 = {} /\ 1..0 \in SUBSET (1..n)
      OBVIOUS
    <3>2. f[1..0] = IF 1..0 = {} THEN << >>
                    ELSE Take(obs, most, f[(1..0) \ {Max(1..0)}], exps[Max(1..0)])
      BY <1>1, <3>1, Zenon DEF Takes
    <3> QED
      BY <3>1, <3>2
  <2>2. << >> \in Seq({exps[i] : i \in 1..0})
    <3> DEFINE S == {exps[i] : i \in 1..0}
    <3> HIDE DEF S
    <3>1. << >> \in Seq(S)
      OBVIOUS
    <3> QED
      BY <3>1 DEF S
  <2>3. Len(<< >>) = 0 /\ 1..0 = {} /\ 0 <= most /\ IsInjective(<< >>)
    BY DEF IsInjective
  <2>4. Selects(<< >>, obs, exps, most, 0)
    BY <2>2, <2>3 DEF Selects
  <2> QED
    BY <2>1, <2>4
<1>3. ASSUME NEW k \in Nat, k \in T PROVE k + 1 \in T
  <2> SUFFICES ASSUME k + 1 <= n PROVE Selects(f[1..(k + 1)], obs, exps, most, k + 1)
    OBVIOUS
  <2>1. /\ 1..(k + 1) \in SUBSET (1..n) /\ 1..(k + 1) # {}
        /\ 1..(k + 1) \subseteq 1..(k + 1) /\ k + 1 \in Nat /\ k <= n
    <3>1. \A j \in 1..(k + 1) : j \in 1..n
      OBVIOUS
    <3>2. 1 \in 1..(k + 1) /\ k + 1 \in Nat /\ k <= n
      OBVIOUS
    <3> QED
      BY <3>1, <3>2
  <2>2. Max(1..(k + 1)) \in 1..(k + 1) /\ \A j \in 1..(k + 1) : j <= Max(1..(k + 1))
    BY <2>1, MaxIs
  <2>3. Max(1..(k + 1)) = k + 1
    BY <2>2
  <2>4. (1..(k + 1)) \ {k + 1} = 1..k
    OBVIOUS
  <2>5. f[1..(k + 1)] = Take(obs, most, f[1..k], exps[k + 1])
    <3>1. f[1..(k + 1)] =
             IF 1..(k + 1) = {} THEN << >>
             ELSE Take(obs, most, f[(1..(k + 1)) \ {Max(1..(k + 1))}], exps[Max(1..(k + 1))])
      BY <1>1, <2>1, Zenon DEF Takes
    <3> QED
      BY <2>1, <2>3, <2>4, <3>1
  <2>6. Selects(f[1..k], obs, exps, most, k)
    BY <1>3, <2>1
  <2> QED
    BY <2>5, <2>6, TakeSelects
<1> HIDE DEF T
<1>4. Nat \subseteq T
  BY <1>2, <1>3, NatSetInduction
<1>5. Selects(f[1..n], obs, exps, most, n)
  BY <1>4 DEF T
<1> QED
  BY <1>1, <1>5

-----------------------------------------------------------------------------
(* Experiments, and what is recorded of them. *)

\* The families that are dialled.
Dialled == {"ipv4", "ipv6"}

\* An experiment, field by field.
Exp(layer, target, family, transport, resolver, alpn, sni, payload) ==
    [layer |-> layer, target |-> target, family |-> family, transport |-> transport,
     resolver |-> resolver, alpn |-> alpn, sni |-> sni, payload |-> payload]

\* What the constructors make.
LEMMA Constructors ==
  ASSUME NEW t, NEW f \in Dialled, NEW alpn, NEW sni
  PROVE  /\ NewTCP(t, f) = Exp("tcp", t, f, "tcp", "", "", "", 0)
         /\ NewTLS(t, f, alpn, sni) = Exp("tls", t, f, "tcp", "", alpn, sni, 0)
         /\ NewHTTP(t, f, alpn) = Exp("http", t, f, "tcp", "", alpn, "", 0)
         /\ NewUDP(t, f, 0) = Exp("udp", t, f, "udp", "", "", "", 16)
         /\ NewQUIC(t, f, sni) = Exp("quic", t, f, "quic", "", "h3", sni, 0)
<1> USE DEF Normalize, Draft, Exp, DefaultTransport, Layers, Dialled
<1>1. NewTCP(t, f) = Exp("tcp", t, f, "tcp", "", "", "", 0)
  BY DEF NewTCP
<1>2. NewTLS(t, f, alpn, sni) = Exp("tls", t, f, "tcp", "", alpn, sni, 0)
  BY DEF NewTLS
<1>3. NewHTTP(t, f, alpn) = Exp("http", t, f, "tcp", "", alpn, "", 0)
  BY DEF NewHTTP
<1>4. NewUDP(t, f, 0) = Exp("udp", t, f, "udp", "", "", "", 16)
  BY DEF NewUDP
<1>5. NewQUIC(t, f, sni) = Exp("quic", t, f, "quic", "", "h3", sni, 0)
  BY DEF NewQUIC
<1> QED
  BY <1>1, <1>2, <1>3, <1>4, <1>5

\* ... and that of DNS, which has no family.
LEMMA DNSConstructor ==
  ASSUME NEW t, NEW r \in {"system", "public"}
  PROVE  NewDNS(t, r) = Exp("dns", t, "any", "udp", r, "", "", 0)
  BY DEF NewDNS, Normalize, Draft, Exp, DefaultTransport, Layers

\* An experiment of fields of the right types.
LEMMA ExpType ==
  ASSUME NEW layer \in Layers, NEW t \in Targets, NEW f \in Families,
         NEW tr \in Transports, NEW r \in Resolvers, NEW a \in ALPNs, NEW sni \in SNIs,
         NEW p \in Payloads
  PROVE  Exp(layer, t, f, tr, r, a, sni, p) \in Experiment
  BY DEF Exp, Experiment

\* The values the constructors put in.
LEMMA Values ==
  /\ Dialled \subseteq Families /\ "any" \in Families
  /\ Layers = {"dns", "tcp", "tls", "http", "udp", "quic"}
  /\ {"tcp", "udp", "quic"} \subseteq Transports
  /\ {"", "system", "public"} \subseteq Resolvers
  /\ {"", "h3", "http/1.1"} \subseteq ALPNs
  /\ {"", "none", "www.example.com"} \subseteq SNIs
  /\ 0 \in Payloads /\ 16 \in Payloads
<1>1. Dialled \subseteq Families /\ "any" \in Families
  BY DEF Dialled, Families
<1>2. 0 \in Payloads /\ 16 \in Payloads
  BY DEF Payloads
<1> QED
  BY <1>1, <1>2, Zenon DEF Layers, Transports, Resolvers, ALPNs, SNIs

\* The experiments of a family are experiments.
LEMMA ConstructorTypes ==
  ASSUME NEW t \in Targets, NEW f \in Dialled, NEW a \in ALPNs, NEW sni \in SNIs
  PROVE  /\ NewTCP(t, f) \in Experiment
         /\ NewTLS(t, f, a, sni) \in Experiment
         /\ NewHTTP(t, f, a) \in Experiment
         /\ NewUDP(t, f, 0) \in Experiment
         /\ NewQUIC(t, f, sni) \in Experiment
<1>1. /\ f \in Families /\ 0 \in Payloads /\ 16 \in Payloads
      /\ "" \in Resolvers /\ "" \in ALPNs /\ "h3" \in ALPNs /\ "" \in SNIs
      /\ "tcp" \in Transports /\ "udp" \in Transports /\ "quic" \in Transports
      /\ "tcp" \in Layers /\ "tls" \in Layers /\ "http" \in Layers
      /\ "udp" \in Layers /\ "quic" \in Layers
  BY Values, Zenon
<1>2. NewTCP(t, f) \in Experiment
  <2>1. Exp("tcp", t, f, "tcp", "", "", "", 0) \in Experiment
    BY <1>1, ExpType
  <2> QED
    BY <2>1, Constructors, Zenon
<1>3. NewTLS(t, f, a, sni) \in Experiment
  <2>1. Exp("tls", t, f, "tcp", "", a, sni, 0) \in Experiment
    BY <1>1, ExpType
  <2> QED
    BY <2>1, Constructors, Zenon
<1>4. NewHTTP(t, f, a) \in Experiment
  <2>1. Exp("http", t, f, "tcp", "", a, "", 0) \in Experiment
    BY <1>1, ExpType
  <2> QED
    BY <2>1, Constructors, Zenon
<1>5. NewUDP(t, f, 0) \in Experiment
  <2>1. Exp("udp", t, f, "udp", "", "", "", 16) \in Experiment
    BY <1>1, ExpType
  <2> QED
    BY <2>1, Constructors, Zenon
<1>6. NewQUIC(t, f, sni) \in Experiment
  <2>1. Exp("quic", t, f, "quic", "", "h3", sni, 0) \in Experiment
    BY <1>1, ExpType
  <2> QED
    BY <2>1, Constructors, Zenon
<1> QED
  BY <1>2, <1>3, <1>4, <1>5, <1>6

\* A DNS experiment is one.
LEMMA DNSType ==
  ASSUME NEW t \in Targets, NEW r \in {"system", "public"}
  PROVE  NewDNS(t, r) \in Experiment
<1>1. /\ "any" \in Families /\ "dns" \in Layers /\ "udp" \in Transports
      /\ r \in Resolvers /\ "" \in ALPNs /\ "" \in SNIs /\ 0 \in Payloads
  BY Values, Zenon
<1>2. NewDNS(t, r) = Exp("dns", t, "any", "udp", r, "", "", 0)
  BY DNSConstructor
<1> QED
  BY <1>1, <1>2, ExpType, Zenon

\* What is recorded has a status, and Nothing has none.
LEMMA SeenRecorded ==
  ASSUME NEW o \in Observation
  PROVE  Seen(o) /\ o.exp \in Experiment /\ o.exp.layer \in Layers /\ o.exp.family \in Families
<1>1. o.status \in Statuses /\ o.exp \in Experiment
  BY DEF Observation
<1>2. Seen(o)
  BY <1>1 DEF Seen, Statuses
<1>3. o.exp.layer \in Layers
  BY <1>1 DEF Experiment
<1>4. o.exp.family \in Families
  BY <1>1 DEF Experiment
<1> QED
  BY <1>1, <1>2, <1>3, <1>4

\* What was not observed was neither seen nor passed.
LEMMA NothingUnseen == ~Seen(Nothing) /\ ~Passed(Nothing)
  BY DEF Seen, Passed, Nothing

\* The latest observation of a layer is one of that layer, or Nothing.
LEMMA LatestIs ==
  ASSUME NEW obs \in Seq(Observation), NEW l, NEW f
  PROVE  /\ Of(obs, l, f) = {} => Latest(obs, l, f) = Nothing
         /\ Of(obs, l, f) # {} => \E i \in Of(obs, l, f) :
               Latest(obs, l, f) = obs[i] /\ \A j \in Of(obs, l, f) : j <= i
<1> DEFINE is == Of(obs, l, f)
<1>1. is \subseteq 1..Len(obs) /\ Len(obs) \in Nat
  <2>1. DOMAIN obs = 1..Len(obs) /\ Len(obs) \in Nat
    OBVIOUS
  <2>2. is \subseteq DOMAIN obs
    BY Zenon DEF Of
  <2> QED
    BY <2>1, <2>2
<1>2. Latest(obs, l, f) = LastOf(obs, is)
  BY DEF Latest
<1> HIDE DEF is
<1>3. is = {} => LastOf(obs, is) = Nothing
  BY DEF LastOf
<1>4. ASSUME is # {}
      PROVE  \E i \in is : LastOf(obs, is) = obs[i] /\ \A j \in is : j <= i
  <2>1. \E i \in is : \A j \in is : j <= i
    BY <1>1, <1>4, GreatestExists
  <2> QED
    BY <1>4, <2>1, Zenon DEF LastOf
<1> QED
  BY <1>2, <1>3, <1>4 DEF is

\* The i-th observation is of the layer and, where one is asked for, of the
\* family.
At(obs, i, l, f) ==
    /\ obs[i] \in Observation
    /\ obs[i].exp.layer = l
    /\ f = "" \/ obs[i].exp.family = f

\* It is seen exactly when there is one.
LEMMA LatestSeen ==
  ASSUME NEW obs \in Seq(Observation), NEW l, NEW f
  PROVE  /\ Seen(Latest(obs, l, f)) <=> Of(obs, l, f) # {}
         /\ Seen(Latest(obs, l, f)) =>
               \E i \in 1..Len(obs) : Latest(obs, l, f) = obs[i] /\ At(obs, i, l, f)
<1>1. \A i \in Of(obs, l, f) : i \in 1..Len(obs) /\ obs[i] \in Observation /\ At(obs, i, l, f)
  <2>1. \A i \in Of(obs, l, f) : /\ i \in DOMAIN obs /\ obs[i].exp.layer = l
                                 /\ f = "" \/ obs[i].exp.family = f
    BY Zenon DEF Of
  <2>2. \A i \in DOMAIN obs : i \in 1..Len(obs) /\ obs[i] \in Observation
    OBVIOUS
  <2> QED
    BY <2>1, <2>2 DEF At
<1>2. CASE Of(obs, l, f) = {}
  BY <1>2, LatestIs, NothingUnseen
<1>3. CASE Of(obs, l, f) # {}
  <2>1. PICK i \in Of(obs, l, f) : Latest(obs, l, f) = obs[i]
    BY <1>3, LatestIs
  <2> QED
    BY <1>1, <1>3, <2>1, SeenRecorded
<1> QED
  BY <1>2, <1>3

\* An experiment of a layer that is not seen is not recorded.
LEMMA UnseenIsNew ==
  ASSUME NEW obs \in Seq(Observation), NEW e, NEW f, f = "" \/ f = e.family,
         ~Seen(Latest(obs, e.layer, f))
  PROVE  ~HasExperiment(obs, e)
<1>1. Of(obs, e.layer, f) = {}
  BY LatestSeen
<1> QED
  BY <1>1 DEF Of, HasExperiment

\* Two sequences of one.
LEMMA PairOf ==
  ASSUME NEW a, NEW b
  PROVE  <<a>> \o <<b>> = <<a, b>>
<1> DEFINE S == {a, b}
<1>1. a \in S /\ b \in S
  OBVIOUS
<1> HIDE DEF S
<1>2. <<a>> \in Seq(S) /\ <<b>> \in Seq(S) /\ <<a, b>> \in Seq(S)
  BY <1>1
<1>3. /\ <<a>> \o <<b>> \in Seq(S)
      /\ Len(<<a>> \o <<b>>) = Len(<<a>>) + Len(<<b>>)
      /\ \A i \in 1..(Len(<<a>>) + Len(<<b>>)) : (<<a>> \o <<b>>)[i] =
            IF i <= Len(<<a>>) THEN <<a>>[i] ELSE <<b>>[i - Len(<<a>>)]
  BY <1>2, ConcatProperties
<1>4. Len(<<a>>) = 1 /\ Len(<<b>>) = 1 /\ Len(<<a, b>>) = 2
  OBVIOUS
<1>5. (<<a>> \o <<b>>)[1] = a /\ (<<a>> \o <<b>>)[2] = b /\ Len(<<a>> \o <<b>>) = 2
  BY <1>3, <1>4
<1>6. \A i \in 1..2 : (<<a>> \o <<b>>)[i] = <<a, b>>[i]
  <2>1. \A i \in 1..2 : i = 1 \/ i = 2
    OBVIOUS
  <2> QED
    BY <1>5, <2>1
<1> QED
  BY <1>2, <1>3, <1>4, <1>5, <1>6, SeqEqual

\* The families to dial are some of the two, each once.
LEMMA FamiliesAre ==
  ASSUME NEW r
  PROVE  /\ OrderedFamilies(r) \in Seq(Dialled)
         /\ Len(OrderedFamilies(r)) <= 2
         /\ IsInjective(OrderedFamilies(r))
<1> DEFINE g == IF PreferIPv6 THEN "ipv6" ELSE "ipv4"
           h == OtherFamily(g)
<1>1. g \in Dialled /\ h \in Dialled /\ g # h
  BY DEF Dialled, OtherFamily
<1>2. OrderedFamilies(r) = One(g \in r, g) \o One(h \in r, h)
  BY DEF OrderedFamilies
<1> HIDE DEF g, h
<1>3. \/ OrderedFamilies(r) = << >> \o << >>
      \/ OrderedFamilies(r) = <<g>> \o << >>
      \/ OrderedFamilies(r) = << >> \o <<h>>
      \/ OrderedFamilies(r) = <<g>> \o <<h>>
  BY <1>2 DEF One
<1>4. \/ OrderedFamilies(r) = << >>
      \/ OrderedFamilies(r) = <<g>>
      \/ OrderedFamilies(r) = <<h>>
      \/ OrderedFamilies(r) = <<g, h>>
  <2>1. << >> \o << >> = << >>
    OBVIOUS
  <2>2. <<g>> \o << >> = <<g>>
    OBVIOUS
  <2>3. << >> \o <<h>> = <<h>>
    OBVIOUS
  <2>4. <<g>> \o <<h>> = <<g, h>>
    BY PairOf
  <2> QED
    BY <1>3, <2>1, <2>2, <2>3, <2>4
<1>5. CASE OrderedFamilies(r) = << >>
  BY <1>5 DEF IsInjective
<1>6. CASE OrderedFamilies(r) = <<g>>
  BY <1>1, <1>6 DEF IsInjective
<1>7. CASE OrderedFamilies(r) = <<h>>
  BY <1>1, <1>7 DEF IsInjective
<1>8. CASE OrderedFamilies(r) = <<g, h>>
  BY <1>1, <1>8 DEF IsInjective
<1> QED
  BY <1>4, <1>5, <1>6, <1>7, <1>8

-----------------------------------------------------------------------------
(* What the fast policy plans. *)

\* The experiments that are not recorded.
Fresh(obs) == {e \in Experiment : ~HasExperiment(obs, e)}

\* The fields of what the constructors make.
LEMMA ConstructorFields ==
  ASSUME NEW t, NEW f \in Dialled, NEW a, NEW sni
  PROVE  /\ NewTCP(t, f).layer = "tcp" /\ NewTCP(t, f).family = f /\ NewTCP(t, f).target = t
         /\ NewTLS(t, f, a, sni).layer = "tls" /\ NewTLS(t, f, a, sni).family = f
         /\ NewTLS(t, f, a, sni).target = t
         /\ NewHTTP(t, f, a).layer = "http" /\ NewHTTP(t, f, a).family = f
         /\ NewHTTP(t, f, a).target = t
         /\ NewQUIC(t, f, sni).layer = "quic" /\ NewQUIC(t, f, sni).family = f
         /\ NewQUIC(t, f, sni).target = t
  BY DEF NewTCP, NewTLS, NewHTTP, NewQUIC, Normalize, Draft, Dialled

\* ... and of a DNS experiment.
LEMMA DNSFields ==
  ASSUME NEW t, NEW r \in {"system", "public"}
  PROVE  /\ NewDNS(t, r).layer = "dns" /\ NewDNS(t, r).resolver = r
         /\ NewDNS(t, r).family = "any" /\ NewDNS(t, r).target = t
  BY DEF NewDNS, Normalize, Draft

\* What is not seen on a family of its layer is fresh.
LEMMA UnseenIsFresh ==
  ASSUME NEW obs \in Seq(Observation), NEW f \in Dialled
  PROVE  /\ ~Seen(Latest(obs, "tcp", f)) => NewTCP(Target, f) \in Fresh(obs)
         /\ ~Seen(Latest(obs, "tls", f)) => NewTLS(Target, f, "", "") \in Fresh(obs)
         /\ ~Seen(Latest(obs, "http", f)) => NewHTTP(Target, f, "") \in Fresh(obs)
         /\ ~Seen(Latest(obs, "quic", f)) => NewQUIC(Target, f, "") \in Fresh(obs)
<1>1. /\ NewTCP(Target, f) \in Experiment /\ NewTLS(Target, f, "", "") \in Experiment
      /\ NewHTTP(Target, f, "") \in Experiment /\ NewQUIC(Target, f, "") \in Experiment
  <2>1. Target \in Targets /\ "" \in ALPNs /\ "" \in SNIs
    BY Values, Zenon DEF Targets
  <2> QED
    BY <2>1, ConstructorTypes, Zenon
<1>2. ASSUME ~Seen(Latest(obs, "tcp", f)) PROVE ~HasExperiment(obs, NewTCP(Target, f))
  <2>1. NewTCP(Target, f).layer = "tcp" /\ NewTCP(Target, f).family = f
    BY ConstructorFields
  <2>2. ~Seen(Latest(obs, NewTCP(Target, f).layer, NewTCP(Target, f).family))
    BY <1>2, <2>1, Zenon
  <2> QED
    BY <2>2, UnseenIsNew
<1>3. ASSUME ~Seen(Latest(obs, "tls", f)) PROVE ~HasExperiment(obs, NewTLS(Target, f, "", ""))
  <2>1. NewTLS(Target, f, "", "").layer = "tls" /\ NewTLS(Target, f, "", "").family = f
    BY DEF NewTLS, Normalize, Draft, Dialled
  <2>2. ~Seen(Latest(obs, NewTLS(Target, f, "", "").layer, NewTLS(Target, f, "", "").family))
    BY <1>3, <2>1, Zenon
  <2> QED
    BY <2>2, UnseenIsNew
<1>4. ASSUME ~Seen(Latest(obs, "http", f)) PROVE ~HasExperiment(obs, NewHTTP(Target, f, ""))
  <2>1. NewHTTP(Target, f, "").layer = "http" /\ NewHTTP(Target, f, "").family = f
    BY DEF NewHTTP, Normalize, Draft, Dialled
  <2>2. ~Seen(Latest(obs, NewHTTP(Target, f, "").layer, NewHTTP(Target, f, "").family))
    BY <1>4, <2>1, Zenon
  <2> QED
    BY <2>2, UnseenIsNew
<1>5. ASSUME ~Seen(Latest(obs, "quic", f)) PROVE ~HasExperiment(obs, NewQUIC(Target, f, ""))
  <2>1. NewQUIC(Target, f, "").layer = "quic" /\ NewQUIC(Target, f, "").family = f
    BY DEF NewQUIC, Normalize, Draft, Dialled
  <2>2. ~Seen(Latest(obs, NewQUIC(Target, f, "").layer, NewQUIC(Target, f, "").family))
    BY <1>5, <2>1, Zenon
  <2> QED
    BY <2>2, UnseenIsNew
<1> QED
  BY <1>1, <1>2, <1>3, <1>4, <1>5 DEF Fresh

\* Nothing, or a sequence of one.
LEMMA OneIs ==
  ASSUME NEW S, NEW c, NEW e, c => e \in S
  PROVE  /\ One(c, e) \in Seq(S)
         /\ (c /\ One(c, e) = <<e>>) \/ (~c /\ One(c, e) = << >>)
<1>1. CASE c
  <2>1. One(c, e) = <<e>> /\ e \in S
    BY <1>1 DEF One
  <2>2. <<e>> \in Seq(S)
    BY <2>1
  <2> QED
    BY <1>1, <2>1, <2>2
<1>2. CASE ~c
  <2>1. One(c, e) = << >>
    BY <1>2 DEF One
  <2>2. << >> \in Seq(S)
    OBVIOUS
  <2> QED
    BY <1>2, <2>1, <2>2
<1> QED
  BY <1>1, <1>2

\* A sequence of one.
LEMMA OneOf ==
  ASSUME NEW S, NEW e \in S
  PROVE  <<e>> \in Seq(S) /\ Len(<<e>>) = 1 /\ <<e>>[1] = e /\ <<e>> # << >>
  OBVIOUS

\* s has TCP on the k-th family at its place i, after TCP on the earlier
\* families, unless these are seen.
TCPInTurn(obs, fams, s, i, k) ==
    /\ s[i] = NewTCP(Target, fams[k])
    /\ ~Seen(Latest(obs, "tcp", fams[k]))
    /\ \A j \in 1..(k - 1) :
          Seen(Latest(obs, "tcp", fams[j])) \/ \E q \in 1..(i - 1) : s[q] = NewTCP(Target, fams[j])

\* A round of TCP is fresh, and each of its experiments stands in its turn.
LEMMA TCPRoundIs ==
  ASSUME NEW obs \in Seq(Observation), NEW fams \in Seq(Dialled), Len(fams) <= 2
  PROVE  /\ TCPRound(obs, fams) \in Seq(Fresh(obs))
         /\ \A i \in 1..Len(TCPRound(obs, fams)) :
               \E k \in 1..Len(fams) : TCPInTurn(obs, fams, TCPRound(obs, fams), i, k)
<1> DEFINE c(i) == i \in DOMAIN fams /\ ~Seen(Latest(obs, "tcp", fams[i]))
           e(i) == NewTCP(Target, fams[i])
           r == TCPRound(obs, fams)
<1>1. \A i \in 1..2 : c(i) => e(i) \in Fresh(obs) /\ i \in 1..Len(fams)
  <2>1. ASSUME NEW i \in 1..2, c(i) PROVE e(i) \in Fresh(obs) /\ i \in 1..Len(fams)
    <3>1. i \in 1..Len(fams) /\ fams[i] \in Dialled /\ ~Seen(Latest(obs, "tcp", fams[i]))
      BY <2>1
    <3> QED
      BY <3>1, UnseenIsFresh
  <2> QED
    BY <2>1
<1>2. r = One(c(1), e(1)) \o One(c(2), e(2))
  BY DEF TCPRound
<1>3. c(1) => e(1) \in Fresh(obs)
  BY <1>1
<1>4. c(2) => e(2) \in Fresh(obs)
  BY <1>1
<1>5. ~c(1) /\ c(2) => Seen(Latest(obs, "tcp", fams[1]))
  OBVIOUS
<1> HIDE DEF r
<1>6. CASE ~c(1) /\ ~c(2)
  <2>1. r = << >>
    BY <1>2, <1>6 DEF One
  <2> QED
    BY <2>1 DEF r
<1>7. CASE c(1) /\ ~c(2)
  <2>1. r = <<e(1)>>
    <3>1. r = <<e(1)>> \o << >>
      BY <1>2, <1>7, Zenon DEF One
    <3> HIDE DEF e
    <3> QED
      BY <3>1
  <2>2. r \in Seq(Fresh(obs)) /\ Len(r) = 1 /\ r[1] = e(1)
    BY <1>3, <1>7, <2>1
  <2>3. 1 \in 1..Len(fams) /\ TCPInTurn(obs, fams, r, 1, 1)
    BY <1>1, <1>7, <2>2 DEF TCPInTurn
  <2> QED
    BY <2>2, <2>3 DEF r
<1>8. CASE ~c(1) /\ c(2)
  <2>1. r = <<e(2)>>
    <3>1. r = << >> \o <<e(2)>>
      BY <1>2, <1>8, Zenon DEF One
    <3> HIDE DEF e
    <3> QED
      BY <3>1
  <2>2. r \in Seq(Fresh(obs)) /\ Len(r) = 1 /\ r[1] = e(2)
    BY <1>4, <1>8, <2>1
  <2>3. 2 \in 1..Len(fams) /\ TCPInTurn(obs, fams, r, 1, 2)
    BY <1>1, <1>5, <1>8, <2>2 DEF TCPInTurn
  <2> QED
    BY <2>2, <2>3 DEF r
<1>9. CASE c(1) /\ c(2)
  <2>1. r = <<e(1), e(2)>>
    <3>1. r = <<e(1)>> \o <<e(2)>>
      BY <1>2, <1>9, Zenon DEF One
    <3> QED
      BY <3>1, PairOf
  <2>2. r \in Seq(Fresh(obs)) /\ Len(r) = 2 /\ r[1] = e(1) /\ r[2] = e(2)
    <3> HIDE DEF e
    <3> QED
      BY <1>3, <1>4, <1>9, <2>1
  <2>3. 1 \in 1..Len(fams) /\ TCPInTurn(obs, fams, r, 1, 1)
    BY <1>1, <1>9, <2>2 DEF TCPInTurn
  <2>4. 2 \in 1..Len(fams) /\ TCPInTurn(obs, fams, r, 2, 2)
    <3>1. \A j \in 1..(2 - 1) : j = 1
      OBVIOUS
    <3>2. 1 \in 1..(2 - 1)
      OBVIOUS
    <3> QED
      BY <1>1, <1>9, <2>2, <3>1, <3>2 DEF TCPInTurn
  <2>5. \A i \in 1..Len(r) : i = 1 \/ i = 2
    BY <2>2
  <2> QED
    BY <2>2, <2>3, <2>4, <2>5 DEF r
<1> QED
  BY <1>6, <1>7, <1>8, <1>9

\* The k-th family is the first that TCP reaches.
FirstReached(obs, fams, k) ==
    /\ k \in Reached(obs, fams)
    /\ \A j \in Reached(obs, fams) : k <= j

\* The steps above TCP on the k-th family.
TLSNext(obs, fams, k, e) ==
    /\ FirstReached(obs, fams, k) /\ Target.https
    /\ ~Seen(Latest(obs, "tls", fams[k])) /\ e = NewTLS(Target, fams[k], "", "")
\* ... or of HTTP, once TLS has passed where there is TLS.
HTTPNext(obs, fams, k, e) ==
    /\ FirstReached(obs, fams, k)
    /\ Target.https => Passed(Latest(obs, "tls", fams[k]))
    /\ ~Seen(Latest(obs, "http", fams[k])) /\ e = NewHTTP(Target, fams[k], "")

\* Above TCP there is at most one step, on the first family reached.
LEMMA AfterTCPIs ==
  ASSUME NEW obs \in Seq(Observation), NEW fams \in Seq(Dialled)
  PROVE  /\ AfterTCP(obs, fams) \in Seq(Fresh(obs))
         /\ AfterTCP(obs, fams) = << >> \/
               \E e : /\ AfterTCP(obs, fams) = <<e>>
                      /\ \E k \in 1..Len(fams) :
                            TLSNext(obs, fams, k, e) \/ HTTPNext(obs, fams, k, e)
<1> DEFINE reached == Reached(obs, fams)
           k == Min(reached)
           fam == fams[k]
<1>1. CASE reached = {}
  <2>1. AfterTCP(obs, fams) = << >>
    BY <1>1, Zenon DEF AfterTCP
  <2> QED
    BY <2>1
<1>2. CASE reached # {}
  <2>1. reached \subseteq 1..Len(fams) /\ reached \subseteq Nat
    BY DEF Reached
  <2>2. k \in reached /\ \A j \in reached : k <= j
    BY <1>2, <2>1, MinIs
  <2>3. FirstReached(obs, fams, k) /\ k \in 1..Len(fams) /\ fam \in Dialled
    BY <2>1, <2>2 DEF FirstReached
  <2> DEFINE tls == Latest(obs, "tls", fam)
             c == (Target.https => Passed(tls)) /\ ~Seen(Latest(obs, "http", fam))
  <2>4. AfterTCP(obs, fams) =
          IF Target.https /\ ~Seen(tls) THEN <<NewTLS(Target, fam, "", "")>>
          ELSE One(c, NewHTTP(Target, fam, ""))
    BY <1>2, Zenon DEF AfterTCP
  <2>5. CASE Target.https /\ ~Seen(tls)
    <3>1. AfterTCP(obs, fams) = <<NewTLS(Target, fam, "", "")>>
      BY <2>4, <2>5
    <3>2. NewTLS(Target, fam, "", "") \in Fresh(obs)
      BY <2>3, <2>5, UnseenIsFresh
    <3>3. TLSNext(obs, fams, k, NewTLS(Target, fam, "", ""))
      BY <2>3, <2>5 DEF TLSNext
    <3>4. AfterTCP(obs, fams) \in Seq(Fresh(obs))
      BY <3>1, <3>2, OneOf, Zenon
    <3> QED
      BY <2>3, <3>1, <3>3, <3>4, Zenon
  <2>6. CASE ~(Target.https /\ ~Seen(tls)) /\ c
    <3>1. AfterTCP(obs, fams) = <<NewHTTP(Target, fam, "")>>
      BY <2>4, <2>6 DEF One
    <3>2. NewHTTP(Target, fam, "") \in Fresh(obs)
      BY <2>3, <2>6, UnseenIsFresh
    <3>3. HTTPNext(obs, fams, k, NewHTTP(Target, fam, ""))
      BY <2>3, <2>6 DEF HTTPNext
    <3>4. AfterTCP(obs, fams) \in Seq(Fresh(obs))
      BY <3>1, <3>2, OneOf, Zenon
    <3> QED
      BY <2>3, <3>1, <3>3, <3>4, Zenon
  <2>7. CASE ~(Target.https /\ ~Seen(tls)) /\ ~c
    <3>1. AfterTCP(obs, fams) = << >>
      BY <2>4, <2>7 DEF One
    <3> QED
      BY <3>1
  <2> QED
    BY <2>5, <2>6, <2>7
<1> QED
  BY <1>1, <1>2

\* The families of the last DNS observation.
Fams(obs) == OrderedFamilies(ResolvedFamilies(Latest(obs, "dns", "")))

\* What stands at the place i of a fast plan that goes beyond DNS.
FastStep(obs, s, i) ==
    LET fams == Fams(obs)
    IN  \/ \E k \in 1..Len(fams) : TCPInTurn(obs, fams, s, i, k)
        \/ Target.https /\ s[i] = NewQUIC(Target, fams[1], "")
        \/ \E k \in 1..Len(fams) :
              TLSNext(obs, fams, k, s[i]) \/ HTTPNext(obs, fams, k, s[i])

\* A fast plan is the DNS step, nothing, or fresh steps beyond DNS.
LEMMA FastPlanIs ==
  ASSUME NEW obs \in Seq(Observation)
  PROVE  /\ FastPlan(obs) \in Seq(Fresh(obs))
         /\ \/ /\ ~Seen(Latest(obs, "dns", ""))
               /\ FastPlan(obs) = <<NewDNS(Target, "system")>>
            \/ Seen(Latest(obs, "dns", "")) /\ FastPlan(obs) = << >>
            \/ /\ Passed(Latest(obs, "dns", "")) /\ Seen(Latest(obs, "dns", ""))
               /\ Fams(obs) # << >>
               /\ \A i \in 1..Len(FastPlan(obs)) : FastStep(obs, FastPlan(obs), i)
<1> DEFINE dns  == Latest(obs, "dns", "")
           fams == Fams(obs)
           r == TCPRound(obs, fams)
           c == Target.https /\ ~Seen(Latest(obs, "quic", fams[1]))
           q == One(c, NewQUIC(Target, fams[1], ""))
           a == AfterTCP(obs, fams)
<1>1. FastPlan(obs) = IF ~Seen(dns) THEN <<NewDNS(Target, "system")>>
                      ELSE IF ~Passed(dns) \/ fams = << >> THEN << >>
                      ELSE r \o q \o a
  BY Zenon DEF FastPlan, Fams
<1>2. fams \in Seq(Dialled) /\ Len(fams) <= 2
  BY FamiliesAre DEF Fams
<1>3. CASE ~Seen(dns)
  <2>1. FastPlan(obs) = <<NewDNS(Target, "system")>>
    BY <1>1, <1>3
  <2>2. NewDNS(Target, "system") \in Experiment
    BY DNSType DEF Targets
  <2>3. ~HasExperiment(obs, NewDNS(Target, "system"))
    <3>1. NewDNS(Target, "system").layer = "dns"
      BY DNSFields
    <3> QED
      BY <1>3, <3>1, UnseenIsNew
  <2>4. NewDNS(Target, "system") \in Fresh(obs)
    BY <2>2, <2>3 DEF Fresh
  <2>5. FastPlan(obs) \in Seq(Fresh(obs))
    BY <2>1, <2>4
  <2> QED
    BY <1>3, <2>1, <2>5
<1>4. CASE Seen(dns) /\ (~Passed(dns) \/ fams = << >>)
  <2>1. FastPlan(obs) = << >>
    BY <1>1, <1>4
  <2> QED
    <3>1. << >> \in Seq(Fresh(obs))
      OBVIOUS
    <3> QED
      BY <1>4, <2>1, <3>1, Zenon
<1>5. CASE Seen(dns) /\ Passed(dns) /\ fams # << >>
  <2> DEFINE s == FastPlan(obs)
  <2>1. s = r \o q \o a
    BY <1>1, <1>5
  <2>2. fams[1] \in Dialled
    <3> HIDE DEF fams
    <3>1. fams \in Seq(Dialled) /\ fams # << >>
      BY <1>2, <1>5, Zenon
    <3> QED
      BY <3>1
  <2> HIDE DEF fams
  <2>3. c => NewQUIC(Target, fams[1], "") \in Fresh(obs)
    BY <2>2, UnseenIsFresh
  <2> HIDE DEF c
  <2>4. q \in Seq(Fresh(obs)) /\ (q = << >> \/ (c /\ q = <<NewQUIC(Target, fams[1], "")>>))
    BY <2>3, OneIs
  <2> HIDE DEF q, r, a
  <2>5. /\ r \in Seq(Fresh(obs))
        /\ \A i \in 1..Len(r) : \E k \in 1..Len(fams) : TCPInTurn(obs, fams, r, i, k)
    BY <1>2, TCPRoundIs DEF r
  <2>6. /\ a \in Seq(Fresh(obs))
        /\ a = << >> \/ \E e : /\ a = <<e>>
                               /\ \E k \in 1..Len(fams) :
                                     TLSNext(obs, fams, k, e) \/ HTTPNext(obs, fams, k, e)
    BY <1>2, AfterTCPIs DEF a
  <2>7. /\ s \in Seq(Fresh(obs)) /\ Len(s) = Len(r) + Len(q) + Len(a)
        /\ Len(r) \in Nat /\ Len(q) \in Nat /\ Len(a) \in Nat
        /\ \A i \in 1..Len(s) :
              s[i] = IF i <= Len(r) THEN r[i]
                     ELSE IF i <= Len(r) + Len(q) THEN q[i - Len(r)]
                     ELSE a[i - (Len(r) + Len(q))]
    <3>1. /\ r \o q \in Seq(Fresh(obs)) /\ Len(r \o q) = Len(r) + Len(q)
          /\ \A i \in 1..(Len(r) + Len(q)) :
                (r \o q)[i] = IF i <= Len(r) THEN r[i] ELSE q[i - Len(r)]
      BY <2>4, <2>5, ConcatProperties
    <3>2. /\ s \in Seq(Fresh(obs)) /\ Len(s) = Len(r \o q) + Len(a)
          /\ \A i \in 1..(Len(r \o q) + Len(a)) :
                s[i] = IF i <= Len(r \o q) THEN (r \o q)[i] ELSE a[i - Len(r \o q)]
      BY <2>1, <2>6, <3>1, ConcatProperties
    <3>3. Len(r) \in Nat /\ Len(q) \in Nat /\ Len(a) \in Nat
      BY <2>4, <2>5, <2>6, LenProperties, Zenon
    <3>4. \A i \in 1..Len(s) : i <= Len(r) + Len(q) => i \in 1..(Len(r) + Len(q))
      BY <3>3
    <3>5. \A i \in 1..Len(s) : i <= Len(r) => i <= Len(r) + Len(q)
      BY <3>3
    <3> HIDE DEF s
    <3> QED
      BY <3>1, <3>2, <3>3, <3>4, <3>5
  <2> HIDE DEF s
  <2>8. ASSUME NEW i \in 1..Len(s) PROVE FastStep(obs, s, i)
    <3>1. CASE i <= Len(r)
      <4>1. i \in 1..Len(r)
        BY <2>7, <3>1
      <4>2. PICK k \in 1..Len(fams) : TCPInTurn(obs, fams, r, i, k)
        BY <2>5, <4>1
      <4>3. \A j \in 1..i : s[j] = r[j]
        BY <2>7, <4>1
      <4>4. TCPInTurn(obs, fams, s, i, k)
        <5>1. i \in 1..i /\ \A j \in 1..(i - 1) : j \in 1..i
          BY <4>1
        <5> QED
          BY <4>2, <4>3, <5>1 DEF TCPInTurn
      <4> QED
        BY <4>4 DEF FastStep, fams
    <3>2. CASE ~(i <= Len(r)) /\ i <= Len(r) + Len(q)
      <4>1. i - Len(r) \in 1..Len(q)
        BY <2>7, <3>2
      <4>2. q # << >>
        BY <4>1
      <4>3. c /\ q[1] = NewQUIC(Target, fams[1], "") /\ Len(q) = 1
        <5>1. c /\ q = <<NewQUIC(Target, fams[1], "")>>
          BY <2>4, <4>2, Zenon
        <5> QED
          BY <5>1
      <4>4. i - Len(r) = 1
        <5>1. i - Len(r) \in 1..1
          BY <4>1, <4>3, Zenon
        <5> QED
          BY <5>1
      <4>5. s[i] = NewQUIC(Target, fams[1], "") /\ Target.https
        BY <2>7, <3>2, <4>3, <4>4 DEF c
      <4> QED
        BY <4>5 DEF FastStep, fams
    <3>3. CASE ~(i <= Len(r) + Len(q))
      <4>1. i - (Len(r) + Len(q)) \in 1..Len(a)
        BY <2>7, <3>3
      <4>2. a # << >>
        BY <4>1
      <4>3. PICK e : /\ a = <<e>>
                     /\ \E k \in 1..Len(fams) :
                           TLSNext(obs, fams, k, e) \/ HTTPNext(obs, fams, k, e)
        BY <2>6, <4>2
      <4>4. i - (Len(r) + Len(q)) = 1 /\ a[1] = e /\ ~(i <= Len(r))
        <5>1. Len(a) = 1 /\ a[1] = e
          BY <4>3
        <5>2. i - (Len(r) + Len(q)) \in 1..1 /\ Len(r) \in Nat /\ Len(q) \in Nat
          BY <2>7, <4>1, <5>1, Zenon
        <5> QED
          BY <3>3, <5>1, <5>2
      <4>5. s[i] = e
        BY <2>7, <3>3, <4>4
      <4> QED
        BY <4>3, <4>5 DEF FastStep, fams
    <3> QED
      BY <3>1, <3>2, <3>3
  <2> QED
    BY <1>5, <2>7, <2>8 DEF s, fams
<1> QED
  BY <1>3, <1>4, <1>5

-----------------------------------------------------------------------------
(* What the adaptive policy follows up. *)

\* The follow-ups of TLS are experiments.
LEMMA TLSFollowUpsType ==
  ASSUME NEW obs, NEW fams \in Seq(Dialled)
  PROVE  TLSFollowUps(obs, fams) \subseteq Experiment
<1> SUFFICES ASSUME NEW e \in TLSFollowUps(obs, fams) PROVE e \in Experiment
  OBVIOUS
<1>1. PICK f \in ToSet(fams) :
         \/ e = NewTLS(Target, f, "", "none")
         \/ e = NewTLS(Target, f, "http/1.1", "")
         \/ e = NewTLS(Target, OtherFamily(f), "", "")
  BY Zenon DEF TLSFollowUps
<1>2. f \in Dialled
  BY DEF ToSet
<1>3. OtherFamily(f) \in Dialled
  BY DEF OtherFamily, Dialled
<1>4. /\ Target \in Targets /\ "" \in ALPNs /\ "http/1.1" \in ALPNs /\ "" \in SNIs
      /\ "none" \in SNIs
  BY Values, Zenon DEF Targets
<1>5. /\ NewTLS(Target, f, "", "none") \in Experiment
      /\ NewTLS(Target, f, "http/1.1", "") \in Experiment
      /\ NewTLS(Target, OtherFamily(f), "", "") \in Experiment
  BY <1>2, <1>3, <1>4, ConstructorTypes, Zenon
<1> QED
  BY <1>1, <1>5, Zenon

\* The follow-ups of HTTP are experiments.
LEMMA HTTPFollowUpsType ==
  ASSUME NEW obs, NEW fams \in Seq(Dialled)
  PROVE  HTTPFollowUps(obs, fams) \subseteq Experiment
<1> SUFFICES ASSUME NEW e \in HTTPFollowUps(obs, fams) PROVE e \in Experiment
  OBVIOUS
<1>1. PICK f \in ToSet(fams) : e = NewHTTP(Target, f, "http/1.1")
  BY Zenon DEF HTTPFollowUps
<1>2. f \in Dialled
  BY DEF ToSet
<1>3. Target \in Targets /\ "http/1.1" \in ALPNs /\ "" \in SNIs
  BY Values, Zenon DEF Targets
<1>4. NewHTTP(Target, f, "http/1.1") \in Experiment
  BY <1>2, <1>3, ConstructorTypes, Zenon
<1> QED
  BY <1>1, <1>4, Zenon

\* The follow-ups are experiments.
LEMMA FollowUpsType ==
  ASSUME NEW obs \in Seq(Observation)
  PROVE  FollowUps(obs) \subseteq Experiment
<1> DEFINE fams == Fams(obs)
<1>1. fams \in Seq(Dialled) /\ Len(fams) <= 2
  BY FamiliesAre DEF Fams
<1>2. ToSet(fams) = {fams[i] : i \in 1..Len(fams)} /\ DOMAIN fams = 1..Len(fams)
  <2> HIDE DEF fams
  <2> QED
    BY <1>1 DEF ToSet
<1>3. Target \in Targets /\ WithPort(Target, 80) \in Targets /\ "" \in ALPNs /\ "" \in SNIs
  BY Values, Zenon DEF Targets
<1>4. \A f \in Dialled : /\ NewTCP(Target, f) \in Experiment
                         /\ NewTCP(WithPort(Target, 80), f) \in Experiment
                         /\ NewUDP(Target, f, 0) \in Experiment
  BY <1>3, ConstructorTypes, Zenon
<1>5. fams # << >> => fams[1] \in Dialled
  <2> HIDE DEF fams
  <2> QED
    BY <1>1
<1>6. Len(fams) > 1 => fams[2] \in Dialled
  <2> HIDE DEF fams
  <2> QED
    BY <1>1
<1> DEFINE reached == \E i \in DOMAIN fams :
                         /\ Passed([f \in ToSet(fams) |-> Latest(obs, "tcp", f)][fams[i]])
                         /\ \A j \in 1..i :
                               Seen([f \in ToSet(fams) |-> Latest(obs, "tcp", f)][fams[j]])
<1> SUFFICES ASSUME NEW e \in FollowUps(obs) PROVE e \in Experiment
  OBVIOUS
<1>7. \/ e = NewDNS(Target, "public")
      \/ e \in TCPFollowUp(obs, fams)
      \/ fams # << >> /\ e = NewTCP(WithPort(Target, 80), fams[1])
      \/ reached /\ e \in TLSFollowUps(obs, fams)
      \/ reached /\ e \in UDPFollowUp(obs, fams)
      \/ reached /\ e \in HTTPFollowUps(obs, fams)
  BY Zenon DEF FollowUps, Fams
<1>8. reached => fams # << >>
  <2>1. reached => DOMAIN fams # {}
    BY Zenon
  <2> HIDE DEF fams, reached
  <2> QED
    BY <1>2, <2>1
<1> HIDE DEF fams, reached
<1>9. CASE e = NewDNS(Target, "public")
  BY <1>3, <1>9, DNSType
<1>10. CASE e \in TCPFollowUp(obs, fams)
  <2>1. Len(fams) > 1 /\ e = NewTCP(Target, fams[2])
    BY <1>10, Zenon DEF TCPFollowUp
  <2> QED
    BY <1>4, <1>6, <2>1, Zenon
<1>11. CASE fams # << >> /\ e = NewTCP(WithPort(Target, 80), fams[1])
  BY <1>4, <1>5, <1>11, Zenon
<1>12. CASE e \in TLSFollowUps(obs, fams)
  BY <1>1, <1>12, TLSFollowUpsType, Zenon
<1>13. CASE reached /\ e \in UDPFollowUp(obs, fams)
  <2>1. e = NewUDP(Target, fams[1], 0)
    BY <1>13, Zenon DEF UDPFollowUp
  <2> QED
    BY <1>4, <1>5, <1>8, <1>13, <2>1, Zenon
<1>14. CASE e \in HTTPFollowUps(obs, fams)
  BY <1>1, <1>14, HTTPFollowUpsType, Zenon
<1> QED
  BY <1>7, <1>9, <1>10, <1>11, <1>12, <1>13, <1>14, Zenon

\* The candidates are experiments that are not recorded.
LEMMA CandidatesFresh ==
  ASSUME NEW obs \in Seq(Observation)
  PROVE  Candidates(obs) \subseteq Fresh(obs)
  BY FollowUpsType, Zenon DEF Candidates, Fresh

\* The rank of an experiment is a number.
LEMMA RankType ==
  ASSUME NEW e \in Experiment
  PROVE  CanonicalRank(e) \in Nat /\ CostOf(e) \in Nat
<1> DEFINE Rank(s, v) == CHOOSE i \in DOMAIN s : s[i] = v
           L == <<"dns", "http", "quic", "tcp", "tls", "udp">>
           F == <<"any", "ipv4", "ipv6">>
           A == <<"h3", "http/1.1", "">>
           S == <<"none", "www.example.com", "">>
<1>1. CanonicalRank(e) =
         1000 * Rank(L, e.layer) + 100 * Rank(F, e.family) + 10 * Rank(A, e.alpn) + Rank(S, e.sni)
  BY Zenon DEF CanonicalRank
<1>2. e.layer \in Layers /\ e.family \in Families /\ e.alpn \in ALPNs /\ e.sni \in SNIs
  <2>1. e.layer \in Layers
    BY DEF Experiment
  <2>2. e.family \in Families
    BY DEF Experiment
  <2>3. e.alpn \in ALPNs
    BY DEF Experiment
  <2>4. e.sni \in SNIs
    BY DEF Experiment
  <2> QED
    BY <2>1, <2>2, <2>3, <2>4
<1>3. Rank(L, e.layer) \in Nat
  <2>1. DOMAIN L = 1..6
    OBVIOUS
  <2>2. \E i \in 1..6 : L[i] = e.layer
    <3>1. \/ e.layer = "dns" \/ e.layer = "http" \/ e.layer = "quic"
          \/ e.layer = "tcp" \/ e.layer = "tls" \/ e.layer = "udp"
      BY <1>2, Zenon DEF Layers
    <3>2. /\ L[1] = "dns" /\ L[2] = "http" /\ L[3] = "quic"
          /\ L[4] = "tcp" /\ L[5] = "tls" /\ L[6] = "udp"
      OBVIOUS
    <3>3. 1 \in 1..6 /\ 2 \in 1..6 /\ 3 \in 1..6 /\ 4 \in 1..6 /\ 5 \in 1..6 /\ 6 \in 1..6
      OBVIOUS
    <3> HIDE DEF L
    <3> QED
      BY <3>1, <3>2, <3>3, Zenon
  <2>3. Rank(L, e.layer) \in 1..6
    <3> HIDE DEF L
    <3> QED
      BY <2>1, <2>2, Zenon
  <2> HIDE DEF Rank, L
  <2> QED
    BY <2>3
<1>4. Rank(F, e.family) \in Nat
  <2>1. DOMAIN F = 1..3
    OBVIOUS
  <2>2. \E i \in 1..3 : F[i] = e.family
    <3>1. e.family = "any" \/ e.family = "ipv4" \/ e.family = "ipv6"
      BY <1>2, Zenon DEF Families
    <3>2. F[1] = "any" /\ F[2] = "ipv4" /\ F[3] = "ipv6"
      OBVIOUS
    <3>3. 1 \in 1..3 /\ 2 \in 1..3 /\ 3 \in 1..3
      OBVIOUS
    <3> HIDE DEF F
    <3> QED
      BY <3>1, <3>2, <3>3, Zenon
  <2>3. Rank(F, e.family) \in 1..3
    <3> HIDE DEF F
    <3> QED
      BY <2>1, <2>2, Zenon
  <2> HIDE DEF Rank, F
  <2> QED
    BY <2>3
<1>5. Rank(A, e.alpn) \in Nat
  <2>1. DOMAIN A = 1..3
    OBVIOUS
  <2>2. \E i \in 1..3 : A[i] = e.alpn
    <3>1. e.alpn = "h3" \/ e.alpn = "http/1.1" \/ e.alpn = ""
      BY <1>2, Zenon DEF ALPNs
    <3>2. A[1] = "h3" /\ A[2] = "http/1.1" /\ A[3] = ""
      OBVIOUS
    <3>3. 1 \in 1..3 /\ 2 \in 1..3 /\ 3 \in 1..3
      OBVIOUS
    <3> HIDE DEF A
    <3> QED
      BY <3>1, <3>2, <3>3, Zenon
  <2>3. Rank(A, e.alpn) \in 1..3
    <3> HIDE DEF A
    <3> QED
      BY <2>1, <2>2, Zenon
  <2> HIDE DEF Rank, A
  <2> QED
    BY <2>3
<1>6. Rank(S, e.sni) \in Nat
  <2>1. DOMAIN S = 1..3
    OBVIOUS
  <2>2. \E i \in 1..3 : S[i] = e.sni
    <3>1. e.sni = "none" \/ e.sni = "www.example.com" \/ e.sni = ""
      BY <1>2, Zenon DEF SNIs
    <3>2. S[1] = "none" /\ S[2] = "www.example.com" /\ S[3] = ""
      OBVIOUS
    <3>3. 1 \in 1..3 /\ 2 \in 1..3 /\ 3 \in 1..3
      OBVIOUS
    <3> HIDE DEF S
    <3> QED
      BY <3>1, <3>2, <3>3, Zenon
  <2>3. Rank(S, e.sni) \in 1..3
    <3> HIDE DEF S
    <3> QED
      BY <2>1, <2>2, Zenon
  <2> HIDE DEF Rank, S
  <2> QED
    BY <2>3
<1>7. CanonicalRank(e) \in Nat
  <2> HIDE DEF Rank, L, F, A, S
  <2> QED
    BY <1>1, <1>3, <1>4, <1>5, <1>6
<1>8. CostOf(e) \in Nat
  BY DEF CostOf
<1> QED
  BY <1>7, <1>8

\* Of some experiments one is the best.
LEMMA BestIs ==
  ASSUME NEW es, es \subseteq Experiment, es # {}
  PROVE  Best(es) \in es
<1>1. \A e \in es : CostOf(e) \in Nat /\ CanonicalRank(e) \in Nat
  BY RankType
<1> DEFINE costs == {CostOf(e) : e \in es}
<1>2. PICK c \in costs : \A d \in costs : c <= d
  <2>1. costs \subseteq Nat /\ costs # {}
    BY <1>1
  <2> HIDE DEF costs
  <2> QED
    BY <2>1, LeastExists
<1> DEFINE ranks == {CanonicalRank(e) : e \in {e \in es : CostOf(e) = c}}
<1>3. PICK r \in ranks : \A s \in ranks : r <= s
  <2>1. ranks \subseteq Nat /\ ranks # {}
    BY <1>1
  <2> HIDE DEF ranks
  <2> QED
    BY <2>1, LeastExists
<1>4. PICK e \in es : CostOf(e) = c /\ CanonicalRank(e) = r
  BY <1>3
<1>5. ASSUME NEW other \in es PROVE ~Better(other, e)
  <2>1. CostOf(other) \in Nat /\ CanonicalRank(other) \in Nat /\ c \in Nat /\ r \in Nat
    BY <1>1, <1>4
  <2>2. c <= CostOf(other)
    BY <1>2
  <2>3. CostOf(other) = c => r <= CanonicalRank(other)
    BY <1>3
  <2> QED
    BY <1>4, <2>1, <2>2, <2>3 DEF Better, Score
<1>6. \E e2 \in es : \A other \in es : ~Better(other, e2)
  BY <1>5
<1> QED
  BY <1>6, Zenon DEF Best

\* The first two of some experiments are some of them, and there is one
\* whenever there are any.
LEMMA TopTwoIs ==
  ASSUME NEW S, NEW es, es \subseteq Experiment, es \subseteq S
  PROVE  TopTwo(es) \in Seq(S) /\ (TopTwo(es) = << >> <=> es = {})
<1>1. CASE es = {}
  <2>1. TopTwo(es) = << >>
    BY <1>1, Zenon DEF TopTwo
  <2>2. << >> \in Seq(S)
    OBVIOUS
  <2> QED
    BY <1>1, <2>1, <2>2, Zenon
<1>2. CASE es # {}
  <2> DEFINE b == Best(es)
             rest == es \ {b}
             o == One(rest # {}, Best(rest))
  <2>1. TopTwo(es) = <<b>> \o o
    BY <1>2, Zenon DEF TopTwo
  <2>2. b \in S
    BY <1>2, BestIs
  <2>3. rest # {} => Best(rest) \in S
    BY BestIs
  <2>4. o \in Seq(S)
    <3> HIDE DEF rest
    <3> QED
      BY <2>3, OneIs
  <2> HIDE DEF b, o
  <2>5. <<b>> \in Seq(S) /\ Len(<<b>>) = 1
    BY <2>2, OneOf
  <2>6. /\ <<b>> \o o \in Seq(S)
        /\ Len(<<b>> \o o) = Len(<<b>>) + Len(o)
    BY <2>4, <2>5, ConcatProperties
  <2>7. Len(o) \in Nat
    BY <2>4
  <2>8. Len(TopTwo(es)) # 0
    BY <2>1, <2>5, <2>6, <2>7
  <2>9. TopTwo(es) # << >>
    BY <2>8
  <2> QED
    BY <1>2, <2>1, <2>6, <2>9, Zenon
<1> QED
  BY <1>1, <1>2

-----------------------------------------------------------------------------
(* The fixed designs. *)

\* A bounded plan of experiments is one.
LEMMA BoundedType ==
  ASSUME NEW exps \in Seq(Experiment)
  PROVE  Bounded(exps) \in Seq(Experiment)
<1>1. CASE Len(exps) > MaxCandidates
  <2>1. Bounded(exps) = SubSeq(exps, 1, MaxCandidates)
    BY <1>1 DEF Bounded
  <2>2. MaxCandidates \in Nat /\ MaxCandidates >= 1
    BY PoliciesAssumption
  <2>3. \A i \in 1..MaxCandidates : exps[i] \in Experiment
    BY <1>1, <2>2
  <2> QED
    BY <2>1, <2>2, <2>3
<1>2. CASE ~(Len(exps) > MaxCandidates)
  BY <1>2 DEF Bounded
<1> QED
  BY <1>1, <1>2

\* The factorial plan is made of experiments.
LEMMA FactorialPlanType == FactorialPlan \in Seq(Experiment)
<1> DEFINE Cell(f, tr, t) == IF tr = "tcp" THEN NewTCP(t, f) ELSE NewQUIC(t, f, "")
           Row(f) == <<Cell(f, "tcp", Target), Cell(f, "tcp", Control),
                       Cell(f, "quic", Target), Cell(f, "quic", Control)>>
<1>1. FactorialPlan = Bounded(Row("ipv4") \o Row("ipv6"))
  BY Zenon DEF FactorialPlan
<1>2. ASSUME NEW f \in Dialled PROVE Row(f) \in Seq(Experiment)
  <2>1. Target \in Targets /\ Control \in Targets /\ "" \in ALPNs /\ "" \in SNIs
    BY Values, Zenon DEF Targets
  <2>2. /\ NewTCP(Target, f) \in Experiment /\ NewTCP(Control, f) \in Experiment
        /\ NewQUIC(Target, f, "") \in Experiment /\ NewQUIC(Control, f, "") \in Experiment
    BY <2>1, ConstructorTypes, Zenon
  <2>3. /\ Cell(f, "tcp", Target) \in Experiment /\ Cell(f, "tcp", Control) \in Experiment
        /\ Cell(f, "quic", Target) \in Experiment /\ Cell(f, "quic", Control) \in Experiment
    BY <2>2
  <2> HIDE DEF Cell
  <2> QED
    BY <2>3
<1>3. Row("ipv4") \in Seq(Experiment) /\ Row("ipv6") \in Seq(Experiment)
  BY <1>2, Zenon DEF Dialled
<1> HIDE DEF Row
<1>4. Row("ipv4") \o Row("ipv6") \in Seq(Experiment)
  BY <1>3
<1> QED
  BY <1>1, <1>4, BoundedType

\* The levels of the design.
LEMMA L9Is ==
  /\ DOMAIN L9 = 1..9
  /\ \A r \in 1..9 : /\ L9[r][1] \in 1..3 /\ L9[r][2] \in 1..3
                     /\ L9[r][3] \in 1..3 /\ L9[r][4] \in 1..3
<1>1. DOMAIN L9 = 1..9
  BY DEF L9
<1> DEFINE Levels(r) == /\ L9[r][1] \in 1..3 /\ L9[r][2] \in 1..3
                        /\ L9[r][3] \in 1..3 /\ L9[r][4] \in 1..3
<1>2. Levels(1) /\ Levels(2) /\ Levels(3)
  BY DEF L9
<1>3. Levels(4) /\ Levels(5) /\ Levels(6)
  BY DEF L9
<1>4. Levels(7) /\ Levels(8) /\ Levels(9)
  BY DEF L9
<1> HIDE DEF Levels
<1>5. ASSUME NEW r \in 1..9 PROVE Levels(r)
  <2>1. \/ r = 1 \/ r = 2 \/ r = 3 \/ r = 4 \/ r = 5 \/ r = 6 \/ r = 7 \/ r = 8 \/ r = 9
    OBVIOUS
  <2> QED
    BY <1>2, <1>3, <1>4, <2>1, Zenon
<1> QED
  BY <1>1, <1>5 DEF Levels

\* So is a row of the orthogonal array, whatever its levels, which no default
\* replaces,
LEMMA TaguchiRowType ==
  ASSUME NEW levels, levels[1] \in 1..3, levels[2] \in 1..3, levels[3] \in 1..3,
         levels[4] \in 1..3
  PROVE  /\ TaguchiRow(levels) \in Experiment
         /\ TaguchiRow(levels).family = TaguchiFamilies[levels[1]]
         /\ TaguchiRow(levels).transport = TaguchiTransports[levels[2]]
         /\ TaguchiRow(levels).sni = TaguchiSNI[levels[3]]
         /\ TaguchiRow(levels).payload = TaguchiPayloads[levels[4]]
<1> DEFINE tr  == TaguchiTransports[levels[2]]
           fam == TaguchiFamilies[levels[1]]
           alp == IF tr = "quic" THEN "h3" ELSE ""
           nam == TaguchiSNI[levels[3]]
           pay == TaguchiPayloads[levels[4]]
           row == [Draft(tr, Target, fam, "", alp, nam, pay) EXCEPT !.transport = tr]
<1>1. tr \in {"tcp", "udp", "quic"}
  BY DEF TaguchiTransports
<1>2. fam \in Families
  BY DEF TaguchiFamilies, Families
<1>3. nam \in SNIs
  <2>1. levels[3] = 1 \/ levels[3] = 2 \/ levels[3] = 3
    OBVIOUS
  <2>2. TaguchiSNI[1] = "" /\ TaguchiSNI[2] = "none" /\ TaguchiSNI[3] = "www.example.com"
    BY DEF TaguchiSNI
  <2> QED
    BY <2>1, <2>2, Values, Zenon
<1>4. pay \in Payloads /\ pay # 0
  BY DEF TaguchiPayloads, Payloads
<1>5. alp \in ALPNs
  BY Values, Zenon
<1>6. Target \in Targets
  BY Zenon DEF Targets
<1>7. TaguchiRow(levels) = Normalize(row)
  BY Zenon DEF TaguchiRow
<1> HIDE DEF tr, fam, alp, nam, pay
<1>8. /\ row.layer = tr /\ row.target = Target /\ row.family = fam /\ row.transport = tr
      /\ row.resolver = "" /\ row.alpn = alp /\ row.sni = nam /\ row.payload = pay
  BY DEF Draft
<1> HIDE DEF row
<1>9. fam # "" /\ tr # "" /\ tr # "dns"
  BY <1>1, <1>2 DEF Families
<1>10. Normalize(row) = [layer |-> tr, target |-> Target, alpn |-> alp, sni |-> nam,
                         family |-> fam, transport |-> tr, resolver |-> "", payload |-> pay]
  <2>1. /\ (IF row.family # "" THEN row.family
            ELSE IF row.layer = "dns" THEN "any" ELSE "ipv4") = fam
        /\ (IF row.transport # "" THEN row.transport ELSE DefaultTransport[row.layer]) = tr
        /\ (IF row.resolver # "" \/ row.layer # "dns" THEN row.resolver ELSE "system") = ""
        /\ (IF row.payload # 0 \/ row.layer # "udp" THEN row.payload ELSE 16) = pay
    BY <1>4, <1>8, <1>9, Zenon
  <2> QED
    BY <1>8, <2>1, Zenon DEF Normalize
<1>11. tr \in Layers /\ tr \in Transports /\ "" \in Resolvers
  BY <1>1, Values, Zenon
<1>12. [layer |-> tr, target |-> Target, alpn |-> alp, sni |-> nam, family |-> fam,
        transport |-> tr, resolver |-> "", payload |-> pay] \in Experiment
  <2> DEFINE none == ""
  <2>1. none \in Resolvers
    BY <1>11
  <2> HIDE DEF none
  <2>2. [layer |-> tr, target |-> Target, alpn |-> alp, sni |-> nam, family |-> fam,
         transport |-> tr, resolver |-> none, payload |-> pay] \in Experiment
    BY <1>2, <1>3, <1>4, <1>5, <1>6, <1>11, <2>1 DEF Experiment
  <2> QED
    BY <2>2 DEF none
<1>13. /\ TaguchiRow(levels).family = fam /\ TaguchiRow(levels).transport = tr
       /\ TaguchiRow(levels).sni = nam /\ TaguchiRow(levels).payload = pay
  <2> DEFINE e == TaguchiRow(levels)
             none == ""
  <2>1. e = [layer |-> tr, target |-> Target, alpn |-> alp, sni |-> nam, family |-> fam,
             transport |-> tr, resolver |-> none, payload |-> pay]
    BY <1>7, <1>10, Zenon
  <2> HIDE DEF e, none
  <2>2. e.family = fam /\ e.transport = tr /\ e.sni = nam /\ e.payload = pay
    BY <2>1
  <2> QED
    BY <2>2, Zenon DEF e
<1> QED
  BY <1>7, <1>10, <1>12, <1>13, Zenon DEF fam, tr, nam, pay

\* and so the Taguchi plan.
LEMMA TaguchiPlanType == TaguchiPlan \in Seq(Experiment)
<1> DEFINE rows == [r \in DOMAIN L9 |-> TaguchiRow(L9[r])]
<1>1. TaguchiPlan = Bounded(rows)
  BY Zenon DEF TaguchiPlan
<1>2. \A r \in 1..9 : TaguchiRow(L9[r]) \in Experiment
  BY L9Is, TaguchiRowType, Zenon
<1>3. rows = [r \in 1..9 |-> TaguchiRow(L9[r])]
  BY L9Is, Zenon
<1>4. [r \in 1..9 |-> TaguchiRow(L9[r])] \in Seq(Experiment)
  BY <1>2
<1>5. rows \in Seq(Experiment)
  BY <1>3, <1>4, Zenon
<1> QED
  BY <1>1, <1>5, BoundedType, Zenon

-----------------------------------------------------------------------------
(* What a policy proposes. *)

\* Within some budget a plan comes to nothing exactly when all of it is
\* recorded.
LEMMA NothingNew ==
  ASSUME NEW obs, NEW most \in Nat, most >= 1, NEW n \in Nat, NEW exps, DOMAIN exps = 1..n
  PROVE  DedupeAndCap(obs, exps, most) = << >>
            <=> \A i \in 1..n : HasExperiment(obs, exps[i])
<1> DEFINE out == DedupeAndCap(obs, exps, most)
           S == {exps[i] : i \in 1..n}
<1>1. Selects(out, obs, exps, most, n)
  BY DedupeSelects
<1> HIDE DEF out
<1>2. out \in Seq(S)
  BY <1>1 DEF Selects
<1> HIDE DEF S
<1>3. ASSUME out = << >> PROVE \A i \in 1..n : HasExperiment(obs, exps[i])
  <2>1. Len(out) = 0 /\ Len(out) < most
    BY <1>3
  <2>2. \A j \in 1..n : Known(obs, out, 0, exps[j])
    BY <1>1, <2>1 DEF Selects
  <2> QED
    BY <2>2 DEF Known
<1>4. ASSUME out # << >>, \A i \in 1..n : HasExperiment(obs, exps[i]) PROVE FALSE
  <2>1. 1 \in 1..Len(out)
    BY <1>2, <1>4
  <2>2. PICK i \in 1..n : out[1] = exps[i]
    BY <1>1, <2>1 DEF Selects
  <2>3. ~HasExperiment(obs, out[1])
    BY <1>1, <2>1 DEF Selects
  <2> QED
    BY <1>4, <2>2, <2>3
<1> QED
  BY <1>3, <1>4 DEF out

\* A plan of fresh experiments comes to nothing only when it is empty.
LEMMA FreshPlan ==
  ASSUME NEW obs, NEW most \in Nat, most >= 1, NEW exps \in Seq(Fresh(obs))
  PROVE  DedupeAndCap(obs, exps, most) = << >> <=> exps = << >>
<1>1. Len(exps) \in Nat /\ DOMAIN exps = 1..Len(exps)
  OBVIOUS
<1>2. \A i \in 1..Len(exps) : exps[i] \in Fresh(obs)
  OBVIOUS
<1>3. \A i \in 1..Len(exps) : ~HasExperiment(obs, exps[i])
  BY <1>2 DEF Fresh
<1>4. exps = << >> <=> Len(exps) = 0
  OBVIOUS
<1>5. Len(exps) = 0 <=> \A i \in 1..Len(exps) : HasExperiment(obs, exps[i])
  <2>1. Len(exps) # 0 => 1 \in 1..Len(exps)
    BY <1>1
  <2>2. Len(exps) = 0 => 1..Len(exps) = {}
    OBVIOUS
  <2> QED
    BY <1>3, <2>1, <2>2
<1>6. DedupeAndCap(obs, exps, most) = << >> <=> \A i \in 1..Len(exps) : HasExperiment(obs, exps[i])
  BY <1>1, NothingNew
<1> QED
  BY <1>4, <1>5, <1>6

\* What a proposal may be.
Proper(obs, most, out) ==
    /\ out \in Seq(Fresh(obs))
    /\ IsInjective(out)
    /\ Len(out) <= most

\* What is taken of a sequence of experiments is proper.
LEMMA DedupeProper ==
  ASSUME NEW obs, NEW most \in Nat, NEW exps \in Seq(Experiment)
  PROVE  Proper(obs, most, DedupeAndCap(obs, exps, most))
<1> DEFINE out == DedupeAndCap(obs, exps, most)
           n == Len(exps)
           S == {exps[i] : i \in 1..n}
<1>1. n \in Nat /\ DOMAIN exps = 1..n /\ S \subseteq Experiment
  OBVIOUS
<1>2. Selects(out, obs, exps, most, n)
  BY <1>1, DedupeSelects
<1> HIDE DEF out
<1>3. out \in Seq(S) /\ Len(out) <= most /\ IsInjective(out)
  BY <1>2, Zenon DEF Selects
<1> HIDE DEF S
<1>4. ASSUME NEW i \in 1..Len(out) PROVE out[i] \in Fresh(obs)
  <2>1. out[i] \in Experiment
    BY <1>1, <1>3
  <2>2. ~HasExperiment(obs, out[i])
    BY <1>2 DEF Selects
  <2> QED
    BY <2>1, <2>2 DEF Fresh
<1>5. out \in Seq(Fresh(obs))
  <2>1. out = [i \in 1..Len(out) |-> out[i]] /\ Len(out) \in Nat
    BY <1>3
  <2> QED
    BY <1>4, <2>1
<1> QED
  BY <1>3, <1>5 DEF Proper, out

\* A sequence of fresh experiments is one of experiments.
LEMMA FreshTyped ==
  ASSUME NEW obs, NEW s \in Seq(Fresh(obs))
  PROVE  s \in Seq(Experiment)
<1>1. Fresh(obs) \subseteq Experiment
  BY DEF Fresh
<1> QED
  BY <1>1

\* What a policy proposes is proper, and it proposes nothing exactly when it
\* is done.
LEMMA ProposeIs ==
  ASSUME NEW obs \in Seq(Observation), NEW p \in PolicyNames, NEW most \in Nat
  PROVE  /\ Proper(obs, most, Propose(p, obs, most))
         /\ most >= 1 => (Done(p, obs) <=> Propose(p, obs, most) = << >>)
<1>1. p = "fast" \/ p = "adaptive" \/ p = "factorial" \/ p = "taguchi"
  BY Zenon DEF PolicyNames
<1>2. FastPlan(obs) \in Seq(Fresh(obs)) /\ FastPlan(obs) \in Seq(Experiment)
  BY FastPlanIs, FreshTyped
<1>3. CASE p = "fast"
  <2>1. Propose(p, obs, most) = DedupeAndCap(obs, FastPlan(obs), most)
    BY <1>3 DEF Propose, Plan
  <2>2. Done(p, obs) <=> FastPlan(obs) = << >>
    BY <1>3 DEF Done
  <2> QED
    BY <1>2, <2>1, <2>2, DedupeProper, FreshPlan
<1>4. CASE p = "adaptive"
  <2> DEFINE two == TopTwo(Candidates(obs))
             base == DedupeAndCap(obs, FastPlan(obs), most)
             more == DedupeAndCap(obs, two, most)
  <2>1. Propose(p, obs, most) = IF base # << >> THEN base ELSE more
    BY <1>4, Zenon DEF Propose, AdaptiveProposal
  <2>2. Done(p, obs) <=> FastPlan(obs) = << >> /\ Candidates(obs) = {}
    BY <1>4 DEF Done
  <2>3. Candidates(obs) \subseteq Fresh(obs) /\ Fresh(obs) \subseteq Experiment
    BY CandidatesFresh DEF Fresh
  <2>4. two \in Seq(Fresh(obs)) /\ (two = << >> <=> Candidates(obs) = {})
    <3>1. Candidates(obs) \subseteq Experiment
      BY <2>3
    <3> QED
      BY <2>3, <3>1, TopTwoIs
  <2>5. two \in Seq(Experiment)
    BY <2>4, FreshTyped
  <2>6. Proper(obs, most, base) /\ (most >= 1 => (base = << >> <=> FastPlan(obs) = << >>))
    BY <1>2, DedupeProper, FreshPlan
  <2> HIDE DEF two
  <2>7. Proper(obs, most, more) /\ (most >= 1 => (more = << >> <=> two = << >>))
    BY <2>4, <2>5, DedupeProper, FreshPlan
  <2> HIDE DEF base, more
  <2> QED
    BY <2>1, <2>2, <2>4, <2>6, <2>7
<1>5. CASE p = "factorial" \/ p = "taguchi"
  <2> DEFINE exps == Plan(p, obs)
  <2>1. exps = FactorialPlan \/ exps = TaguchiPlan
    BY <1>5 DEF Plan
  <2>2. exps \in Seq(Experiment)
    BY <2>1, FactorialPlanType, TaguchiPlanType
  <2>3. Propose(p, obs, most) = DedupeAndCap(obs, exps, most)
    BY <1>5 DEF Propose
  <2>4. Done(p, obs) <=> DedupeAndCap(obs, exps, MaxCandidates) = << >>
    BY <1>5 DEF Done
  <2> HIDE DEF exps
  <2>5. Len(exps) \in Nat /\ DOMAIN exps = 1..Len(exps)
    BY <2>2
  <2>6. MaxCandidates \in Nat /\ MaxCandidates >= 1
    BY PoliciesAssumption
  <2>7. DedupeAndCap(obs, exps, MaxCandidates) = << >>
           <=> \A i \in 1..Len(exps) : HasExperiment(obs, exps[i])
    BY <2>5, <2>6, NothingNew
  <2>8. most >= 1 => (DedupeAndCap(obs, exps, most) = << >>
           <=> \A i \in 1..Len(exps) : HasExperiment(obs, exps[i]))
    BY <2>5, NothingNew
  <2> QED
    BY <2>2, <2>3, <2>4, <2>7, <2>8, DedupeProper
<1> QED
  BY <1>1, <1>3, <1>4, <1>5

-----------------------------------------------------------------------------
(* What the inference finds. *)

\* A finding cites what was seen.
LEMMA FindType ==
  ASSUME NEW applies, NEW kind \in FindingKinds, NEW confidence \in Confidences,
         NEW cited, cited \subseteq Observation \cup {Nothing}
  PROVE  Find(applies, kind, confidence, cited) \subseteq Finding
<1> DEFINE evidence == {o.exp : o \in {o \in cited : Seen(o)}}
<1>1. evidence \subseteq Experiment
  <2>1. ASSUME NEW o \in cited, Seen(o) PROVE o.exp \in Experiment
    <3>1. o # Nothing
      BY <2>1, NothingUnseen
    <3>2. o \in Observation
      BY <3>1
    <3> QED
      BY <3>2, SeenRecorded
  <2> QED
    BY <2>1
<1> HIDE DEF evidence
<1>2. [kind |-> kind, confidence |-> confidence, evidence |-> evidence] \in Finding
  BY <1>1 DEF Finding
<1>3. \/ Find(applies, kind, confidence, cited) = {}
      \/ Find(applies, kind, confidence, cited) =
            {[kind |-> kind, confidence |-> confidence, evidence |-> evidence]}
  BY Zenon DEF Find, evidence
<1> QED
  BY <1>2, <1>3

\* What the inference looks up is an observation, or Nothing.
LEMMA PickType ==
  ASSUME NEW obs \in Seq(Observation), NEW l, NEW f
  PROVE  Pick(obs, l, f) \in Observation \cup {Nothing}
<1> DEFINE all == Of(obs, l, f)
           canonical == {i \in all : IsCanonical(obs[i].exp)}
           is == IF canonical = {} THEN all ELSE canonical
<1>1. is \subseteq 1..Len(obs) /\ Len(obs) \in Nat
  <2>1. all \subseteq DOMAIN obs
    BY Zenon DEF Of
  <2>2. is \subseteq all
    BY Zenon
  <2> HIDE DEF is, all
  <2> QED
    BY <2>1, <2>2
<1>2. Pick(obs, l, f) = LastOf(obs, is)
  BY Zenon DEF Pick
<1> HIDE DEF is
<1>3. CASE is = {}
  BY <1>2, <1>3, Zenon DEF LastOf
<1>4. CASE is # {}
  <2>1. \E i \in is : \A j \in is : j <= i
    BY <1>1, <1>4, GreatestExists
  <2>2. \E i \in is : LastOf(obs, is) = obs[i]
    BY <1>4, <2>1, Zenon DEF LastOf
  <2> QED
    BY <1>1, <1>2, <2>2
<1> QED
  BY <1>3, <1>4

\* The kinds and confidences the rules name.
LEMMA KindsAre ==
  /\ "dns_failure" \in FindingKinds /\ "ipv6_path_failure" \in FindingKinds
  /\ "tcp_unreachable" \in FindingKinds /\ "tls_specific_failure" \in FindingKinds
  /\ "udp_unavailable" \in FindingKinds /\ "quic_unavailable" \in FindingKinds
  /\ "http_application_rejection" \in FindingKinds
  /\ "possible_proxy_interference" \in FindingKinds
  /\ "partial_address_failure" \in FindingKinds /\ "path_healthy" \in FindingKinds
  /\ "confirmed" \in Confidences /\ "likely" \in Confidences /\ "possible" \in Confidences
  BY Zenon DEF FindingKinds, Confidences

\* Whatever was observed, what is inferred are findings.
LEMMA InferredType ==
  ASSUME NEW obs \in Seq(Observation)
  PROVE  Inferred(obs) \subseteq Finding
<1> DEFINE O == Observation \cup {Nothing}
<1>1. \A l, f : Pick(obs, l, f) \in O
  BY PickType, Zenon
<1>2. \A a, k, c : \A s \in SUBSET O :
         k \in FindingKinds /\ c \in Confidences => Find(a, k, c, s) \subseteq Finding
  BY FindType, Zenon
<1> HIDE DEF O
<1>3. \A l, f : {Pick(obs, l, f)} \in SUBSET O
  BY <1>1
<1>4. \A l, f, g : {Pick(obs, l, f), Pick(obs, l, g)} \in SUBSET O
  BY <1>1
<1>5. DNSFailure(Pick(obs, "dns", "")) \subseteq Finding
  BY <1>2, <1>3, KindsAre, Zenon DEF DNSFailure
<1>6. TCPUnreachable(obs) \subseteq Finding
  BY <1>2, <1>4, KindsAre, Zenon DEF TCPUnreachable
<1>7. IPv6PathFailure(obs) \subseteq Finding
  BY <1>2, <1>4, KindsAre, Zenon DEF IPv6PathFailure
<1>8. ASSUME NEW f PROVE TLSFailure(obs, f) \subseteq Finding
  <2> DEFINE tcp == Pick(obs, "tcp", f)
             tls == Pick(obs, "tls", f)
             fails == Passed(tcp) /\ Failed(tls)
             c == IF tls.marks \cap {"alert", "certificate"} # {} THEN "confirmed" ELSE "likely"
             one == Find(fails, "tls_specific_failure", c, {tcp, tls})
             two == Find(fails /\ tls.marks \cap {"reset", "unknown_authority"} # {},
                         "possible_proxy_interference", "possible", {tcp, tls})
  <2>1. TLSFailure(obs, f) = one \cup two
    BY Zenon DEF TLSFailure
  <2>2. {tcp, tls} \in SUBSET O /\ c \in Confidences
    BY <1>1, KindsAre
  <2> HIDE DEF tcp, tls, fails, c
  <2>3. one \subseteq Finding
    BY <1>2, <2>2, KindsAre, Zenon
  <2>4. two \subseteq Finding
    BY <1>2, <2>2, KindsAre, Zenon
  <2> HIDE DEF one, two
  <2> QED
    BY <2>1, <2>3, <2>4
<1>9. UDPUnavailable(obs) \subseteq Finding
  BY <1>2, <1>3, KindsAre, Zenon DEF UDPUnavailable
<1>10. QUICUnavailable(obs) \subseteq Finding
  BY <1>2, <1>3, KindsAre, Zenon DEF QUICUnavailable
<1>11. \A f : HTTPRejection(obs, f) \subseteq Finding
  BY <1>2, <1>3, KindsAre, Zenon DEF HTTPRejection
<1>12. PartialAddressFailure(obs) \subseteq Finding
  <2>1. {} \in SUBSET O
    OBVIOUS
  <2> QED
    BY <1>2, <2>1, KindsAre, Zenon DEF PartialAddressFailure
<1>13. PathFindings(obs) \subseteq Finding
  BY <1>7, <1>8, <1>9, <1>10, <1>11, <1>12, Zenon DEF PathFindings
<1>14. PathHealthy(obs) \subseteq Finding
  <2>1. {obs[i] : i \in {i \in DOMAIN obs : Passed(obs[i])}} \in SUBSET O
    <3>1. \A i \in DOMAIN obs : obs[i] \in O
      BY DEF O
    <3> QED
      BY <3>1
  <2> QED
    BY <1>2, <2>1, KindsAre, Zenon DEF PathHealthy
<1> QED
  BY <1>5, <1>6, <1>13, <1>14, Zenon DEF Inferred

-----------------------------------------------------------------------------
(* The invariant of the survey. *)

\* No experiment is recorded, or about to be, twice.
NoRepeats ==
    /\ \A m, n \in 1..Len(observations) : observations[m].exp = observations[n].exp => m = n
    /\ IsInjective(batch)
    /\ \A i \in 1..Len(batch) : ~HasExperiment(observations, batch[i])

\* The first m observations have TCP on the family f.
Tried(obs, m, f) == \E i \in 1..m : obs[i].exp = NewTCP(Target, f)

\* By the first m observations, the k-th family is the first that TCP reaches.
OnPath(obs, m, fams, k) ==
    /\ \E i \in 1..m : obs[i].exp = NewTCP(Target, fams[k]) /\ Passed(obs[i])
    /\ \A j \in 1..(k - 1) :
          \E i \in 1..m : obs[i].exp = NewTCP(Target, fams[j]) /\ ~Passed(obs[i])

\* After these the fast policy may ask for e, an experiment above TCP.
MayFollow(obs, m, fams, e) ==
    \/ Target.https /\ e = NewQUIC(Target, fams[1], "")
    \/ \E k \in 1..Len(fams) :
          OnPath(obs, m, fams, k) /\ Target.https /\ e = NewTLS(Target, fams[k], "", "")
    \/ \E k \in 1..Len(fams) :
          /\ OnPath(obs, m, fams, k) /\ e = NewHTTP(Target, fams[k], "")
          /\ Target.https => \E i \in 1..m :
                obs[i].exp = NewTLS(Target, fams[k], "", "") /\ Passed(obs[i])

\* The families of the first observation, that of DNS.
FirstFams(obs) == OrderedFamilies(ResolvedFamilies(obs[1]))

\* The first observation is that of DNS, and each later one was due.
FastDid(obs) ==
    /\ obs # << >> => obs[1].exp = NewDNS(Target, "system")
    /\ \A n \in 2..Len(obs) :
          LET fams == FirstFams(obs)
          IN  /\ Passed(obs[1]) /\ fams # << >>
              /\ \/ MayFollow(obs, n - 1, fams, obs[n].exp)
                 \/ \E k \in 1..Len(fams) :
                       /\ obs[n].exp = NewTCP(Target, fams[k])
                       /\ \A j \in 1..(k - 1) : Tried(obs, n - 1, fams[j])

\* So is what is to be recorded next.
FastDue(obs, todo) ==
    \/ obs = << >> /\ todo = <<NewDNS(Target, "system")>>
    \/ LET fams == FirstFams(obs)
       IN  /\ obs # << >> /\ Passed(obs[1]) /\ fams # << >>
           /\ \A p \in 1..Len(todo) :
                 \/ MayFollow(obs, Len(obs), fams, todo[p])
                 \/ \E k \in 1..Len(fams) :
                       /\ todo[p] = NewTCP(Target, fams[k])
                       /\ \A j \in 1..(k - 1) :
                             \/ Tried(obs, Len(obs), fams[j])
                             \/ \E q \in 1..(p - 1) : todo[q] = NewTCP(Target, fams[j])

\* A survey that only the fast policy has run took its steps in order.
FastInv ==
    ran = {"fast"} => FastDid(observations) /\ (batch # << >> => FastDue(observations, batch))

\* The experiment is a default one, or one of the first n observations has
\* its key.
Shown(obs, n, e) ==
    \/ IsDefault(e)
    \/ \E i \in 1..n : ViewKey(obs[i].exp) = ViewKey(e)

\* A DNS experiment has no family.
Keyed(e) == e.layer = "dns" => e.family = "any"

\* Under the fast and the adaptive policy every key is shown by a default
\* experiment first.
ViewInv ==
    ran \subseteq {"fast", "adaptive"} =>
        /\ \A n \in 1..Len(observations) :
              Shown(observations, n - 1, observations[n].exp) /\ Keyed(observations[n].exp)
        /\ \A i \in 1..Len(batch) :
              Shown(observations, Len(observations), batch[i]) /\ Keyed(batch[i])

\* There is something to record only while a round is being recorded, within
\* the budget, and the run's policy is one of those that ran.
RoundInv ==
    /\ pc # "record" => batch = << >>
    /\ Len(batch) <= budget
    /\ pc = "record" => round < MaxRounds
    /\ policy \in ran

-----------------------------------------------------------------------------
(* Types and rounds. *)

\* Recording a result moves the head of the batch to the end of what is
\* recorded.
LEMMA RecordIs ==
  ASSUME TypeOK, Record
  PROVE  \E o \in Observation :
            /\ o.exp = batch[1]
            /\ observations' \in Seq(Observation)
            /\ Len(observations') = Len(observations) + 1
            /\ \A i \in 1..Len(observations) : observations'[i] = observations[i]
            /\ observations'[Len(observations) + 1] = o
            /\ batch' \in Seq(Experiment)
            /\ Len(batch') = Len(batch) - 1 /\ Len(batch) >= 1
            /\ \A i \in 1..Len(batch') : batch'[i] = batch[i + 1]
<1>1. observations \in Seq(Observation) /\ batch \in Seq(Experiment) /\ batch # << >>
  BY DEF TypeOK, Record
<1>2. Len(batch) >= 1 /\ Head(batch) = batch[1] /\ batch[1] \in Experiment
  BY <1>1
<1>3. PICK r \in Outcomes[Head(batch).layer] :
         observations' = Append(observations,
                                [exp |-> Head(batch), status |-> r.status, marks |-> r.marks])
  BY Zenon DEF Record
<1>4. r.status \in Statuses /\ r.marks \in SUBSET Marks
  <2>1. Head(batch).layer \in Layers
    BY <1>2 DEF Experiment
  <2>2. Outcomes \in [Layers -> SUBSET [status : Statuses, marks : SUBSET Marks]]
    BY SurveyAssumption
  <2> DEFINE R == [status : Statuses, marks : SUBSET Marks]
  <2>3. r \in R
    <3> HIDE DEF R
    <3>1. Outcomes \in [Layers -> SUBSET R]
      BY <2>2 DEF R
    <3> QED
      BY <1>3, <2>1, <3>1
  <2> QED
    BY <2>3
<1> DEFINE o == [exp |-> Head(batch), status |-> r.status, marks |-> r.marks]
<1>5. o \in Observation /\ o.exp = batch[1]
  BY <1>2, <1>4 DEF Observation
<1>6. observations' = Append(observations, o) /\ batch' = Tail(batch)
  BY <1>3 DEF Record
<1> HIDE DEF o
<1>7. /\ observations' \in Seq(Observation)
      /\ Len(observations') = Len(observations) + 1
      /\ \A i \in 1..Len(observations) : observations'[i] = observations[i]
      /\ observations'[Len(observations) + 1] = o
  BY <1>1, <1>5, <1>6
<1>8. /\ batch' \in Seq(Experiment) /\ Len(batch') = Len(batch) - 1
      /\ \A i \in 1..Len(batch') : batch'[i] = batch[i + 1]
  BY <1>1, <1>6
<1> QED
  BY <1>2, <1>5, <1>7, <1>8

\* What a round is proposed.
LEMMA ProposalIs ==
  ASSUME TypeOK
  PROVE  /\ Proper(observations, budget, Proposal)
         /\ Proposal \in Seq(Experiment)
         /\ budget >= 1 => (Done(policy, observations) <=> Proposal = << >>)
<1>1. observations \in Seq(Observation) /\ policy \in PolicyNames /\ budget \in Nat
  BY DEF TypeOK
<1>2. /\ Proper(observations, budget, Proposal)
      /\ budget >= 1 => (Done(policy, observations) <=> Proposal = << >>)
  BY <1>1, ProposeIs DEF Proposal
<1>3. Proposal \in Seq(Experiment)
  BY <1>2, FreshTyped DEF Proper
<1> QED
  BY <1>2, <1>3

\* What the types rest on.
Typed == TypeOK /\ RoundInv

\* It holds at first.
LEMMA TypedInit == Init => Typed
<1> SUFFICES ASSUME Init PROVE Typed
  OBVIOUS
<1>1. << >> \in Seq(Observation) /\ << >> \in Seq(Experiment) /\ Len(<< >>) = 0
  OBVIOUS
<1>2. policy \in PolicyNames /\ budget \in Nat
  BY SurveyAssumption DEF Init
<1>3. TypeOK
  <2>1. 0 \in 0..MaxRounds /\ 0 \in 0..MaxResumes
    BY SurveyAssumption
  <2> QED
    BY <1>1, <1>2, <2>1 DEF TypeOK, Init
<1>4. RoundInv
  BY <1>1, <1>2 DEF RoundInv, Init
<1> QED
  BY <1>3, <1>4 DEF Typed

\* Each step keeps it.
LEMMA TypedStep == Typed /\ [Next]_vars => Typed'
<1> SUFFICES ASSUME Typed, [Next]_vars PROVE Typed'
  OBVIOUS
<1>0. TypeOK /\ RoundInv
  BY DEF Typed
<1>t. /\ observations \in Seq(Observation) /\ batch \in Seq(Experiment) /\ budget \in Nat
      /\ Len(batch) \in Nat /\ Len(batch) <= budget /\ policy \in PolicyNames
  BY <1>0, LenProperties DEF TypeOK, RoundInv
<1>b. MaxRounds \in Nat /\ MaxResumes \in Nat /\ round \in 0..MaxRounds /\ resumes \in 0..MaxResumes
  BY <1>0, SurveyAssumption DEF TypeOK
<1>1. CASE ProposeRound
  <2>1. Proposal \in Seq(Experiment) /\ Len(Proposal) <= budget
    BY <1>0, ProposalIs DEF Proper
  <2>2. batch' = Proposal /\ pc' = "record" /\ round < MaxRounds
    BY <1>1 DEF ProposeRound, MayPropose
  <2>3. UNCHANGED <<policy, observations, budget, round, findings, ran, resumes>>
    BY <1>1 DEF ProposeRound
  <2>4. TypeOK'
    BY <1>0, <2>1, <2>2, <2>3 DEF TypeOK
  <2>5. RoundInv'
    BY <1>0, <2>1, <2>2, <2>3 DEF RoundInv
  <2> QED
    BY <2>4, <2>5 DEF Typed
<1>2. CASE Record
  <2>1. /\ observations' \in Seq(Observation) /\ batch' \in Seq(Experiment)
        /\ Len(batch') = Len(batch) - 1 /\ Len(batch) >= 1
    BY <1>0, <1>2, RecordIs
  <2>2. pc = "record" /\ budget' = budget - 1
    BY <1>2 DEF Record
  <2>3. UNCHANGED <<pc, policy, round, findings, ran, resumes>>
    BY <1>2 DEF Record
  <2>4. budget' \in Nat /\ Len(batch') <= budget'
    BY <1>t, <2>1, <2>2
  <2>5. TypeOK'
    BY <1>0, <2>1, <2>3, <2>4 DEF TypeOK
  <2>6. RoundInv'
    BY <1>0, <2>2, <2>3, <2>4 DEF RoundInv
  <2> QED
    BY <2>5, <2>6 DEF Typed
<1>3. CASE EndRound
  <2>1. pc = "record" /\ pc' = "loop" /\ round' = round + 1 /\ batch = << >>
    BY <1>3 DEF EndRound
  <2>2. UNCHANGED <<policy, observations, batch, budget, findings, ran, resumes>>
    BY <1>3 DEF EndRound
  <2>3. round < MaxRounds
    BY <1>0, <2>1 DEF RoundInv
  <2>4. round' \in 0..MaxRounds
    BY <1>b, <2>1, <2>3
  <2>5. TypeOK'
    BY <1>0, <2>1, <2>2, <2>4 DEF TypeOK
  <2>6. RoundInv'
    BY <1>0, <2>1, <2>2 DEF RoundInv
  <2> QED
    BY <2>5, <2>6 DEF Typed
<1>4. CASE Finish \/ Interrupt
  <2>1. pc = "loop" /\ pc' = "reported" /\ findings' = Inferred(observations)
    BY <1>4 DEF Finish, Interrupt, Report
  <2>2. UNCHANGED <<policy, observations, batch, budget, round, ran, resumes>>
    BY <1>4 DEF Finish, Interrupt, Report
  <2>3. findings' \subseteq Finding
    BY <1>t, <2>1, InferredType
  <2>4. TypeOK'
    BY <1>0, <2>1, <2>2, <2>3 DEF TypeOK
  <2>5. RoundInv'
    BY <1>0, <2>1, <2>2 DEF RoundInv
  <2> QED
    BY <2>4, <2>5 DEF Typed
<1>5. CASE Resume
  <2>1. /\ pc = "reported" /\ pc' = "loop" /\ policy' \in NextPolicies /\ round' = 0
        /\ findings' = {} /\ ran' = ran \cup {policy'} /\ resumes' = resumes + 1
        /\ resumes < MaxResumes
        /\ UNCHANGED <<observations, batch>>
    BY <1>5 DEF Resume
  <2>2. budget' \in Nat
    <3>1. PICK n \in MaxProbesGiven :
             budget' = IF n > Len(observations) THEN n - Len(observations) ELSE 0
      BY <1>5, Zenon DEF Resume
    <3>2. n \in Nat /\ Len(observations) \in Nat
      BY <1>t, SurveyAssumption
    <3> QED
      BY <3>1, <3>2
  <2>3. policy' \in PolicyNames
    BY <2>1, SurveyAssumption
  <2>4. resumes' \in 0..MaxResumes /\ round' \in 0..MaxRounds
    BY <1>b, <2>1
  <2>5. batch = << >>
    BY <1>0, <2>1 DEF RoundInv
  <2>6. TypeOK'
    BY <1>0, <2>1, <2>2, <2>3, <2>4 DEF TypeOK
  <2>7. RoundInv'
    <3>1. batch' = << >> /\ Len(<< >>) = 0
      BY <2>1, <2>5
    <3> QED
      BY <2>1, <2>2, <3>1 DEF RoundInv
  <2> QED
    BY <2>6, <2>7 DEF Typed
<1>6. CASE UNCHANGED vars
  BY <1>0, <1>6 DEF vars, Typed, TypeOK, RoundInv
<1> QED
  BY <1>1, <1>2, <1>3, <1>4, <1>5, <1>6 DEF Next

\* In every reachable state the types are right.
THEOREM SurveyTyped == Spec => []TypeOK
<1>1. Init => Typed
  BY TypedInit
<1>2. Typed /\ [Next]_vars => Typed'
  BY TypedStep
<1>3. Typed => TypeOK
  BY DEF Typed
<1> QED
  BY <1>1, <1>2, <1>3, PTL DEF Spec

\* So it always holds.
LEMMA SurveyTypedAlways == Spec => []Typed
<1>1. Init => Typed
  BY TypedInit
<1>2. Typed /\ [Next]_vars => Typed'
  BY TypedStep
<1> QED
  BY <1>1, <1>2, PTL DEF Spec

\* What a policy proposes is new, without repetitions and within the budget.
THEOREM ProposalsAreNewAlways == Spec => []ProposalsAreNew
<1>1. TypeOK => ProposalsAreNew
  <2> SUFFICES ASSUME TypeOK PROVE ProposalsAreNew
    OBVIOUS
  <2>1. /\ Proposal \in Seq(Fresh(observations)) /\ IsInjective(Proposal)
        /\ Len(Proposal) <= budget
    BY ProposalIs DEF Proper
  <2>2. \A i \in DOMAIN Proposal : Proposal[i] \in Fresh(observations)
    BY <2>1
  <2>3. \A i \in DOMAIN Proposal : ~HasExperiment(observations, Proposal[i])
    BY <2>2 DEF Fresh
  <2> QED
    BY <2>1, <2>3 DEF ProposalsAreNew
<1> QED
  BY <1>1, SurveyTyped, PTL

\* A policy is done exactly when it has nothing to propose.
THEOREM DoneExactlyAlways == Spec => []DoneExactly
<1>1. TypeOK => DoneExactly
  <2> SUFFICES ASSUME TypeOK, budget > 0 PROVE Done(policy, observations) <=> Proposal = << >>
    BY DEF DoneExactly
  <2>1. budget >= 1
    BY DEF TypeOK
  <2> QED
    BY <2>1, ProposalIs
<1> QED
  BY <1>1, SurveyTyped, PTL

-----------------------------------------------------------------------------
(* No experiment is recorded twice. *)

\* Each step keeps the recorded experiments, and those to come, distinct.
LEMMA NoRepeatsStep == Typed /\ NoRepeats /\ [Next]_vars => NoRepeats'
<1> SUFFICES ASSUME Typed, NoRepeats, [Next]_vars PROVE NoRepeats'
  OBVIOUS
<1>0. TypeOK /\ observations \in Seq(Observation) /\ batch \in Seq(Experiment)
  BY DEF Typed, TypeOK
<1>1. CASE ProposeRound
  <2>1. Proper(observations, budget, Proposal)
    BY <1>0, ProposalIs
  <2>2. batch' = Proposal /\ observations' = observations
    BY <1>1 DEF ProposeRound
  <2>3. IsInjective(Proposal) /\ \A i \in 1..Len(Proposal) : Proposal[i] \in Fresh(observations)
    BY <2>1 DEF Proper
  <2>4. \A i \in 1..Len(Proposal) : ~HasExperiment(observations, Proposal[i])
    BY <2>3 DEF Fresh
  <2> QED
    BY <2>2, <2>3, <2>4 DEF NoRepeats
<1>2. CASE Record
  <2> DEFINE n == Len(observations)
             b == Len(batch)
  <2>1. PICK o \in Observation :
            /\ o.exp = batch[1]
            /\ observations' \in Seq(Observation)
            /\ Len(observations') = n + 1
            /\ \A i \in 1..n : observations'[i] = observations[i]
            /\ observations'[n + 1] = o
            /\ batch' \in Seq(Experiment)
            /\ Len(batch') = b - 1 /\ b >= 1
            /\ \A i \in 1..Len(batch') : batch'[i] = batch[i + 1]
    BY <1>0, <1>2, RecordIs
  <2>2. n \in Nat /\ b \in Nat /\ DOMAIN observations = 1..n /\ DOMAIN batch = 1..b
    BY <1>0
  <2>3. /\ \A i \in 1..n : \A j \in 1..n : observations[i].exp = observations[j].exp => i = j
        /\ \A i \in 1..b : \A j \in 1..b : batch[i] = batch[j] => i = j
        /\ \A i \in 1..b : \A j \in 1..n : observations[j].exp # batch[i]
    BY <2>2 DEF NoRepeats, IsInjective, HasExperiment
  <2>4. DOMAIN observations' = 1..(n + 1) /\ DOMAIN batch' = 1..(b - 1)
    BY <2>1
  <2>5. \A i \in 1..(n + 1) : i \in 1..n \/ i = n + 1
    BY <2>2
  <2>6. \A i \in 1..(b - 1) : i + 1 \in 1..b /\ i + 1 # 1
    BY <2>2
  <2>7. 1 \in 1..b
    BY <2>1, <2>2
  <2> HIDE DEF n, b
  <2>8. \A i \in 1..n : observations'[i].exp = observations[i].exp
    BY <2>1
  <2>9. observations'[n + 1].exp = batch[1]
    BY <2>1
  <2>10. \A i \in 1..(n + 1) : \A j \in 1..(n + 1) :
            observations'[i].exp = observations'[j].exp => i = j
    BY <2>3, <2>5, <2>7, <2>8, <2>9
  <2>11. \A i \in 1..(b - 1) : \A j \in 1..(b - 1) : batch'[i] = batch'[j] => i = j
    <3>1. SUFFICES ASSUME NEW i \in 1..(b - 1), NEW j \in 1..(b - 1), batch[i + 1] = batch[j + 1]
                   PROVE  i = j
      BY <2>1
    <3>2. i + 1 = j + 1
      BY <2>3, <2>6, <3>1
    <3> QED
      BY <2>2, <3>2
  <2>12. \A i \in 1..(b - 1) : \A j \in 1..(n + 1) : observations'[j].exp # batch'[i]
    <3>1. \A i \in 1..(b - 1) : batch'[i] = batch[i + 1]
      BY <2>1
    <3> QED
      BY <2>3, <2>5, <2>6, <2>7, <2>8, <2>9, <3>1
  <2> QED
    BY <2>1, <2>4, <2>10, <2>11, <2>12 DEF NoRepeats, IsInjective, HasExperiment
<1>3. CASE EndRound \/ Finish \/ Interrupt \/ Resume \/ UNCHANGED vars
  <2>1. UNCHANGED <<observations, batch>>
    BY <1>3 DEF EndRound, Finish, Interrupt, Report, Resume, vars
  <2> QED
    BY <2>1 DEF NoRepeats
<1> QED
  BY <1>1, <1>2, <1>3 DEF Next

\* So no experiment is recorded twice, or proposed when it is recorded,
\* whichever policies have run one after the other.
THEOREM NoRepeatsAlways == Spec => []NoRepeats
<1>1. Init => NoRepeats
  <2> SUFFICES ASSUME Init PROVE NoRepeats
    OBVIOUS
  <2>1. observations = << >> /\ batch = << >> /\ Len(<< >>) = 0
    BY DEF Init
  <2> QED
    BY <2>1 DEF NoRepeats, IsInjective
<1>2. Typed /\ NoRepeats /\ [Next]_vars => NoRepeats'
  BY NoRepeatsStep
<1> QED
  BY <1>1, <1>2, SurveyTypedAlways, PTL DEF Spec

-----------------------------------------------------------------------------
(* The first observation of a key. *)

\* The default experiments.
LEMMA DefaultsAre ==
  ASSUME NEW f \in Dialled
  PROVE  /\ IsDefault(NewTCP(Target, f)) /\ Keyed(NewTCP(Target, f))
         /\ IsDefault(NewTLS(Target, f, "", "")) /\ Keyed(NewTLS(Target, f, "", ""))
         /\ IsDefault(NewHTTP(Target, f, "")) /\ Keyed(NewHTTP(Target, f, ""))
         /\ IsDefault(NewQUIC(Target, f, "")) /\ Keyed(NewQUIC(Target, f, ""))
         /\ IsDefault(NewUDP(Target, f, 0)) /\ Keyed(NewUDP(Target, f, 0))
         /\ IsDefault(NewDNS(Target, "system")) /\ Keyed(NewDNS(Target, "system"))
<1> USE DEF IsDefault, IsCanonical, Keyed, Normalize, Draft, Dialled
<1>1. IsDefault(NewTCP(Target, f)) /\ Keyed(NewTCP(Target, f))
  BY DEF NewTCP
<1>2. IsDefault(NewTLS(Target, f, "", "")) /\ Keyed(NewTLS(Target, f, "", ""))
  BY DEF NewTLS
<1>3. IsDefault(NewHTTP(Target, f, "")) /\ Keyed(NewHTTP(Target, f, ""))
  BY DEF NewHTTP
<1>4. IsDefault(NewQUIC(Target, f, "")) /\ Keyed(NewQUIC(Target, f, ""))
  BY DEF NewQUIC
<1>5. IsDefault(NewUDP(Target, f, 0)) /\ Keyed(NewUDP(Target, f, 0))
  BY DEF NewUDP
<1>6. IsDefault(NewDNS(Target, "system")) /\ Keyed(NewDNS(Target, "system"))
  BY DEF NewDNS
<1> QED
  BY <1>1, <1>2, <1>3, <1>4, <1>5, <1>6, Zenon

\* The fast policy plans nothing else.
LEMMA FastPlanDefault ==
  ASSUME NEW obs \in Seq(Observation), NEW i \in 1..Len(FastPlan(obs))
  PROVE  IsDefault(FastPlan(obs)[i]) /\ Keyed(FastPlan(obs)[i])
<1> DEFINE s == FastPlan(obs)
           fams == Fams(obs)
<1>1. fams \in Seq(Dialled)
  BY FamiliesAre DEF Fams
<1>d. ASSUME NEW f \in Dialled, NEW e,
             \/ e = NewTCP(Target, f) \/ e = NewTLS(Target, f, "", "")
             \/ e = NewHTTP(Target, f, "") \/ e = NewQUIC(Target, f, "")
             \/ e = NewDNS(Target, "system")
      PROVE  IsDefault(e) /\ Keyed(e)
  BY <1>d, DefaultsAre, Zenon
<1>2. CASE s = <<NewDNS(Target, "system")>>
  <2> DEFINE d == NewDNS(Target, "system")
  <2>1. "ipv4" \in Dialled
    BY DEF Dialled
  <2>2. IsDefault(d) /\ Keyed(d)
    BY <2>1, <1>d, Zenon
  <2> HIDE DEF d
  <2>3. i = 1 /\ s[1] = d
    <3>1. s = <<d>>
      BY <1>2 DEF d
    <3> HIDE DEF s
    <3>2. Len(s) = 1 /\ s[1] = d
      BY <3>1
    <3>3. i \in 1..1
      BY <3>2 DEF s
    <3> QED
      BY <3>2, <3>3
  <2> QED
    BY <2>2, <2>3, Zenon
<1>3. CASE fams # << >> /\ FastStep(obs, s, i)
  <2>1. 1 \in 1..Len(fams)
    <3> HIDE DEF fams
    <3>1. fams # << >>
      BY <1>3, Zenon
    <3> QED
      BY <1>1, <3>1
  <2>2. PICK k \in 1..Len(fams) :
           \/ s[i] = NewTCP(Target, fams[k]) \/ s[i] = NewTLS(Target, fams[k], "", "")
           \/ s[i] = NewHTTP(Target, fams[k], "") \/ s[i] = NewQUIC(Target, fams[k], "")
    BY <1>3, <2>1, Zenon DEF FastStep, TCPInTurn, TLSNext, HTTPNext
  <2>3. fams[k] \in Dialled
    <3> HIDE DEF fams
    <3> QED
      BY <1>1
  <2> QED
    BY <1>d, <2>2, <2>3, Zenon
<1>4. s # << >>
  <2> HIDE DEF s
  <2>1. i \in 1..Len(s)
    BY DEF s
  <2>2. s = << >> => Len(s) = 0
    OBVIOUS
  <2> QED
    BY <2>1, <2>2
<1> QED
  BY <1>2, <1>3, <1>4, FastPlanIs, Zenon

\* A layer that was seen on a family has shown its key.
LEMMA SeenShown ==
  ASSUME NEW obs \in Seq(Observation), NEW e, NEW f, e.family = f, f # "", f # "any",
         Seen(Latest(obs, e.layer, f))
  PROVE  Shown(obs, Len(obs), e)
<1>1. PICK i \in 1..Len(obs) : At(obs, i, e.layer, f)
  BY LatestSeen
<1>2. ViewKey(obs[i].exp) = ViewKey(e)
  BY <1>1 DEF ViewKey, At
<1> QED
  BY <1>2 DEF Shown

\* Where the DNS experiments have no family, what the adaptive policy follows
\* up has shown its key, unless it is a default experiment.
LEMMA FollowUpsShown ==
  ASSUME NEW obs \in Seq(Observation), \A n \in 1..Len(obs) : Keyed(obs[n].exp),
         NEW e \in FollowUps(obs)
  PROVE  Shown(obs, Len(obs), e) /\ Keyed(e)
<1> DEFINE fams == Fams(obs)
           tcp == [f \in ToSet(fams) |-> Latest(obs, "tcp", f)]
           reached == \E i \in DOMAIN fams :
                         /\ Passed(tcp[fams[i]])
                         /\ \A j \in 1..i : Seen(tcp[fams[j]])
           down == fams # << >> /\ \A f \in ToSet(fams) : Seen(tcp[f]) /\ ~Passed(tcp[f])
<1>1. fams \in Seq(Dialled) /\ Len(fams) <= 2
  BY FamiliesAre DEF Fams
<1>2. /\ ToSet(fams) \subseteq Dialled /\ DOMAIN fams = 1..Len(fams)
      /\ fams # << >> => fams[1] \in Dialled /\ fams[1] \in ToSet(fams)
      /\ Len(fams) > 1 => fams[2] \in Dialled
  <2> HIDE DEF fams
  <2> QED
    BY <1>1 DEF ToSet
<1>3. \/ Seen(Latest(obs, "dns", "")) /\ e = NewDNS(Target, "public")
      \/ e \in TCPFollowUp(obs, fams)
      \/ down /\ e = NewTCP(WithPort(Target, 80), fams[1])
      \/ e \in TLSFollowUps(obs, fams)
      \/ reached /\ e \in UDPFollowUp(obs, fams)
      \/ e \in HTTPFollowUps(obs, fams)
  BY Zenon DEF FollowUps, Fams
<1>4. down => fams # << >> /\ Seen(Latest(obs, "tcp", fams[1]))
  <2>1. \A f \in ToSet(fams) : tcp[f] = Latest(obs, "tcp", f)
    BY Zenon
  <2> HIDE DEF fams, tcp
  <2> QED
    BY <1>2, <2>1, Zenon
<1>5. reached => fams # << >>
  <2>1. reached => DOMAIN fams # {}
    BY Zenon
  <2> HIDE DEF fams, reached
  <2> QED
    BY <1>2, <2>1
<1> HIDE DEF fams, tcp, reached, down
<1>6. ASSUME NEW f \in Dialled, e.family = f, e.layer # "dns", Seen(Latest(obs, e.layer, f))
      PROVE  Shown(obs, Len(obs), e) /\ Keyed(e)
  <2>1. f # "" /\ f # "any"
    BY DEF Dialled
  <2> QED
    BY <1>6, <2>1, SeenShown DEF Keyed
<1>7. ASSUME IsDefault(e) PROVE Shown(obs, Len(obs), e)
  BY <1>7 DEF Shown
<1>8. CASE Seen(Latest(obs, "dns", "")) /\ e = NewDNS(Target, "public")
  <2>1. e.layer = "dns" /\ e.family = "any"
    BY <1>8, DNSFields
  <2>2. PICK i \in 1..Len(obs) : At(obs, i, "dns", "")
    BY <1>8, LatestSeen
  <2>3. obs[i].exp.layer = "dns" /\ obs[i].exp.family = "any"
    BY <2>2 DEF Keyed, At
  <2>4. ViewKey(obs[i].exp) = ViewKey(e)
    BY <2>1, <2>3 DEF ViewKey
  <2> QED
    BY <2>1, <2>4 DEF Shown, Keyed
<1>9. CASE e \in TCPFollowUp(obs, fams)
  <2>1. Len(fams) > 1 /\ e = NewTCP(Target, fams[2])
    BY <1>9, Zenon DEF TCPFollowUp
  <2> QED
    BY <1>2, <1>7, <2>1, DefaultsAre, Zenon
<1>10. CASE down /\ e = NewTCP(WithPort(Target, 80), fams[1])
  <2>1. fams[1] \in Dialled /\ Seen(Latest(obs, "tcp", fams[1]))
    BY <1>2, <1>4, <1>10
  <2>2. e.layer = "tcp" /\ e.family = fams[1]
    BY <1>10, <2>1, ConstructorFields
  <2>3. e.layer # "dns" /\ Seen(Latest(obs, e.layer, fams[1]))
    BY <2>1, <2>2
  <2> QED
    BY <1>6, <2>1, <2>2, <2>3
<1>11. CASE e \in TLSFollowUps(obs, fams)
  <2>1. PICK f \in ToSet(fams) :
           /\ Seen(Latest(obs, "tls", f))
           /\ \/ e = NewTLS(Target, f, "", "none")
              \/ e = NewTLS(Target, f, "http/1.1", "")
              \/ e = NewTLS(Target, OtherFamily(f), "", "")
    BY <1>11, Zenon DEF TLSFollowUps
  <2>2. f \in Dialled /\ OtherFamily(f) \in Dialled
    BY <1>2 DEF OtherFamily, Dialled
  <2>3. CASE e = NewTLS(Target, OtherFamily(f), "", "")
    BY <1>7, <2>2, <2>3, DefaultsAre, Zenon
  <2>4. CASE e = NewTLS(Target, f, "", "none") \/ e = NewTLS(Target, f, "http/1.1", "")
    <3>1. /\ NewTLS(Target, f, "", "none").layer = "tls"
          /\ NewTLS(Target, f, "", "none").family = f
          /\ NewTLS(Target, f, "http/1.1", "").layer = "tls"
          /\ NewTLS(Target, f, "http/1.1", "").family = f
      BY <2>2 DEF NewTLS, Normalize, Draft, Dialled
    <3>0. e.layer = "tls" /\ e.family = f
      BY <2>4, <3>1, Zenon
    <3>2. e.layer # "dns" /\ Seen(Latest(obs, e.layer, f))
      BY <2>1, <3>0
    <3> QED
      BY <1>6, <2>2, <3>0, <3>2
  <2> QED
    BY <2>1, <2>3, <2>4
<1>12. CASE reached /\ e \in UDPFollowUp(obs, fams)
  <2>1. e = NewUDP(Target, fams[1], 0)
    BY <1>12, Zenon DEF UDPFollowUp
  <2> QED
    BY <1>2, <1>5, <1>7, <1>12, <2>1, DefaultsAre, Zenon
<1>13. CASE e \in HTTPFollowUps(obs, fams)
  <2>1. PICK f \in ToSet(fams) : Seen(Latest(obs, "http", f)) /\ e = NewHTTP(Target, f, "http/1.1")
    BY <1>13, Zenon DEF HTTPFollowUps
  <2>2. f \in Dialled
    BY <1>2
  <2>3. e.layer = "http" /\ e.family = f
    BY <2>1, <2>2 DEF NewHTTP, Normalize, Draft, Dialled
  <2>4. e.layer # "dns" /\ Seen(Latest(obs, e.layer, f))
    BY <2>1, <2>3
  <2> QED
    BY <1>6, <2>2, <2>3, <2>4
<1> QED
  BY <1>3, <1>8, <1>9, <1>10, <1>11, <1>12, <1>13

\* What the fast policy proposes is of its plan: each experiment after those
\* that come before it there.
FromFastPlan(obs, out, p) ==
    \E i \in 1..Len(FastPlan(obs)) :
        /\ out[p] = FastPlan(obs)[i]
        /\ \A j \in 1..(i - 1) : Known(obs, out, p - 1, FastPlan(obs)[j])

\* Whatever is taken of a plan is in it.
LEMMA TakenOf ==
  ASSUME NEW obs, NEW most \in Nat, NEW S, NEW exps \in Seq(S)
  PROVE  \A p \in 1..Len(DedupeAndCap(obs, exps, most)) :
            \E i \in 1..Len(exps) :
               /\ DedupeAndCap(obs, exps, most)[p] = exps[i]
               /\ \A j \in 1..(i - 1) : Known(obs, DedupeAndCap(obs, exps, most), p - 1, exps[j])
<1>1. Len(exps) \in Nat /\ DOMAIN exps = 1..Len(exps)
  OBVIOUS
<1>2. Selects(DedupeAndCap(obs, exps, most), obs, exps, most, Len(exps))
  BY <1>1, DedupeSelects
<1> QED
  BY <1>2, Zenon DEF Selects

\* What the adaptive policy proposes is either all of the fast plan or all
\* follow-ups.
LEMMA AdaptiveProposalFrom ==
  ASSUME TypeOK, policy = "adaptive"
  PROVE  \/ \A p \in 1..Len(Proposal) :
               \E i \in 1..Len(FastPlan(observations)) : Proposal[p] = FastPlan(observations)[i]
         \/ \A p \in 1..Len(Proposal) : Proposal[p] \in FollowUps(observations)
<1>1. observations \in Seq(Observation) /\ budget \in Nat
  BY DEF TypeOK
<1> DEFINE plan == FastPlan(observations)
           fast == DedupeAndCap(observations, plan, budget)
           cs   == Candidates(observations)
           more == DedupeAndCap(observations, TopTwo(cs), budget)
<1>2. plan \in Seq(Fresh(observations))
  BY <1>1, FastPlanIs
<1>3. \A q \in 1..Len(fast) : FromFastPlan(observations, fast, q)
  BY <1>1, <1>2, TakenOf, Zenon DEF FromFastPlan
<1>4. Proposal = IF fast # << >> THEN fast ELSE more
  BY Zenon DEF Proposal, Propose, AdaptiveProposal
<1>5. CASE Proposal = fast
  BY <1>3, <1>5, Zenon DEF FromFastPlan
<1>6. CASE Proposal = more
  <2>1. cs \subseteq Experiment /\ cs \subseteq FollowUps(observations)
    <3>1. cs \subseteq FollowUps(observations)
      BY Zenon DEF Candidates
    <3> QED
      BY <1>1, <3>1, FollowUpsType
  <2> DEFINE two == TopTwo(cs)
  <2>2. two \in Seq(cs)
    BY <2>1, TopTwoIs
  <2> HIDE DEF two, cs
  <2>3. \A q \in 1..Len(more) : \E i \in 1..Len(two) : more[q] = two[i]
    <3>1. \A q \in 1..Len(DedupeAndCap(observations, two, budget)) :
             \E i \in 1..Len(two) :
                /\ DedupeAndCap(observations, two, budget)[q] = two[i]
                /\ \A j \in 1..(i - 1) :
                      Known(observations, DedupeAndCap(observations, two, budget), q - 1, two[j])
      BY <1>1, <2>2, TakenOf
    <3> QED
      BY <3>1, Zenon DEF two
  <2>4. \A i \in 1..Len(two) : two[i] \in cs
    BY <2>2
  <2>5. \A q \in 1..Len(more) : more[q] \in FollowUps(observations)
    BY <2>1, <2>3, <2>4, Zenon
  <2> QED
    BY <1>6, <2>5, Zenon
<1> QED
  BY <1>4, <1>5, <1>6

\* What the fast policy proposes is of its plan, in its order.
LEMMA FastProposalFrom ==
  ASSUME TypeOK, policy = "fast", NEW p \in 1..Len(Proposal)
  PROVE  FromFastPlan(observations, Proposal, p)
<1>1. observations \in Seq(Observation) /\ budget \in Nat
  BY DEF TypeOK
<1> DEFINE plan == FastPlan(observations)
           fast == DedupeAndCap(observations, plan, budget)
<1>2. plan \in Seq(Fresh(observations))
  BY <1>1, FastPlanIs
<1>3. \A q \in 1..Len(fast) : FromFastPlan(observations, fast, q)
  BY <1>1, <1>2, TakenOf, Zenon DEF FromFastPlan
<1>4. Proposal = fast
  BY DEF Proposal, Propose, Plan
<1> QED
  BY <1>3, <1>4

\* A key that was shown stays so.
LEMMA ShownGrows ==
  ASSUME NEW s, NEW t, NEW n \in Nat, NEW m \in Nat, n <= m, \A i \in 1..n : t[i] = s[i],
         NEW e, Shown(s, n, e)
  PROVE  Shown(t, m, e)
<1>1. \A i \in 1..n : i \in 1..m
  OBVIOUS
<1> QED
  BY <1>1 DEF Shown

\* Each step keeps the default experiments first.
LEMMA ViewStep == Typed /\ ViewInv /\ [Next]_vars => ViewInv'
<1> SUFFICES ASSUME Typed, ViewInv, [Next]_vars, ran' \subseteq {"fast", "adaptive"}
             PROVE  /\ \A n \in 1..Len(observations') :
                          /\ Shown(observations', n - 1, observations'[n].exp)
                          /\ Keyed(observations'[n].exp)
                    /\ \A i \in 1..Len(batch') :
                          Shown(observations', Len(observations'), batch'[i]) /\ Keyed(batch'[i])
  BY DEF ViewInv
<1>0. TypeOK /\ observations \in Seq(Observation) /\ batch \in Seq(Experiment) /\ policy \in ran
  BY DEF Typed, TypeOK, RoundInv
<1>r. ran \subseteq {"fast", "adaptive"}
  <2>1. ran \subseteq ran'
    BY DEF Next, vars, ProposeRound, Record, EndRound, Finish, Interrupt, Report, Resume
  <2> QED
    BY <2>1
<1>v. /\ \A n \in 1..Len(observations) :
            Shown(observations, n - 1, observations[n].exp) /\ Keyed(observations[n].exp)
      /\ \A i \in 1..Len(batch) :
            Shown(observations, Len(observations), batch[i]) /\ Keyed(batch[i])
  BY <1>r DEF ViewInv
<1>1. CASE ProposeRound
  <2>1. batch' = Proposal /\ observations' = observations
    BY <1>1 DEF ProposeRound
  <2>2. policy = "fast" \/ policy = "adaptive"
    BY <1>0, <1>r
  <2>3. ASSUME NEW p \in 1..Len(Proposal)
        PROVE  Shown(observations, Len(observations), Proposal[p]) /\ Keyed(Proposal[p])
    <3>1. \/ \E i \in 1..Len(FastPlan(observations)) : Proposal[p] = FastPlan(observations)[i]
          \/ Proposal[p] \in FollowUps(observations)
      <4>1. FromFastPlan(observations, Proposal, p) =>
               \E i \in 1..Len(FastPlan(observations)) : Proposal[p] = FastPlan(observations)[i]
        BY Zenon DEF FromFastPlan
      <4> QED
        BY <1>0, <2>2, <4>1, FastProposalFrom, AdaptiveProposalFrom
    <3>2. CASE \E i \in 1..Len(FastPlan(observations)) : Proposal[p] = FastPlan(observations)[i]
      <4>1. IsDefault(Proposal[p]) /\ Keyed(Proposal[p])
        BY <1>0, <3>2, FastPlanDefault, Zenon
      <4> QED
        BY <4>1 DEF Shown
    <3>3. CASE Proposal[p] \in FollowUps(observations)
      BY <1>0, <1>v, <3>3, FollowUpsShown, Zenon
    <3> QED
      BY <3>1, <3>2, <3>3
  <2> QED
    BY <1>v, <2>1, <2>3
<1>2. CASE Record
  <2> DEFINE n == Len(observations)
             b == Len(batch)
  <2>1. PICK o \in Observation :
            /\ o.exp = batch[1]
            /\ observations' \in Seq(Observation)
            /\ Len(observations') = n + 1
            /\ \A i \in 1..n : observations'[i] = observations[i]
            /\ observations'[n + 1] = o
            /\ batch' \in Seq(Experiment)
            /\ Len(batch') = b - 1 /\ b >= 1
            /\ \A i \in 1..Len(batch') : batch'[i] = batch[i + 1]
    BY <1>0, <1>2, RecordIs
  <2>2. n \in Nat /\ b \in Nat
    BY <1>0
  <2> HIDE DEF n, b
  <2>3. ASSUME NEW e, Shown(observations, n, e)
        PROVE  Shown(observations', n, e) /\ Shown(observations', n + 1, e)
    <3>1. n + 1 \in Nat /\ n <= n + 1 /\ n <= n
      BY <2>2
    <3>2. \A i \in 1..n : observations'[i] = observations[i]
      BY <2>1
    <3>3. Shown(observations', n, e)
      BY <2>2, <2>3, <3>1, <3>2, ShownGrows
    <3>4. Shown(observations', n + 1, e)
      BY <2>2, <2>3, <3>1, <3>2, ShownGrows
    <3> QED
      BY <3>3, <3>4
  <2>4. ASSUME NEW k \in 1..n
        PROVE  Shown(observations', k - 1, observations'[k].exp) /\ Keyed(observations'[k].exp)
    <3>1. k - 1 \in Nat /\ \A i \in 1..(k - 1) : observations'[i] = observations[i]
      BY <2>1, <2>2
    <3>2. Shown(observations, k - 1, observations[k].exp) /\ Keyed(observations[k].exp)
      BY <1>v DEF n
    <3>3. observations'[k] = observations[k]
      BY <2>1
    <3> QED
      BY <3>1, <3>2, <3>3, ShownGrows
  <2>5. Shown(observations, n, batch[1]) /\ Keyed(batch[1])
    <3>1. 1 \in 1..b
      BY <2>1, <2>2
    <3> QED
      BY <1>v, <3>1 DEF n, b
  <2>6. ASSUME NEW k \in 1..(n + 1)
        PROVE  Shown(observations', k - 1, observations'[k].exp) /\ Keyed(observations'[k].exp)
    <3>1. CASE k = n + 1
      <4>1. k - 1 = n /\ observations'[k].exp = batch[1]
        BY <2>1, <2>2, <3>1
      <4> QED
        BY <2>3, <2>5, <4>1
    <3>2. CASE k # n + 1
      <4>1. k \in 1..n
        BY <2>2, <3>2
      <4> QED
        BY <2>4, <4>1
    <3> QED
      BY <3>1, <3>2
  <2>7. ASSUME NEW i \in 1..(b - 1)
        PROVE  Shown(observations', n + 1, batch'[i]) /\ Keyed(batch'[i])
    <3>1. i + 1 \in 1..b /\ batch'[i] = batch[i + 1]
      BY <2>1, <2>2
    <3>2. Shown(observations, n, batch[i + 1]) /\ Keyed(batch[i + 1])
      BY <1>v, <3>1 DEF n, b
    <3> QED
      BY <2>3, <3>1, <3>2
  <2> QED
    BY <2>1, <2>6, <2>7
<1>3. CASE EndRound \/ Finish \/ Interrupt \/ Resume \/ UNCHANGED vars
  <2>1. UNCHANGED <<observations, batch>>
    BY <1>3 DEF EndRound, Finish, Interrupt, Report, Resume, vars
  <2> QED
    BY <1>v, <2>1
<1> QED
  BY <1>1, <1>2, <1>3 DEF Next

\* Whatever the outcomes, the budgets and the resumptions, a report's first
\* observation of a layer and family is that of the default experiment.
THEOREM ViewsAreDefaultAlways == Spec => []ViewsAreDefault
<1>1. Init => ViewInv
  <2> SUFFICES ASSUME Init PROVE ViewInv
    OBVIOUS
  <2>1. observations = << >> /\ batch = << >> /\ Len(<< >>) = 0
    BY DEF Init
  <2> QED
    BY <2>1 DEF ViewInv
<1>2. Typed /\ ViewInv /\ [Next]_vars => ViewInv'
  BY ViewStep
<1>3. Typed /\ ViewInv => ViewsAreDefault
  <2> SUFFICES ASSUME Typed, ViewInv, ran \subseteq {"fast", "adaptive"},
                      NEW n \in DOMAIN observations
               PROVE  \/ IsDefault(observations[n].exp)
                      \/ \E i \in 1..(n - 1) :
                            ViewKey(observations[i].exp) = ViewKey(observations[n].exp)
    BY Zenon DEF ViewsAreDefault, IsDefault
  <2>1. n \in 1..Len(observations)
    BY DEF Typed, TypeOK
  <2>2. Shown(observations, n - 1, observations[n].exp)
    BY <2>1 DEF ViewInv
  <2> QED
    BY <2>2, Zenon DEF Shown
<1> QED
  BY <1>1, <1>2, <1>3, SurveyTypedAlways, PTL DEF Spec

-----------------------------------------------------------------------------
(* The path of the fast policy. *)

\* The families that the first observation resolved, each once.
LEMMA FirstFamsAre ==
  ASSUME NEW obs
  PROVE  /\ FirstFams(obs) \in Seq(Dialled)
         /\ \A k \in 1..Len(FirstFams(obs)) : FirstFams(obs)[k] \in Dialled
         /\ FirstFams(obs) # << >> => 1 \in 1..Len(FirstFams(obs))
         /\ \A j, k \in 1..Len(FirstFams(obs)) : FirstFams(obs)[j] = FirstFams(obs)[k] => j = k
<1> DEFINE fams == FirstFams(obs)
<1>1. fams \in Seq(Dialled) /\ IsInjective(fams)
  BY FamiliesAre DEF FirstFams
<1> HIDE DEF fams
<1>2. DOMAIN fams = 1..Len(fams) /\ Len(fams) \in Nat
  BY <1>1
<1>3. \A k \in 1..Len(fams) : fams[k] \in Dialled
  BY <1>1
<1>4. fams # << >> => 1 \in 1..Len(fams)
  BY <1>1
<1>5. \A j, k \in 1..Len(fams) : fams[j] = fams[k] => j = k
  BY <1>1, <1>2 DEF IsInjective
<1> QED
  BY <1>1, <1>3, <1>4, <1>5 DEF fams

\* The i-th observation, of a family f, is the one of its layer that the fast
\* policy asked for.
DidOn(obs, i, f) ==
    LET fams == FirstFams(obs)
    IN  \/ obs[i].exp = NewQUIC(Target, f, "") /\ f = fams[1]
        \/ \E k \in 1..Len(fams) :
              /\ f = fams[k] /\ OnPath(obs, i - 1, fams, k) /\ Target.https
              /\ obs[i].exp = NewTLS(Target, f, "", "")
        \/ \E k \in 1..Len(fams) :
              /\ f = fams[k] /\ OnPath(obs, i - 1, fams, k)
              /\ Target.https => \E h \in 1..(i - 1) :
                    obs[h].exp = NewTLS(Target, f, "", "") /\ Passed(obs[h])
              /\ obs[i].exp = NewHTTP(Target, f, "")
        \/ \E k \in 1..Len(fams) :
              /\ f = fams[k] /\ \A j \in 1..(k - 1) : Tried(obs, i - 1, fams[j])
              /\ obs[i].exp = NewTCP(Target, f)

\* Every observation is that of DNS or such a step.
LEMMA DidIs ==
  ASSUME NEW obs \in Seq(Observation), FastDid(obs), NEW i \in 1..Len(obs)
  PROVE  \/ i = 1 /\ obs[1].exp = NewDNS(Target, "system")
         \/ i >= 2 /\ Passed(obs[1]) /\ \E f \in Dialled : DidOn(obs, i, f)
<1> DEFINE fams == FirstFams(obs)
<1>1. CASE i = 1
  <2>1. obs # << >>
    BY <1>1
  <2> QED
    BY <1>1, <2>1 DEF FastDid
<1>2. CASE i # 1
  <2>1. i \in 2..Len(obs) /\ i >= 2
    BY <1>2
  <2>2. /\ Passed(obs[1]) /\ fams # << >>
        /\ \/ MayFollow(obs, i - 1, fams, obs[i].exp)
           \/ \E k \in 1..Len(fams) :
                 /\ obs[i].exp = NewTCP(Target, fams[k])
                 /\ \A j \in 1..(k - 1) : Tried(obs, i - 1, fams[j])
    BY <2>1, Zenon DEF FastDid
  <2>3. 1 \in 1..Len(fams) /\ \A k \in 1..Len(fams) : fams[k] \in Dialled
    BY <2>2, FirstFamsAre
  <2>4. CASE \E k \in 1..Len(fams) :
                 /\ obs[i].exp = NewTCP(Target, fams[k])
                 /\ \A j \in 1..(k - 1) : Tried(obs, i - 1, fams[j])
    <3>1. PICK k \in 1..Len(fams) :
                 /\ obs[i].exp = NewTCP(Target, fams[k])
                 /\ \A j \in 1..(k - 1) : Tried(obs, i - 1, fams[j])
      BY <2>4
    <3>2. DidOn(obs, i, fams[k])
      BY <3>1, Zenon DEF DidOn
    <3> QED
      BY <2>1, <2>2, <2>3, <3>2, Zenon
  <2>5. CASE obs[i].exp = NewQUIC(Target, fams[1], "")
    <3>1. DidOn(obs, i, fams[1])
      BY <2>5, Zenon DEF DidOn
    <3> QED
      BY <2>1, <2>2, <2>3, <3>1, Zenon
  <2>6. CASE \E k \in 1..Len(fams) :
                OnPath(obs, i - 1, fams, k) /\ Target.https
                /\ obs[i].exp = NewTLS(Target, fams[k], "", "")
    <3>1. PICK k \in 1..Len(fams) :
                OnPath(obs, i - 1, fams, k) /\ Target.https
                /\ obs[i].exp = NewTLS(Target, fams[k], "", "")
      BY <2>6
    <3>2. DidOn(obs, i, fams[k])
      BY <3>1, Zenon DEF DidOn
    <3> QED
      BY <2>1, <2>2, <2>3, <3>2, Zenon
  <2>7. CASE \E k \in 1..Len(fams) :
                /\ OnPath(obs, i - 1, fams, k) /\ obs[i].exp = NewHTTP(Target, fams[k], "")
                /\ Target.https => \E h \in 1..(i - 1) :
                      obs[h].exp = NewTLS(Target, fams[k], "", "") /\ Passed(obs[h])
    <3>1. PICK k \in 1..Len(fams) :
                /\ OnPath(obs, i - 1, fams, k) /\ obs[i].exp = NewHTTP(Target, fams[k], "")
                /\ Target.https => \E h \in 1..(i - 1) :
                      obs[h].exp = NewTLS(Target, fams[k], "", "") /\ Passed(obs[h])
      BY <2>7
    <3>2. DidOn(obs, i, fams[k])
      BY <3>1, Zenon DEF DidOn
    <3> QED
      BY <2>1, <2>2, <2>3, <3>2, Zenon
  <2> QED
    BY <2>2, <2>4, <2>5, <2>6, <2>7, Zenon DEF MayFollow
<1> QED
  BY <1>1, <1>2

\* The layers of these.
LEMMA DidLayer ==
  ASSUME NEW obs \in Seq(Observation), FastDid(obs), NEW i \in 1..Len(obs)
  PROVE  /\ obs[i].exp.layer = "dns" => i = 1
         /\ \A f \in Dialled : DidOn(obs, i, f) =>
               obs[i].exp.layer # "dns" /\ obs[i].exp.family = f /\ obs[i].exp.target = Target
         /\ obs[i].exp.layer = "tcp" => \E f \in Dialled :
               DidOn(obs, i, f) /\ obs[i].exp = NewTCP(Target, f)
         /\ obs[i].exp.layer = "tls" => \E f \in Dialled :
               DidOn(obs, i, f) /\ obs[i].exp = NewTLS(Target, f, "", "")
         /\ obs[i].exp.layer = "http" => \E f \in Dialled :
               DidOn(obs, i, f) /\ obs[i].exp = NewHTTP(Target, f, "")
         /\ obs[i].exp.layer = "quic" => \E f \in Dialled :
               /\ DidOn(obs, i, f) /\ obs[i].exp = NewQUIC(Target, f, "")
               /\ f = FirstFams(obs)[1]
         /\ i # 1 => obs[i].exp.layer \in {"tcp", "tls", "http", "quic"}
<1>1. \/ i = 1 /\ obs[1].exp = NewDNS(Target, "system")
      \/ i >= 2 /\ Passed(obs[1]) /\ \E f \in Dialled : DidOn(obs, i, f)
  BY DidIs
<1>2. NewDNS(Target, "system").layer = "dns"
  BY DNSFields
<1>3. ASSUME NEW f \in Dialled, DidOn(obs, i, f)
      PROVE  /\ obs[i].exp.family = f /\ obs[i].exp.target = Target
             /\ \/ obs[i].exp.layer = "tcp" /\ obs[i].exp = NewTCP(Target, f)
                \/ obs[i].exp.layer = "tls" /\ obs[i].exp = NewTLS(Target, f, "", "")
                \/ obs[i].exp.layer = "http" /\ obs[i].exp = NewHTTP(Target, f, "")
                \/ obs[i].exp.layer = "quic" /\ obs[i].exp = NewQUIC(Target, f, "")
                   /\ f = FirstFams(obs)[1]
  <2>1. \/ obs[i].exp = NewTCP(Target, f)
        \/ obs[i].exp = NewTLS(Target, f, "", "")
        \/ obs[i].exp = NewHTTP(Target, f, "")
        \/ obs[i].exp = NewQUIC(Target, f, "") /\ f = FirstFams(obs)[1]
    BY <1>3, Zenon DEF DidOn
  <2>2. NewTCP(Target, f).layer = "tcp" /\ NewTCP(Target, f).family = f
        /\ NewTCP(Target, f).target = Target
    BY ConstructorFields, SMTT(30)
  <2>3. NewTLS(Target, f, "", "").layer = "tls" /\ NewTLS(Target, f, "", "").family = f
        /\ NewTLS(Target, f, "", "").target = Target
    BY DEF NewTLS, Normalize, Draft, Dialled
  <2>4. NewHTTP(Target, f, "").layer = "http" /\ NewHTTP(Target, f, "").family = f
        /\ NewHTTP(Target, f, "").target = Target
    BY DEF NewHTTP, Normalize, Draft, Dialled
  <2>5. NewQUIC(Target, f, "").layer = "quic" /\ NewQUIC(Target, f, "").family = f
        /\ NewQUIC(Target, f, "").target = Target
    BY DEF NewQUIC, Normalize, Draft, Dialled
  <2> QED
    BY <2>1, <2>2, <2>3, <2>4, <2>5, Zenon
<1>4. CASE i = 1 /\ obs[1].exp = NewDNS(Target, "system")
  <2>1. obs[i].exp.layer = "dns"
    BY <1>2, <1>4, Zenon
  <2>2. \A f \in Dialled : ~DidOn(obs, i, f)
    BY <1>3, <2>1
  <2> QED
    BY <1>4, <2>1, <2>2
<1>5. CASE i >= 2 /\ \E f \in Dialled : DidOn(obs, i, f)
  <2>1. PICK f \in Dialled : DidOn(obs, i, f)
    BY <1>5
  <2>2. \A g \in Dialled : DidOn(obs, i, g) => obs[i].exp.family = g
    BY <1>3
  <2>3. i # 1
    BY <1>5
  <2> QED
    BY <1>3, <2>1, <2>2, <2>3
<1> QED
  BY <1>1, <1>4, <1>5

\* What the DNS step resolved stays what the later steps go by.
LEMMA FastFams ==
  ASSUME NEW obs \in Seq(Observation), FastDid(obs), obs # << >>
  PROVE  /\ Latest(obs, "dns", "") = obs[1] /\ Seen(Latest(obs, "dns", ""))
         /\ Fams(obs) = FirstFams(obs)
<1>1. 1 \in 1..Len(obs)
  OBVIOUS
<1>2. obs[1].exp.layer = "dns"
  <2>1. obs[1].exp = NewDNS(Target, "system")
    BY DEF FastDid
  <2>2. NewDNS(Target, "system").layer = "dns"
    BY DNSFields
  <2> QED
    BY <2>1, <2>2
<1>3. Of(obs, "dns", "") = {1}
  <2>1. 1 \in Of(obs, "dns", "")
    BY <1>1, <1>2 DEF Of
  <2>2. ASSUME NEW i \in Of(obs, "dns", "") PROVE i = 1
    <3>1. i \in 1..Len(obs) /\ obs[i].exp.layer = "dns"
      BY DEF Of
    <3> QED
      BY <3>1, DidLayer
  <2> QED
    BY <2>1, <2>2
<1>4. Latest(obs, "dns", "") = obs[1]
  BY <1>3, LatestIs
<1>5. Seen(obs[1])
  BY <1>1, SeenRecorded
<1> QED
  BY <1>4, <1>5 DEF Fams, FirstFams

\* What was seen of a layer on a family is the default experiment there.
LEMMA SeenIsDefault ==
  ASSUME NEW obs \in Seq(Observation), FastDid(obs), NEW f \in Dialled
  PROVE  /\ Seen(Latest(obs, "tcp", f)) => \E i \in 1..Len(obs) :
               Latest(obs, "tcp", f) = obs[i] /\ obs[i].exp = NewTCP(Target, f)
         /\ Seen(Latest(obs, "tls", f)) => \E i \in 1..Len(obs) :
               Latest(obs, "tls", f) = obs[i] /\ obs[i].exp = NewTLS(Target, f, "", "")
<1>0. f # ""
  BY DEF Dialled
<1>1. ASSUME Seen(Latest(obs, "tcp", f))
      PROVE  \E i \in 1..Len(obs) :
                Latest(obs, "tcp", f) = obs[i] /\ obs[i].exp = NewTCP(Target, f)
  <2>1. PICK i \in 1..Len(obs) : Latest(obs, "tcp", f) = obs[i] /\ At(obs, i, "tcp", f)
    BY <1>1, LatestSeen
  <2>2. obs[i].exp.layer = "tcp" /\ obs[i].exp.family = f
    BY <1>0, <2>1 DEF At
  <2>3. PICK g \in Dialled : DidOn(obs, i, g) /\ obs[i].exp = NewTCP(Target, g)
    BY <2>2, DidLayer
  <2>4. g = f
    BY <2>2, <2>3, DidLayer
  <2> QED
    BY <2>1, <2>3, <2>4
<1>2. ASSUME Seen(Latest(obs, "tls", f))
      PROVE  \E i \in 1..Len(obs) :
                Latest(obs, "tls", f) = obs[i] /\ obs[i].exp = NewTLS(Target, f, "", "")
  <2>1. PICK i \in 1..Len(obs) : Latest(obs, "tls", f) = obs[i] /\ At(obs, i, "tls", f)
    BY <1>2, LatestSeen
  <2>2. obs[i].exp.layer = "tls" /\ obs[i].exp.family = f
    BY <1>0, <2>1 DEF At
  <2>3. PICK g \in Dialled : DidOn(obs, i, g) /\ obs[i].exp = NewTLS(Target, g, "", "")
    BY <2>2, DidLayer
  <2>4. g = f
    BY <2>2, <2>3, DidLayer
  <2> QED
    BY <2>1, <2>3, <2>4
<1> QED
  BY <1>1, <1>2

\* No two observations are of one experiment.
Once(obs) == \A m, n \in 1..Len(obs) : obs[m].exp = obs[n].exp => m = n

\* The first family that TCP reaches is one whose predecessors were tried in
\* vain: a budget may cut a round short, but never turn it around.
LEMMA ReachedOnPath ==
  ASSUME NEW obs \in Seq(Observation), FastDid(obs), Once(obs),
         NEW k \in 1..Len(FirstFams(obs)), FirstReached(obs, FirstFams(obs), k)
  PROVE  OnPath(obs, Len(obs), FirstFams(obs), k)
<1> DEFINE fams == FirstFams(obs)
<1>1. /\ \A j \in 1..Len(fams) : fams[j] \in Dialled
      /\ \A i, j \in 1..Len(fams) : fams[i] = fams[j] => i = j
      /\ DOMAIN fams = 1..Len(fams) /\ Len(fams) \in Nat
  <2>1. fams \in Seq(Dialled)
    BY FirstFamsAre
  <2>2. DOMAIN fams = 1..Len(fams) /\ Len(fams) \in Nat
    <3> HIDE DEF fams
    <3> QED
      BY <2>1
  <2> QED
    BY <2>2, FirstFamsAre
<1>2. /\ Passed(Latest(obs, "tcp", fams[k]))
      /\ \A j \in 1..Len(fams) : Passed(Latest(obs, "tcp", fams[j])) => k <= j
  <2>1. k \in Reached(obs, fams) /\ \A j \in Reached(obs, fams) : k <= j
    BY DEF FirstReached
  <2>2. Reached(obs, fams) = {j \in DOMAIN fams : Passed(Latest(obs, "tcp", fams[j]))}
    BY Zenon DEF Reached
  <2> HIDE DEF fams
  <2> QED
    BY <1>1, <2>1, <2>2
<1> HIDE DEF fams
<1>p. \A o : Passed(o) => Seen(o)
  BY DEF Passed, Seen
<1>3. PICK i \in 1..Len(obs) :
         Latest(obs, "tcp", fams[k]) = obs[i] /\ obs[i].exp = NewTCP(Target, fams[k])
  BY <1>1, <1>2, <1>p, SeenIsDefault DEF fams
<1>4. Passed(obs[i])
  BY <1>2, <1>3
<1>5. ASSUME NEW j \in 1..(k - 1)
      PROVE  \E h \in 1..Len(obs) : obs[h].exp = NewTCP(Target, fams[j]) /\ ~Passed(obs[h])
  <2>1. j \in 1..Len(fams) /\ ~(k <= j) /\ fams[j] \in Dialled /\ fams[k] \in Dialled
    <3>1. k \in Nat /\ k <= Len(fams)
      BY <1>1 DEF fams
    <3>2. j \in 1..Len(fams) /\ ~(k <= j)
      BY <1>1, <3>1
    <3> QED
      BY <1>1, <3>2 DEF fams
  <2>2. obs[i].exp.layer = "tcp" /\ obs[i].exp.family = fams[k]
    <3>1. NewTCP(Target, fams[k]).layer = "tcp" /\ NewTCP(Target, fams[k]).family = fams[k]
      BY <2>1 DEF NewTCP, Normalize, Draft, Dialled
    <3> QED
      BY <1>3, <3>1
  <2>3. DidOn(obs, i, fams[k])
    <3>1. PICK f \in Dialled : DidOn(obs, i, f)
      BY <2>2, DidLayer
    <3>2. f = fams[k]
      BY <2>2, <3>1, DidLayer
    <3> QED
      BY <3>1, <3>2
  <2>4. PICK m \in 1..Len(fams) :
           /\ fams[k] = fams[m] /\ \A h \in 1..(m - 1) : Tried(obs, i - 1, fams[h])
    <3>1. /\ obs[i].exp # NewQUIC(Target, fams[k], "")
          /\ obs[i].exp # NewTLS(Target, fams[k], "", "")
          /\ obs[i].exp # NewHTTP(Target, fams[k], "")
      <4>1. /\ NewTLS(Target, fams[k], "", "").layer = "tls"
            /\ NewHTTP(Target, fams[k], "").layer = "http"
            /\ NewQUIC(Target, fams[k], "").layer = "quic"
        BY <2>1 DEF NewTLS, NewHTTP, NewQUIC, Normalize, Draft, Dialled
      <4> QED
        BY <2>2, <4>1
    <3> QED
      BY <2>3, <3>1, Zenon DEF DidOn, fams
  <2>5. m = k
    BY <1>1, <2>4 DEF fams
  <2>6. Tried(obs, i - 1, fams[j])
    BY <2>4, <2>5
  <2>7. PICK h \in 1..(i - 1) : obs[h].exp = NewTCP(Target, fams[j])
    BY <2>6 DEF Tried
  <2>8. h \in 1..Len(obs)
    OBVIOUS
  <2>9. ~Passed(obs[h])
    <3>1. SUFFICES ASSUME Passed(obs[h]) PROVE FALSE
      OBVIOUS
    <3>2. h \in Of(obs, "tcp", fams[j])
      <4>1. NewTCP(Target, fams[j]).layer = "tcp" /\ NewTCP(Target, fams[j]).family = fams[j]
        BY <2>1 DEF NewTCP, Normalize, Draft, Dialled
      <4>2. obs[h].exp.layer = "tcp" /\ obs[h].exp.family = fams[j] /\ h \in DOMAIN obs
        BY <2>7, <2>8, <4>1
      <4> QED
        BY <4>2 DEF Of
    <3>3. Seen(Latest(obs, "tcp", fams[j]))
      BY <3>2, LatestSeen
    <3>4. PICK g \in 1..Len(obs) :
             Latest(obs, "tcp", fams[j]) = obs[g] /\ obs[g].exp = NewTCP(Target, fams[j])
      BY <2>1, <3>3, SeenIsDefault
    <3>5. g = h
      BY <2>7, <2>8, <3>4 DEF Once
    <3> QED
      BY <1>2, <2>1, <3>1, <3>4, <3>5
  <2> QED
    BY <2>7, <2>8, <2>9
<1> QED
  BY <1>3, <1>4, <1>5 DEF OnPath, fams

\* What was due stays due as more is recorded.
LEMMA TriedGrows ==
  ASSUME NEW s, NEW t, NEW n \in Nat, NEW m \in Nat, n <= m, \A i \in 1..n : t[i] = s[i],
         NEW f, Tried(s, n, f)
  PROVE  Tried(t, m, f)
<1>1. \A i \in 1..n : i \in 1..m
  OBVIOUS
<1> QED
  BY <1>1 DEF Tried

\* The path stays as more is recorded.
LEMMA OnPathGrows ==
  ASSUME NEW s, NEW t, NEW n \in Nat, NEW m \in Nat, n <= m, \A i \in 1..n : t[i] = s[i],
         NEW fams, NEW k, OnPath(s, n, fams, k)
  PROVE  OnPath(t, m, fams, k)
<1>1. \A i \in 1..n : i \in 1..m
  OBVIOUS
<1>2. PICK i \in 1..n : s[i].exp = NewTCP(Target, fams[k]) /\ Passed(s[i])
  BY Zenon DEF OnPath
<1>3. \A j \in 1..(k - 1) : \E h \in 1..n : s[h].exp = NewTCP(Target, fams[j]) /\ ~Passed(s[h])
  BY Zenon DEF OnPath
<1>4. \E h \in 1..m : t[h].exp = NewTCP(Target, fams[k]) /\ Passed(t[h])
  BY <1>1, <1>2
<1>5. \A j \in 1..(k - 1) : \E h \in 1..m : t[h].exp = NewTCP(Target, fams[j]) /\ ~Passed(t[h])
  <2>1. ASSUME NEW j \in 1..(k - 1)
        PROVE  \E h \in 1..m : t[h].exp = NewTCP(Target, fams[j]) /\ ~Passed(t[h])
    <3>1. PICK h \in 1..n : s[h].exp = NewTCP(Target, fams[j]) /\ ~Passed(s[h])
      BY <1>3
    <3> QED
      BY <1>1, <3>1
  <2> QED
    BY <2>1
<1> QED
  BY <1>4, <1>5, Zenon DEF OnPath

\* What may follow still may as more is recorded.
LEMMA MayFollowGrows ==
  ASSUME NEW s, NEW t, NEW n \in Nat, NEW m \in Nat, n <= m, \A i \in 1..n : t[i] = s[i],
         NEW fams, NEW e, MayFollow(s, n, fams, e)
  PROVE  MayFollow(t, m, fams, e)
<1>1. \A i \in 1..n : i \in 1..m
  OBVIOUS
<1>2. \A k : OnPath(s, n, fams, k) => OnPath(t, m, fams, k)
  BY OnPathGrows
<1>3. ASSUME NEW x, \E h \in 1..n : s[h].exp = x /\ Passed(s[h])
      PROVE  \E h \in 1..m : t[h].exp = x /\ Passed(t[h])
  BY <1>1, <1>3
<1>4. CASE Target.https /\ e = NewQUIC(Target, fams[1], "")
  BY <1>4, Zenon DEF MayFollow
<1>5. CASE \E k \in 1..Len(fams) :
              OnPath(s, n, fams, k) /\ Target.https /\ e = NewTLS(Target, fams[k], "", "")
  BY <1>2, <1>5, Zenon DEF MayFollow
<1>6. CASE \E k \in 1..Len(fams) :
              /\ OnPath(s, n, fams, k) /\ e = NewHTTP(Target, fams[k], "")
              /\ Target.https => \E i \in 1..n :
                    s[i].exp = NewTLS(Target, fams[k], "", "") /\ Passed(s[i])
  BY <1>2, <1>3, <1>6, Zenon DEF MayFollow
<1> QED
  BY <1>4, <1>5, <1>6, Zenon DEF MayFollow

\* The first step of a fast survey.
LEMMA FastFirst ==
  ASSUME TypeOK, policy = "fast", observations = << >>, Proposal # << >>
  PROVE  Proposal = <<NewDNS(Target, "system")>>
<1> DEFINE d == NewDNS(Target, "system")
<1>1. Proper(observations, budget, Proposal)
  BY ProposalIs
<1>2. FastPlan(observations) = <<d>>
  <2>1. observations \in Seq(Observation) /\ DOMAIN observations = {}
    BY DEF TypeOK
  <2>2. Of(observations, "dns", "") = {}
    BY <2>1, Zenon DEF Of
  <2>3. ~Seen(Latest(observations, "dns", ""))
    BY <2>1, <2>2, LatestSeen
  <2> QED
    BY <2>1, <2>3, FastPlanIs, Zenon
<1>3. ASSUME NEW p \in 1..Len(Proposal) PROVE Proposal[p] = d
  <2>1. FromFastPlan(observations, Proposal, p)
    BY <1>3, FastProposalFrom
  <2>2. PICK i \in 1..Len(FastPlan(observations)) : Proposal[p] = FastPlan(observations)[i]
    BY <2>1, Zenon DEF FromFastPlan
  <2> HIDE DEF d
  <2>3. Len(<<d>>) = 1 /\ <<d>>[1] = d
    OBVIOUS
  <2>4. i \in 1..1
    BY <1>2, <2>2, <2>3
  <2>5. i = 1
    BY <2>4
  <2> QED
    BY <1>2, <2>2, <2>3, <2>5
<1> HIDE DEF d
<1> DEFINE S == Fresh(observations)
<1>4. Proposal \in Seq(S) /\ IsInjective(Proposal)
  BY <1>1 DEF Proper
<1> HIDE DEF S
<1>5. Len(Proposal) \in Nat /\ Len(Proposal) >= 1 /\ DOMAIN Proposal = 1..Len(Proposal)
  BY <1>4
<1>6. Len(Proposal) = 1
  <2>1. SUFFICES ASSUME Len(Proposal) >= 2 PROVE FALSE
    BY <1>5
  <2>2. 1 \in 1..Len(Proposal) /\ 2 \in 1..Len(Proposal)
    BY <1>5, <2>1
  <2>3. Proposal[1] = Proposal[2]
    BY <1>3, <2>2
  <2> QED
    BY <1>4, <1>5, <2>2, <2>3 DEF IsInjective
<1>7. Proposal[1] = d
  BY <1>3, <1>6
<1>8. d \in S
  BY <1>4, <1>6, <1>7
<1>9. <<d>> \in Seq(S) /\ Len(<<d>>) = 1 /\ <<d>>[1] = d
  BY <1>8, OneOf
<1>10. \A i \in 1..1 : Proposal[i] = <<d>>[i]
  BY <1>7, <1>9
<1> QED
  BY <1>4, <1>6, <1>9, <1>10, SeqEqual DEF d

\* Whatever a fast survey proposes is due.
LEMMA FastProposal ==
  ASSUME TypeOK, Once(observations), FastDid(observations), policy = "fast",
         Proposal # << >>
  PROVE  FastDue(observations, Proposal)
<1> DEFINE obs == observations
           n == Len(observations)
           fams == FirstFams(observations)
           s == FastPlan(observations)
<1>0. obs \in Seq(Observation) /\ n \in Nat
  BY DEF TypeOK
<1>1. CASE obs = << >>
  <2>1. Proposal = <<NewDNS(Target, "system")>>
    BY <1>1, FastFirst
  <2> QED
    BY <1>1, <2>1 DEF FastDue
<1>2. CASE obs # << >>
  <2>1. /\ Latest(obs, "dns", "") = obs[1] /\ Seen(Latest(obs, "dns", ""))
        /\ Fams(obs) = fams
    BY <1>0, <1>2, FastFams
  <2>2. ASSUME NEW p \in 1..Len(Proposal)
        PROVE  \E i \in 1..Len(s) :
                  /\ Proposal[p] = s[i]
                  /\ \A j \in 1..(i - 1) : Known(obs, Proposal, p - 1, s[j])
    BY <2>2, FastProposalFrom DEF FromFastPlan
  <2>3. s # << >>
    <3>1. 1 \in 1..Len(Proposal)
      BY ProposalIs
    <3>2. \E i \in 1..Len(s) : TRUE
      BY <2>2, <3>1
    <3>3. Len(<< >>) = 0 /\ 1..0 = {}
      OBVIOUS
    <3> HIDE DEF s
    <3> QED
      BY <3>2, <3>3
  <2>4. Passed(obs[1]) /\ fams # << >> /\ \A i \in 1..Len(s) : FastStep(obs, s, i)
    <3>1. /\ Passed(Latest(obs, "dns", "")) /\ Fams(obs) # << >>
          /\ \A i \in 1..Len(FastPlan(obs)) : FastStep(obs, FastPlan(obs), i)
      BY <1>0, <2>1, <2>3, FastPlanIs, Zenon
    <3> QED
      BY <2>1, <3>1, Zenon
  <2>f. \A k \in 1..Len(fams) : fams[k] \in Dialled
    BY FirstFamsAre
  <2>5. \A k \in 1..Len(fams) : FirstReached(obs, fams, k) => OnPath(obs, n, fams, k)
    BY <1>0, ReachedOnPath
  <2>6. ASSUME NEW p \in 1..Len(Proposal)
        PROVE  \/ MayFollow(obs, n, fams, Proposal[p])
               \/ \E k \in 1..Len(fams) :
                     /\ Proposal[p] = NewTCP(Target, fams[k])
                     /\ \A j \in 1..(k - 1) :
                           \/ Tried(obs, n, fams[j])
                           \/ \E q \in 1..(p - 1) : Proposal[q] = NewTCP(Target, fams[j])
    <3>1. PICK i \in 1..Len(s) :
             /\ Proposal[p] = s[i]
             /\ \A j \in 1..(i - 1) : Known(obs, Proposal, p - 1, s[j])
      BY <2>2
    <3>2. \/ \E k \in 1..Len(fams) : TCPInTurn(obs, fams, s, i, k)
          \/ Target.https /\ s[i] = NewQUIC(Target, fams[1], "")
          \/ \E k \in 1..Len(fams) : TLSNext(obs, fams, k, s[i])
          \/ \E k \in 1..Len(fams) : HTTPNext(obs, fams, k, s[i])
      <4>1. FastStep(obs, s, i)
        BY <2>4
      <4> QED
        BY <2>1, <4>1, Zenon DEF FastStep
    <3>3. CASE \E k \in 1..Len(fams) : TCPInTurn(obs, fams, s, i, k)
      <4>1. PICK k \in 1..Len(fams) : TCPInTurn(obs, fams, s, i, k)
        BY <3>3
      <4>2. Proposal[p] = NewTCP(Target, fams[k])
        BY <3>1, <4>1 DEF TCPInTurn
      <4>3. ASSUME NEW j \in 1..(k - 1)
            PROVE  \/ Tried(obs, n, fams[j])
                   \/ \E q \in 1..(p - 1) : Proposal[q] = NewTCP(Target, fams[j])
        <5>1. j \in 1..Len(fams)
          <6>1. Len(fams) \in Nat
            BY FirstFamsAre
          <6> QED
            BY <6>1
        <5>2. \/ Seen(Latest(obs, "tcp", fams[j]))
              \/ \E h \in 1..(i - 1) : s[h] = NewTCP(Target, fams[j])
          BY <4>1 DEF TCPInTurn
        <5>3. CASE Seen(Latest(obs, "tcp", fams[j]))
          <6>1. \E h \in 1..Len(obs) :
                   Latest(obs, "tcp", fams[j]) = obs[h] /\ obs[h].exp = NewTCP(Target, fams[j])
            BY <1>0, <2>f, <5>1, <5>3, SeenIsDefault
          <6> QED
            BY <6>1 DEF Tried
        <5>4. CASE \E h \in 1..(i - 1) : s[h] = NewTCP(Target, fams[j])
          <6>1. PICK h \in 1..(i - 1) : s[h] = NewTCP(Target, fams[j])
            BY <5>4
          <6>2. Known(obs, Proposal, p - 1, NewTCP(Target, fams[j]))
            BY <3>1, <6>1
          <6>3. HasExperiment(obs, NewTCP(Target, fams[j])) => Tried(obs, n, fams[j])
            <7>1. DOMAIN obs = 1..n
              BY <1>0
            <7> QED
              BY <7>1, Zenon DEF HasExperiment, Tried
          <6> QED
            BY <6>2, <6>3, Zenon DEF Known
        <5> QED
          BY <5>2, <5>3, <5>4
      <4> QED
        BY <4>2, <4>3
    <3>4. CASE Target.https /\ s[i] = NewQUIC(Target, fams[1], "")
      BY <3>1, <3>4, Zenon DEF MayFollow
    <3>5. CASE \E k \in 1..Len(fams) : TLSNext(obs, fams, k, s[i])
      <4>1. PICK k \in 1..Len(fams) : TLSNext(obs, fams, k, s[i])
        BY <3>5
      <4>2. OnPath(obs, n, fams, k) /\ Target.https /\ s[i] = NewTLS(Target, fams[k], "", "")
        BY <2>5, <4>1, Zenon DEF TLSNext
      <4> QED
        BY <3>1, <4>2, Zenon DEF MayFollow
    <3>6. CASE \E k \in 1..Len(fams) : HTTPNext(obs, fams, k, s[i])
      <4>1. PICK k \in 1..Len(fams) : HTTPNext(obs, fams, k, s[i])
        BY <3>6
      <4>2. /\ OnPath(obs, n, fams, k) /\ s[i] = NewHTTP(Target, fams[k], "")
            /\ Target.https => Passed(Latest(obs, "tls", fams[k]))
        BY <2>5, <4>1, Zenon DEF HTTPNext
      <4>3. Target.https => \E h \in 1..n :
               obs[h].exp = NewTLS(Target, fams[k], "", "") /\ Passed(obs[h])
        <5>1. SUFFICES ASSUME Passed(Latest(obs, "tls", fams[k]))
                       PROVE  \E h \in 1..n :
                                 obs[h].exp = NewTLS(Target, fams[k], "", "") /\ Passed(obs[h])
          BY <4>2
        <5>2. Seen(Latest(obs, "tls", fams[k]))
          BY <5>1 DEF Passed, Seen
        <5>3. PICK h \in 1..Len(obs) :
                 /\ Latest(obs, "tls", fams[k]) = obs[h]
                 /\ obs[h].exp = NewTLS(Target, fams[k], "", "")
          BY <1>0, <2>f, <5>2, SeenIsDefault
        <5> QED
          BY <5>1, <5>3
      <4> QED
        BY <3>1, <4>2, <4>3, Zenon DEF MayFollow
    <3> QED
      BY <3>2, <3>3, <3>4, <3>5, <3>6
  <2> QED
    BY <1>2, <2>4, <2>6, Zenon DEF FastDue
<1> QED
  BY <1>1, <1>2

\* What is due and then recorded was done, and the rest of the round stays
\* due.
LEMMA FastRecord ==
  ASSUME TypeOK, Record, FastDid(observations), FastDue(observations, batch)
  PROVE  FastDid(observations') /\ (batch' # << >> => FastDue(observations', batch'))
<1> DEFINE n == Len(observations)
           b == Len(batch)
           fams == FirstFams(observations)
<1>0. observations \in Seq(Observation) /\ batch \in Seq(Experiment) /\ n \in Nat /\ b \in Nat
  BY DEF TypeOK
<1>1. PICK o \in Observation :
          /\ o.exp = batch[1]
          /\ observations' \in Seq(Observation)
          /\ Len(observations') = n + 1
          /\ \A i \in 1..n : observations'[i] = observations[i]
          /\ observations'[n + 1] = o
          /\ batch' \in Seq(Experiment)
          /\ Len(batch') = b - 1 /\ b >= 1
          /\ \A i \in 1..Len(batch') : batch'[i] = batch[i + 1]
  BY <1>0, RecordIs
<1>2. CASE observations = << >> /\ batch = <<NewDNS(Target, "system")>>
  <2> DEFINE d == NewDNS(Target, "system")
  <2>1. n = 0
    BY <1>2
  <2>2. b = 1 /\ batch[1] = d
    <3> HIDE DEF d
    <3>1. batch = <<d>>
      BY <1>2 DEF d
    <3> QED
      BY <3>1
  <2>3. Len(observations') = 1 /\ observations'[1].exp = d
    BY <1>1, <2>1, <2>2
  <2>4. 2..Len(observations') = {}
    BY <2>3
  <2>5. FastDid(observations')
    BY <2>3, <2>4, Zenon DEF FastDid
  <2>6. batch' = << >>
    BY <1>1, <2>2
  <2> QED
    BY <2>5, <2>6
<1>3. CASE /\ observations # << >> /\ Passed(observations[1]) /\ fams # << >>
           /\ \A p \in 1..b :
                 \/ MayFollow(observations, n, fams, batch[p])
                 \/ \E k \in 1..Len(fams) :
                       /\ batch[p] = NewTCP(Target, fams[k])
                       /\ \A j \in 1..(k - 1) :
                             \/ Tried(observations, n, fams[j])
                             \/ \E q \in 1..(p - 1) : batch[q] = NewTCP(Target, fams[j])
  <2>1. 1 \in 1..n /\ observations'[1] = observations[1]
    <3>1. 1 \in 1..n
      BY <1>0, <1>3
    <3> QED
      BY <1>1, <3>1
  <2>2. FirstFams(observations') = fams
    BY <2>1 DEF FirstFams
  <2>3. observations' # << >>
    BY <1>0, <1>1
  <2>4. observations[1].exp = NewDNS(Target, "system")
    BY <1>3 DEF FastDid
  <2> HIDE DEF n, b, fams
  <2>5. n + 1 \in Nat /\ n <= n + 1 /\ n <= n
    BY <1>0
  <2>6. ASSUME NEW k \in 2..n
        PROVE  \/ MayFollow(observations', k - 1, fams, observations'[k].exp)
               \/ \E m \in 1..Len(fams) :
                     /\ observations'[k].exp = NewTCP(Target, fams[m])
                     /\ \A j \in 1..(m - 1) : Tried(observations', k - 1, fams[j])
    <3>1. /\ k - 1 \in Nat /\ k - 1 <= k - 1 /\ observations'[k] = observations[k]
          /\ \A i \in 1..(k - 1) : observations'[i] = observations[i]
      BY <1>0, <1>1
    <3>2. \/ MayFollow(observations, k - 1, fams, observations[k].exp)
          \/ \E m \in 1..Len(fams) :
                /\ observations[k].exp = NewTCP(Target, fams[m])
                /\ \A j \in 1..(m - 1) : Tried(observations, k - 1, fams[j])
      BY Zenon DEF FastDid, n, fams
    <3>3. MayFollow(observations, k - 1, fams, observations[k].exp)
             => MayFollow(observations', k - 1, fams, observations[k].exp)
      BY <3>1, MayFollowGrows
    <3>4. \A f : Tried(observations, k - 1, f) => Tried(observations', k - 1, f)
      BY <3>1, TriedGrows
    <3> QED
      BY <3>1, <3>2, <3>3, <3>4, Zenon
  <2>7. \A e : MayFollow(observations, n, fams, e) =>
            MayFollow(observations', n, fams, e) /\ MayFollow(observations', n + 1, fams, e)
    <3>1. \A e : MayFollow(observations, n, fams, e) => MayFollow(observations', n, fams, e)
      BY <1>0, <1>1, <2>5, MayFollowGrows
    <3>2. \A e : MayFollow(observations, n, fams, e) => MayFollow(observations', n + 1, fams, e)
      BY <1>0, <1>1, <2>5, MayFollowGrows
    <3> QED
      BY <3>1, <3>2
  <2>8. \A f : Tried(observations, n, f) =>
            Tried(observations', n, f) /\ Tried(observations', n + 1, f)
    <3>1. \A f : Tried(observations, n, f) => Tried(observations', n, f)
      BY <1>0, <1>1, <2>5, TriedGrows
    <3>2. \A f : Tried(observations, n, f) => Tried(observations', n + 1, f)
      BY <1>0, <1>1, <2>5, TriedGrows
    <3> QED
      BY <3>1, <3>2
  <2>9. \/ MayFollow(observations', n, fams, observations'[n + 1].exp)
        \/ \E m \in 1..Len(fams) :
              /\ observations'[n + 1].exp = NewTCP(Target, fams[m])
              /\ \A j \in 1..(m - 1) : Tried(observations', n, fams[j])
    <3>1. 1 \in 1..b /\ 1..(1 - 1) = {}
      BY <1>0, <1>1
    <3>2. \/ MayFollow(observations, n, fams, batch[1])
          \/ \E k \in 1..Len(fams) :
                /\ batch[1] = NewTCP(Target, fams[k])
                /\ \A j \in 1..(k - 1) : Tried(observations, n, fams[j])
      BY <1>3, <3>1
    <3>3. observations'[n + 1].exp = batch[1]
      BY <1>1
    <3> QED
      BY <2>7, <2>8, <3>2, <3>3, Zenon
  <2>10. FastDid(observations')
    <3>1. ASSUME NEW k \in 2..Len(observations')
          PROVE  \/ MayFollow(observations', k - 1, fams, observations'[k].exp)
                 \/ \E m \in 1..Len(fams) :
                       /\ observations'[k].exp = NewTCP(Target, fams[m])
                       /\ \A j \in 1..(m - 1) : Tried(observations', k - 1, fams[j])
      <4>1. k \in 2..n \/ (k = n + 1 /\ k - 1 = n)
        BY <1>0, <1>1
      <4>2. CASE k \in 2..n
        BY <2>6, <4>2
      <4>3. CASE k = n + 1 /\ k - 1 = n
        BY <2>9, <4>3, Zenon
      <4> QED
        BY <4>1, <4>2, <4>3
    <3>2. observations'[1].exp = NewDNS(Target, "system") /\ Passed(observations'[1])
      BY <1>3, <2>1, <2>4
    <3> QED
      BY <1>3, <2>2, <3>1, <3>2, Zenon DEF FastDid
  <2>11. ASSUME NEW p \in 1..Len(batch')
         PROVE  \/ MayFollow(observations', n + 1, fams, batch'[p])
                \/ \E k \in 1..Len(fams) :
                      /\ batch'[p] = NewTCP(Target, fams[k])
                      /\ \A j \in 1..(k - 1) :
                            \/ Tried(observations', n + 1, fams[j])
                            \/ \E q \in 1..(p - 1) : batch'[q] = NewTCP(Target, fams[j])
    <3>1. p + 1 \in 1..b /\ (p + 1) - 1 = p /\ batch'[p] = batch[p + 1]
      BY <1>0, <1>1
    <3>2. \/ MayFollow(observations, n, fams, batch[p + 1])
          \/ \E k \in 1..Len(fams) :
                /\ batch[p + 1] = NewTCP(Target, fams[k])
                /\ \A j \in 1..(k - 1) :
                      \/ Tried(observations, n, fams[j])
                      \/ \E q \in 1..p : batch[q] = NewTCP(Target, fams[j])
      BY <1>3, <3>1
    <3>3. ASSUME NEW f, \E q \in 1..p : batch[q] = NewTCP(Target, f)
          PROVE  \/ Tried(observations', n + 1, f)
                 \/ \E q \in 1..(p - 1) : batch'[q] = NewTCP(Target, f)
      <4>1. PICK q \in 1..p : batch[q] = NewTCP(Target, f)
        BY <3>3
      <4>2. CASE q = 1
        <5>1. n + 1 \in 1..(n + 1) /\ observations'[n + 1].exp = NewTCP(Target, f)
          BY <1>0, <1>1, <4>1, <4>2
        <5> QED
          BY <5>1, Zenon DEF Tried
      <4>3. CASE q # 1
        <5>1. q - 1 \in 1..(p - 1) /\ q - 1 \in 1..Len(batch') /\ (q - 1) + 1 = q
          BY <1>0, <1>1, <4>3
        <5>2. batch'[q - 1] = NewTCP(Target, f)
          BY <1>1, <4>1, <5>1
        <5> QED
          BY <5>1, <5>2
      <4> QED
        BY <4>2, <4>3
    <3> QED
      BY <2>7, <2>8, <3>1, <3>2, <3>3, Zenon
  <2>12. FastDue(observations', batch')
    <3>1. Passed(observations'[1]) /\ fams # << >> /\ Len(observations') = n + 1
      BY <1>1, <1>3, <2>1
    <3> QED
      BY <2>2, <2>3, <2>11, <3>1, Zenon DEF FastDue
  <2> QED
    BY <2>10, <2>12
<1> QED
  BY <1>2, <1>3, Zenon DEF FastDue

\* Each step keeps to the path.
LEMMA FastInvStep == Typed /\ NoRepeats /\ FastInv /\ [Next]_vars => FastInv'
<1> SUFFICES ASSUME Typed, NoRepeats, FastInv, [Next]_vars, ran' = {"fast"}
             PROVE  /\ FastDid(observations')
                    /\ batch' # << >> => FastDue(observations', batch')
  BY DEF FastInv
<1>0. TypeOK /\ policy \in ran /\ Once(observations)
  BY DEF Typed, RoundInv, NoRepeats, Once
<1>r. ran = {"fast"} /\ policy = "fast"
  <2>1. ran \subseteq ran'
    BY DEF Next, vars, ProposeRound, Record, EndRound, Finish, Interrupt, Report, Resume
  <2> QED
    BY <1>0, <2>1
<1>v. FastDid(observations) /\ (batch # << >> => FastDue(observations, batch))
  BY <1>r DEF FastInv
<1>1. CASE ProposeRound
  <2>1. batch' = Proposal /\ observations' = observations /\ Proposal # << >>
    BY <1>1 DEF ProposeRound
  <2>2. FastDue(observations, Proposal)
    BY <1>0, <1>r, <1>v, <2>1, FastProposal
  <2> QED
    BY <1>v, <2>1, <2>2
<1>2. CASE Record
  <2>1. batch # << >>
    BY <1>2 DEF Record
  <2> QED
    BY <1>0, <1>2, <1>v, <2>1, FastRecord
<1>3. CASE EndRound \/ Finish \/ Interrupt \/ Resume \/ UNCHANGED vars
  <2>1. UNCHANGED <<observations, batch>>
    BY <1>3 DEF EndRound, Finish, Interrupt, Report, Resume, vars
  <2> QED
    BY <1>v, <2>1
<1> QED
  BY <1>1, <1>2, <1>3 DEF Next

\* So a fast survey never leaves it.
LEMMA FastInvAlways == Spec => [](Typed /\ NoRepeats /\ FastInv)
<1>1. Init => FastInv
  <2> SUFFICES ASSUME Init PROVE FastDid(observations) /\ ~(batch # << >>)
    BY DEF FastInv
  <2>1. observations = << >> /\ batch = << >> /\ Len(<< >>) = 0 /\ 2..0 = {}
    BY DEF Init
  <2> QED
    BY <2>1, Zenon DEF FastDid
<1>2. Typed /\ NoRepeats /\ FastInv /\ [Next]_vars => FastInv'
  BY FastInvStep
<1> QED
  BY <1>1, <1>2, SurveyTypedAlways, NoRepeatsAlways, PTL DEF Spec

\* There is at most one path.
LEMMA OnePath ==
  ASSUME NEW obs, Once(obs), NEW m1 \in 0..Len(obs), NEW m2 \in 0..Len(obs), Len(obs) \in Nat,
         NEW fams, NEW k1 \in Nat, NEW k2 \in Nat, k1 >= 1, k2 >= 1,
         OnPath(obs, m1, fams, k1), OnPath(obs, m2, fams, k2)
  PROVE  k1 = k2
<1>1. ASSUME NEW a \in 0..Len(obs), NEW b \in 0..Len(obs), NEW j \in Nat, NEW k \in Nat, j >= 1,
             OnPath(obs, a, fams, j), OnPath(obs, b, fams, k), j < k
      PROVE  FALSE
  <2>1. PICK i \in 1..a : obs[i].exp = NewTCP(Target, fams[j]) /\ Passed(obs[i])
    BY <1>1, Zenon DEF OnPath
  <2>2. j \in 1..(k - 1)
    BY <1>1
  <2>3. PICK h \in 1..b : obs[h].exp = NewTCP(Target, fams[j]) /\ ~Passed(obs[h])
    BY <1>1, <2>2, Zenon DEF OnPath
  <2>4. i \in 1..Len(obs) /\ h \in 1..Len(obs)
    OBVIOUS
  <2>5. i = h
    BY <2>1, <2>3, <2>4 DEF Once
  <2> QED
    BY <2>1, <2>3, <2>5
<1>2. ~(k1 < k2)
  BY <1>1
<1>3. ~(k2 < k1)
  BY <1>1
<1> QED
  BY <1>2, <1>3

\* A set any two members of which are the same has at most one.
LEMMA AtMostOne ==
  ASSUME NEW S, \A a, b \in S : a = b
  PROVE  Cardinality(S) <= 1
<1>1. CASE S = {}
  BY <1>1, FS_EmptySet
<1>2. CASE S # {}
  <2>1. PICK a \in S : S = {a}
    BY <1>2
  <2> QED
    BY <2>1, FS_Singleton
<1> QED
  BY <1>1, <1>2

\* A fast survey's experiments above TCP are all on one family.
LEMMA FastOne ==
  ASSUME NEW obs \in Seq(Observation), FastDid(obs), Once(obs),
         NEW l \in {"tls", "http", "quic"}
  PROVE  Cardinality(Of(obs, l, "")) <= 1
<1> DEFINE fams == FirstFams(obs)
<1>1. ASSUME NEW a \in Of(obs, l, ""), NEW b \in Of(obs, l, "") PROVE a = b
  <2>1. /\ a \in 1..Len(obs) /\ obs[a].exp.layer = l
        /\ b \in 1..Len(obs) /\ obs[b].exp.layer = l
    BY DEF Of
  <2>0. Len(obs) \in Nat /\ a - 1 \in 0..Len(obs) /\ b - 1 \in 0..Len(obs)
    BY <2>1, Places, Zenon
  <2>f. \A k \in 1..Len(fams) : k \in Nat /\ k >= 1
    <3>1. fams \in Seq(Dialled)
      BY FirstFamsAre
    <3> QED
      BY <3>1, Places, Zenon
  <2>l. ASSUME NEW i \in 1..Len(obs), obs[i].exp.layer = l
        PROVE  /\ l = "tls" => \E f \in Dialled :
                     DidOn(obs, i, f) /\ obs[i].exp = NewTLS(Target, f, "", "")
               /\ l = "http" => \E f \in Dialled :
                     DidOn(obs, i, f) /\ obs[i].exp = NewHTTP(Target, f, "")
    BY <2>l, DidLayer
  <2>2. SUFFICES obs[a].exp = obs[b].exp
    BY <2>1 DEF Once
  <2>3. CASE l = "quic"
    <3>1. PICK f \in Dialled : obs[a].exp = NewQUIC(Target, f, "") /\ f = fams[1]
      BY <2>1, <2>3, DidLayer, ZenonT(30)
    <3>2. PICK g \in Dialled : obs[b].exp = NewQUIC(Target, g, "") /\ g = fams[1]
      BY <2>1, <2>3, DidLayer, ZenonT(30)
    <3> QED
      BY <3>1, <3>2
  <2>4. ASSUME NEW i \in 1..Len(obs), NEW f \in Dialled, DidOn(obs, i, f),
               obs[i].exp = NewTLS(Target, f, "", "") \/ obs[i].exp = NewHTTP(Target, f, "")
        PROVE  \E k \in 1..Len(fams) : f = fams[k] /\ OnPath(obs, i - 1, fams, k)
    <3>1. /\ NewTLS(Target, f, "", "").layer = "tls" /\ NewHTTP(Target, f, "").layer = "http"
          /\ NewQUIC(Target, f, "").layer = "quic" /\ NewTCP(Target, f).layer = "tcp"
      BY DEF NewTLS, NewHTTP, NewQUIC, NewTCP, Normalize, Draft, Dialled
    <3>2. obs[i].exp # NewQUIC(Target, f, "") /\ obs[i].exp # NewTCP(Target, f)
      BY <2>4, <3>1
    <3> QED
      BY <2>4, <3>2, Zenon DEF DidOn
  <2>5. ASSUME NEW f \in Dialled, NEW g \in Dialled, DidOn(obs, a, f), DidOn(obs, b, g),
               obs[a].exp = NewTLS(Target, f, "", "") \/ obs[a].exp = NewHTTP(Target, f, ""),
               obs[b].exp = NewTLS(Target, g, "", "") \/ obs[b].exp = NewHTTP(Target, g, "")
        PROVE  f = g
    <3>1. PICK j \in 1..Len(fams) : f = fams[j] /\ OnPath(obs, a - 1, fams, j)
      BY <2>1, <2>4, <2>5
    <3>2. PICK k \in 1..Len(fams) : g = fams[k] /\ OnPath(obs, b - 1, fams, k)
      BY <2>1, <2>4, <2>5
    <3>3. j = k
      BY <2>0, <2>f, <3>1, <3>2, OnePath
    <3> QED
      BY <3>1, <3>2, <3>3
  <2>6. CASE l = "tls"
    <3>1. PICK f \in Dialled : DidOn(obs, a, f) /\ obs[a].exp = NewTLS(Target, f, "", "")
      BY <2>1, <2>6, <2>l
    <3>2. PICK g \in Dialled : DidOn(obs, b, g) /\ obs[b].exp = NewTLS(Target, g, "", "")
      BY <2>1, <2>6, <2>l
    <3>3. f = g
      BY <2>5, <3>1, <3>2
    <3> QED
      BY <3>1, <3>2, <3>3
  <2>7. CASE l = "http"
    <3>1. PICK f \in Dialled : DidOn(obs, a, f) /\ obs[a].exp = NewHTTP(Target, f, "")
      BY <2>1, <2>7, <2>l
    <3>2. PICK g \in Dialled : DidOn(obs, b, g) /\ obs[b].exp = NewHTTP(Target, g, "")
      BY <2>1, <2>7, <2>l
    <3>3. f = g
      BY <2>5, <3>1, <3>2
    <3> QED
      BY <3>1, <3>2, <3>3
  <2> QED
    BY <2>3, <2>6, <2>7
<1> QED
  BY <1>1, AtMostOne

\* A fast survey runs at most one TLS handshake, HTTP request and QUIC
\* handshake, whatever its budgets, outcomes and resumptions.
THEOREM FastTakesOnePathAlways == Spec => []FastTakesOnePath
<1>1. Typed /\ NoRepeats /\ FastInv => FastTakesOnePath
  <2> SUFFICES ASSUME Typed, NoRepeats, FastInv, ran = {"fast"},
                      NEW l \in {"tls", "http", "quic"}
               PROVE  Cardinality(Of(observations, l, "")) <= 1
    BY DEF FastTakesOnePath
  <2>1. observations \in Seq(Observation) /\ Once(observations) /\ FastDid(observations)
    BY DEF Typed, TypeOK, NoRepeats, Once, FastInv
  <2> QED
    BY <2>1, FastOne
<1> QED
  BY <1>1, FastInvAlways, PTL

\* In a fast survey, what a probe needs was recorded before it, and passed.
LEMMA FastNeeds ==
  ASSUME NEW obs \in Seq(Observation), FastDid(obs), NEW n \in 1..Len(obs), n # 1
  PROVE  \E f \in Dialled :
            /\ obs[n].exp.family = f /\ obs[n].exp.target = Target
            /\ 1 \in 1..(n - 1) /\ Passed(obs[1]) /\ obs[1].exp = NewDNS(Target, "system")
            /\ obs[n].exp.layer \in {"tcp", "tls", "http", "quic"}
            /\ obs[n].exp.layer \in {"tls", "http"} => \E i \in 1..(n - 1) :
                  obs[i].exp = NewTCP(Target, f) /\ Passed(obs[i])
            /\ obs[n].exp.layer = "http" /\ Target.https => \E i \in 1..(n - 1) :
                  obs[i].exp = NewTLS(Target, f, "", "") /\ Passed(obs[i])
<1>1. n >= 2 /\ Passed(obs[1]) /\ \E f \in Dialled : DidOn(obs, n, f)
  BY DidIs
<1>2. PICK f \in Dialled : DidOn(obs, n, f)
  BY <1>1
<1>3. obs[n].exp.family = f /\ obs[n].exp.target = Target
  BY <1>2, DidLayer
<1>4. obs[n].exp.layer \in {"tcp", "tls", "http", "quic"}
  BY DidLayer
<1>5. 1 \in 1..(n - 1) /\ obs # << >>
  BY <1>1
<1>6. obs[1].exp = NewDNS(Target, "system")
  BY <1>5 DEF FastDid
<1>7. /\ NewTLS(Target, f, "", "").layer = "tls" /\ NewHTTP(Target, f, "").layer = "http"
      /\ NewQUIC(Target, f, "").layer = "quic" /\ NewTCP(Target, f).layer = "tcp"
  BY DEF NewTLS, NewHTTP, NewQUIC, NewTCP, Normalize, Draft, Dialled
<1>8. ASSUME obs[n].exp.layer \in {"tls", "http"}
      PROVE  \E i \in 1..(n - 1) : obs[i].exp = NewTCP(Target, f) /\ Passed(obs[i])
  <2>1. obs[n].exp # NewQUIC(Target, f, "") /\ obs[n].exp # NewTCP(Target, f)
    BY <1>7, <1>8
  <2>2. \E k \in 1..Len(FirstFams(obs)) :
           f = FirstFams(obs)[k] /\ OnPath(obs, n - 1, FirstFams(obs), k)
    BY <1>2, <2>1, Zenon DEF DidOn
  <2> QED
    BY <2>2, Zenon DEF OnPath
<1>9. ASSUME obs[n].exp.layer = "http", Target.https
      PROVE  \E i \in 1..(n - 1) : obs[i].exp = NewTLS(Target, f, "", "") /\ Passed(obs[i])
  <2>1. /\ obs[n].exp # NewQUIC(Target, f, "") /\ obs[n].exp # NewTCP(Target, f)
        /\ obs[n].exp # NewTLS(Target, f, "", "")
    BY <1>7, <1>9
  <2> QED
    BY <1>2, <1>9, <2>1, Zenon DEF DidOn
<1> QED
  BY <1>1, <1>3, <1>4, <1>5, <1>6, <1>8, <1>9, Zenon

\* A fast survey probes a layer only after what it needs has passed.
THEOREM FastPrerequisitesMetAlways == Spec => []FastPrerequisitesMet
<1>1. Typed /\ NoRepeats /\ FastInv => FastPrerequisitesMet
  <2> SUFFICES ASSUME Typed, FastInv, ran = {"fast"},
                      NEW n \in DOMAIN observations,
                      NEW l \in Prerequisite[observations[n].exp.layer]
               PROVE  PassedBefore(n, l)
    BY DEF FastPrerequisitesMet, PrerequisitesMet
  <2>1. observations \in Seq(Observation) /\ FastDid(observations)
    BY DEF Typed, TypeOK, FastInv
  <2>2. n \in 1..Len(observations)
    BY <2>1
  <2>d. NewDNS(Target, "system").layer = "dns" /\ NewDNS(Target, "system").target = Target
    BY DNSFields
  <2>3. CASE n = 1
    <3>1. observations[n].exp.layer = "dns"
      <4>1. observations # << >>
        BY <2>1, <2>2
      <4> QED
        BY <2>1, <2>3, <2>d, <4>1 DEF FastDid
    <3>2. l \in {}
      <4>1. "dns" \in Layers
        BY Zenon DEF Layers
      <4> QED
        BY <3>1, <4>1 DEF Prerequisite
    <3> QED
      BY <3>2
  <2>4. CASE n # 1
    <3>1. PICK f \in Dialled :
             /\ observations[n].exp.family = f /\ observations[n].exp.target = Target
             /\ 1 \in 1..(n - 1) /\ Passed(observations[1])
             /\ observations[1].exp = NewDNS(Target, "system")
             /\ observations[n].exp.layer \in {"tcp", "tls", "http", "quic"}
             /\ observations[n].exp.layer \in {"tls", "http"} => \E i \in 1..(n - 1) :
                   observations[i].exp = NewTCP(Target, f) /\ Passed(observations[i])
             /\ observations[n].exp.layer = "http" /\ Target.https => \E i \in 1..(n - 1) :
                   observations[i].exp = NewTLS(Target, f, "", "") /\ Passed(observations[i])
      BY <2>1, <2>2, <2>4, FastNeeds, ZenonT(30)
    <3>2. /\ NewTCP(Target, f).layer = "tcp" /\ NewTCP(Target, f).family = f
          /\ NewTCP(Target, f).target = Target
          /\ NewTLS(Target, f, "", "").layer = "tls" /\ NewTLS(Target, f, "", "").family = f
          /\ NewTLS(Target, f, "", "").target = Target
      BY DEF NewTLS, NewTCP, Normalize, Draft, Dialled
    <3>3. /\ {"tcp", "tls", "http", "quic"} \subseteq Layers
          /\ "tcp" # "dns" /\ "tls" # "dns" /\ "http" # "dns" /\ "quic" # "dns"
      BY DEF Layers
    <3>4. CASE observations[n].exp.layer \in {"tcp", "quic"}
      <4>1. l = "dns"
        BY <3>3, <3>4 DEF Prerequisite
      <4> QED
        BY <2>d, <3>1, <4>1 DEF PassedBefore
    <3>5. CASE observations[n].exp.layer = "tls"
      <4>1. l = "tcp"
        BY <3>3, <3>5 DEF Prerequisite
      <4>2. PICK i \in 1..(n - 1) :
               observations[i].exp = NewTCP(Target, f) /\ Passed(observations[i])
        BY <3>1, <3>5
      <4> QED
        BY <3>1, <3>2, <4>1, <4>2 DEF PassedBefore
    <3>6. CASE observations[n].exp.layer = "http"
      <4>1. l = IF Target.https THEN "tls" ELSE "tcp"
        BY <3>3, <3>6 DEF Prerequisite
      <4>2. CASE Target.https
        <5>1. PICK i \in 1..(n - 1) :
                 observations[i].exp = NewTLS(Target, f, "", "") /\ Passed(observations[i])
          BY <3>1, <3>6, <4>2
        <5> QED
          BY <3>1, <3>2, <4>1, <4>2, <5>1, ZenonT(30) DEF PassedBefore
      <4>3. CASE ~Target.https
        <5>1. PICK i \in 1..(n - 1) :
                 observations[i].exp = NewTCP(Target, f) /\ Passed(observations[i])
          BY <3>1, <3>6
        <5> QED
          BY <3>1, <3>2, <4>1, <4>3, <5>1 DEF PassedBefore
      <4> QED
        BY <4>2, <4>3
    <3> QED
      BY <3>1, <3>4, <3>5, <3>6
  <2> QED
    BY <2>3, <2>4
<1> QED
  BY <1>1, FastInvAlways, PTL

-----------------------------------------------------------------------------
(* What the adaptive policy explains. *)

\* TCP to the target failed on every family that DNS has an address for.
TCPFailed(obs) ==
    \A f \in ToSet(Fams(obs)) : \E i \in 1..Len(obs) :
        obs[i].exp = NewTCP(Target, f) /\ ~Passed(obs[i])

\* Of these observations the policies may have asked for e: TCP and TLS
\* are on the families of the last DNS observation, and TCP to another port
\* comes after it failed on the target's own.
Suited(obs, e) ==
    /\ e.layer \in {"tcp", "tls"} =>
          Passed(Latest(obs, "dns", "")) /\ e.family \in ToSet(Fams(obs))
    /\ e.layer = "tls" => Target.https /\ e.target = Target
    /\ e.layer = "tcp" => /\ e = NewTCP(e.target, e.family)
                          /\ e.target = Target \/ TCPFailed(obs)

\* The fast and the adaptive policy record nothing else, and DNS is asked again
\* only before it passed, in a round of its own.
TreeInv ==
    ran \subseteq {"fast", "adaptive"} =>
        /\ \A n \in 1..Len(observations) : Suited(observations, observations[n].exp)
        /\ \A p \in 1..Len(batch) :
              /\ Suited(observations, batch[p])
              /\ batch[p].layer = "dns" =>
                    /\ ~Passed(Latest(observations, "dns", ""))
                    /\ \A q \in 1..Len(batch) : batch[q] = batch[p]

\* What the constructors of the probes put together, one by one.
LEMMA TCPFields ==
  ASSUME NEW f \in Dialled, NEW t
  PROVE  NewTCP(t, f).layer = "tcp" /\ NewTCP(t, f).family = f /\ NewTCP(t, f).target = t
  BY DEF NewTCP, Normalize, Draft, Dialled

\* ... of HTTP and of QUIC,
LEMMA UpperFields ==
  ASSUME NEW f \in Dialled, NEW t, NEW a
  PROVE  NewHTTP(t, f, a).layer = "http" /\ NewQUIC(t, f, a).layer = "quic"
  BY DEF NewHTTP, NewQUIC, Normalize, Draft, Dialled

\* ... and of UDP.
LEMMA UDPFields ==
  ASSUME NEW f \in Dialled, NEW t, NEW n
  PROVE  NewUDP(t, f, n).layer = "udp"
  BY DEF NewUDP, Normalize, Draft, Dialled

\* On a family of a DNS observation that passed, these are suited.
LEMMA SuitedOn ==
  ASSUME NEW obs, Passed(Latest(obs, "dns", "")), NEW f \in Dialled, f \in ToSet(Fams(obs))
  PROVE  /\ Suited(obs, NewTCP(Target, f))
         /\ TCPFailed(obs) => \A t : Suited(obs, NewTCP(t, f))
         /\ Target.https => \A a, sni : Suited(obs, NewTLS(Target, f, a, sni))
         /\ \A a : Suited(obs, NewHTTP(Target, f, a)) /\ Suited(obs, NewQUIC(Target, f, a))
         /\ \A n : Suited(obs, NewUDP(Target, f, n))
<1>1. ASSUME NEW t
      PROVE  /\ NewTCP(t, f).layer = "tcp" /\ NewTCP(t, f).family = f /\ NewTCP(t, f).target = t
  BY TCPFields
<1>2. ASSUME NEW t, t = Target \/ TCPFailed(obs) PROVE Suited(obs, NewTCP(t, f))
  BY <1>1, <1>2, Zenon DEF Suited
<1>3. ASSUME NEW a, NEW sni, Target.https PROVE Suited(obs, NewTLS(Target, f, a, sni))
  <2>1. /\ NewTLS(Target, f, a, sni).layer = "tls"
        /\ NewTLS(Target, f, a, sni).family = f /\ NewTLS(Target, f, a, sni).target = Target
    BY DEF NewTLS, Normalize, Draft, Dialled
  <2>2. NewTLS(Target, f, a, sni).layer # "tcp"
    BY <2>1
  <2> QED
    BY <1>3, <2>1, <2>2, Zenon DEF Suited
<1>4. ASSUME NEW a PROVE Suited(obs, NewHTTP(Target, f, a)) /\ Suited(obs, NewQUIC(Target, f, a))
  <2>1. NewHTTP(Target, f, a).layer = "http" /\ NewQUIC(Target, f, a).layer = "quic"
    BY UpperFields
  <2> QED
    BY <2>1 DEF Suited
<1>5. ASSUME NEW n PROVE Suited(obs, NewUDP(Target, f, n))
  <2>1. NewUDP(Target, f, n).layer = "udp"
    BY UDPFields
  <2> QED
    BY <2>1 DEF Suited
<1> QED
  BY <1>2, <1>3, <1>4, <1>5

\* The families of an observation are its ordered list's.
LEMMA FamsAre ==
  ASSUME NEW obs
  PROVE  /\ Fams(obs) \in Seq(Dialled) /\ Len(Fams(obs)) <= 2
         /\ ToSet(Fams(obs)) \subseteq Dialled
         /\ \A k \in 1..Len(Fams(obs)) : Fams(obs)[k] \in ToSet(Fams(obs))
         /\ \A f \in ToSet(Fams(obs)) : \E k \in 1..Len(Fams(obs)) : f = Fams(obs)[k]
         /\ Fams(obs) # << >> => 1 \in 1..Len(Fams(obs))
         /\ DOMAIN Fams(obs) = 1..Len(Fams(obs))
<1> DEFINE fams == Fams(obs)
<1>1. fams \in Seq(Dialled) /\ Len(fams) <= 2
  BY FamiliesAre DEF Fams
<1> HIDE DEF fams
<1>2. DOMAIN fams = 1..Len(fams) /\ \A k \in 1..Len(fams) : fams[k] \in Dialled
  BY <1>1
<1>3. ToSet(fams) = {fams[k] : k \in 1..Len(fams)}
  BY <1>2, Zenon DEF ToSet
<1>4. fams # << >> => 1 \in 1..Len(fams)
  BY <1>1
<1> QED
  BY <1>1, <1>2, <1>3, <1>4 DEF fams

\* A DNS experiment is suited at any time.
LEMMA SuitedDNS ==
  ASSUME NEW obs, NEW r \in {"system", "public"}
  PROVE  Suited(obs, NewDNS(Target, r)) /\ NewDNS(Target, r).layer = "dns"
<1>1. NewDNS(Target, r).layer = "dns"
  BY DNSFields
<1> QED
  BY <1>1 DEF Suited

\* What the fast policy plans is suited, and DNS stands alone there.
LEMMA FastPlanSuited ==
  ASSUME NEW obs \in Seq(Observation), NEW i \in 1..Len(FastPlan(obs))
  PROVE  /\ Suited(obs, FastPlan(obs)[i])
         /\ FastPlan(obs)[i].layer = "dns" =>
               /\ ~Passed(Latest(obs, "dns", ""))
               /\ \A j \in 1..Len(FastPlan(obs)) : FastPlan(obs)[j] = FastPlan(obs)[i]
<1> DEFINE s == FastPlan(obs)
           fams == Fams(obs)
<1>1. CASE ~Seen(Latest(obs, "dns", "")) /\ s = <<NewDNS(Target, "system")>>
  <2> DEFINE d == NewDNS(Target, "system")
  <2>1. Suited(obs, d)
    BY SuitedDNS
  <2>2. ~Passed(Latest(obs, "dns", ""))
    BY <1>1 DEF Passed, Seen
  <2> HIDE DEF d
  <2>3. \A j \in 1..Len(s) : s[j] = d
    <3>1. s = <<d>>
      BY <1>1 DEF d
    <3> HIDE DEF s
    <3> QED
      BY <3>1
  <2> QED
    BY <2>1, <2>2, <2>3, Zenon
<1>2. CASE /\ Passed(Latest(obs, "dns", "")) /\ fams # << >> /\ FastStep(obs, s, i)
  <2>1. 1 \in 1..Len(fams)
    BY <1>2, FamsAre
  <2>2. PICK k \in 1..Len(fams) :
           \/ s[i] = NewTCP(Target, fams[k])
           \/ Target.https /\ s[i] = NewTLS(Target, fams[k], "", "")
           \/ s[i] = NewHTTP(Target, fams[k], "") \/ s[i] = NewQUIC(Target, fams[k], "")
    BY <1>2, <2>1, Zenon DEF FastStep, TCPInTurn, TLSNext, HTTPNext
  <2>3. fams[k] \in ToSet(fams) /\ fams[k] \in Dialled
    BY FamsAre
  <2>4. Suited(obs, s[i])
    BY <1>2, <2>2, <2>3, SuitedOn, Zenon
  <2>5. s[i].layer # "dns"
    <3>1. /\ NewTCP(Target, fams[k]).layer # "dns" /\ NewTLS(Target, fams[k], "", "").layer # "dns"
          /\ NewHTTP(Target, fams[k], "").layer # "dns"
          /\ NewQUIC(Target, fams[k], "").layer # "dns"
      <4>1. /\ NewTCP(Target, fams[k]).layer = "tcp"
            /\ NewTLS(Target, fams[k], "", "").layer = "tls"
            /\ NewHTTP(Target, fams[k], "").layer = "http"
            /\ NewQUIC(Target, fams[k], "").layer = "quic"
        BY <2>3 DEF NewTCP, NewTLS, NewHTTP, NewQUIC, Normalize, Draft, Dialled
      <4> QED
        BY <4>1
    <3> QED
      BY <2>2, <3>1, Zenon
  <2> QED
    BY <2>4, <2>5
<1>3. s # << >>
  <2> HIDE DEF s
  <2>1. i \in 1..Len(s)
    BY DEF s
  <2>2. s = << >> => Len(s) = 0
    OBVIOUS
  <2> QED
    BY <2>1, <2>2
<1> QED
  BY <1>1, <1>2, <1>3, FastPlanIs, Zenon

\* So is what the adaptive policy follows up, and DNS stands alone there too.
LEMMA FollowUpsSuited ==
  ASSUME NEW obs \in Seq(Observation), \A n \in 1..Len(obs) : Suited(obs, obs[n].exp),
         NEW e \in FollowUps(obs)
  PROVE  /\ Suited(obs, e)
         /\ e.layer = "dns" =>
               ~Passed(Latest(obs, "dns", "")) /\ \A x \in FollowUps(obs) : x = e
<1> DEFINE fams == Fams(obs)
           dns == Latest(obs, "dns", "")
           tcp == [f \in ToSet(fams) |-> Latest(obs, "tcp", f)]
           reached == \E i \in DOMAIN fams :
                         /\ Passed(tcp[fams[i]])
                         /\ \A j \in 1..i : Seen(tcp[fams[j]])
           down == fams # << >> /\ \A f \in ToSet(fams) : Seen(tcp[f]) /\ ~Passed(tcp[f])
<1>1. /\ \A k \in 1..Len(fams) : fams[k] \in ToSet(fams) /\ fams[k] \in Dialled
      /\ ToSet(fams) \subseteq Dialled
      /\ fams # << >> => 1 \in 1..Len(fams)
      /\ DOMAIN fams = 1..Len(fams) /\ Len(fams) \in Nat
  <2>1. fams \in Seq(Dialled)
    BY FamsAre
  <2>2. Len(fams) \in Nat
    BY <2>1, Places, Zenon
  <2>3. /\ \A k \in 1..Len(fams) : fams[k] \in ToSet(fams)
        /\ ToSet(fams) \subseteq Dialled
        /\ fams # << >> => 1 \in 1..Len(fams)
        /\ DOMAIN fams = 1..Len(fams)
    BY FamsAre
  <2> QED
    BY <2>2, <2>3
<1>2. \/ ~Passed(dns) /\ FollowUps(obs) = {NewDNS(Target, "public")}
      \/ Passed(dns) /\ e \in TCPFollowUp(obs, fams)
      \/ Passed(dns) /\ down /\ e = NewTCP(WithPort(Target, 80), fams[1])
      \/ Passed(dns) /\ Target.https /\ e \in TLSFollowUps(obs, fams)
      \/ Passed(dns) /\ reached /\ e \in UDPFollowUp(obs, fams)
      \/ Passed(dns) /\ e \in HTTPFollowUps(obs, fams)
  BY Zenon DEF FollowUps, Fams
<1>3. down => TCPFailed(obs)
  <2>1. SUFFICES ASSUME down, ~TCPFailed(obs), NEW f \in ToSet(fams)
                 PROVE  \E i \in 1..Len(obs) : obs[i].exp = NewTCP(Target, f) /\ ~Passed(obs[i])
    BY Zenon DEF TCPFailed
  <2>2. Seen(Latest(obs, "tcp", f)) /\ ~Passed(Latest(obs, "tcp", f))
    <3>1. tcp[f] = Latest(obs, "tcp", f)
      BY Zenon
    <3> HIDE DEF tcp
    <3> QED
      BY <2>1, <3>1, Zenon
  <2>3. PICK i \in 1..Len(obs) : Latest(obs, "tcp", f) = obs[i] /\ At(obs, i, "tcp", f)
    BY <2>2, LatestSeen
  <2>4. f \in Dialled /\ f # ""
    BY <1>1 DEF Dialled
  <2>5. obs[i].exp.layer = "tcp" /\ obs[i].exp.family = f
    BY <2>3, <2>4 DEF At
  <2>6. Suited(obs, obs[i].exp)
    OBVIOUS
  <2>7. obs[i].exp = NewTCP(Target, f)
    BY <2>1, <2>5, <2>6, Zenon DEF Suited
  <2> QED
    BY <2>2, <2>3, <2>7
<1>4. reached => fams # << >>
  <2>1. reached => DOMAIN fams # {}
    BY Zenon
  <2> HIDE DEF fams, reached
  <2> QED
    BY <1>1, <2>1
<1>5. down => fams # << >>
  BY Zenon
<1> HIDE DEF fams, tcp, reached, down, dns
<1>s. ASSUME Passed(dns), NEW f \in Dialled, f \in ToSet(fams)
      PROVE  /\ Suited(obs, NewTCP(Target, f))
             /\ TCPFailed(obs) => \A t : Suited(obs, NewTCP(t, f))
             /\ Target.https => \A a, sni : Suited(obs, NewTLS(Target, f, a, sni))
             /\ \A a : Suited(obs, NewHTTP(Target, f, a))
             /\ \A n : Suited(obs, NewUDP(Target, f, n))
  BY <1>s, SuitedOn DEF dns, fams
<1>6. CASE ~Passed(dns) /\ FollowUps(obs) = {NewDNS(Target, "public")}
  <2>1. e = NewDNS(Target, "public") /\ Suited(obs, NewDNS(Target, "public"))
    BY <1>6, SuitedDNS
  <2> QED
    BY <1>6, <2>1 DEF dns
<1>7. ASSUME NEW f \in Dialled, NEW t, NEW a, NEW sni, NEW n,
             \/ e = NewTCP(t, f) \/ e = NewTLS(t, f, a, sni)
             \/ e = NewHTTP(t, f, a) \/ e = NewUDP(t, f, n)
      PROVE  e.layer # "dns"
  <2>1. NewTCP(t, f).layer # "dns"
    BY DEF NewTCP, Normalize, Draft, Dialled
  <2>2. NewTLS(t, f, a, sni).layer # "dns"
    BY DEF NewTLS, Normalize, Draft, Dialled
  <2>3. NewHTTP(t, f, a).layer # "dns"
    BY DEF NewHTTP, Normalize, Draft, Dialled
  <2>4. NewUDP(t, f, n).layer # "dns"
    BY DEF NewUDP, Normalize, Draft, Dialled
  <2> QED
    BY <1>7, <2>1, <2>2, <2>3, <2>4, Zenon
<1>8. CASE Passed(dns) /\ e \in TCPFollowUp(obs, fams)
  <2>1. Len(fams) > 1 /\ e = NewTCP(Target, fams[2])
    BY <1>8, Zenon DEF TCPFollowUp
  <2>2. 2 \in 1..Len(fams)
    BY <1>1, <2>1
  <2> QED
    BY <1>1, <1>7, <1>8, <1>s, <2>1, <2>2, Zenon
<1>9. CASE Passed(dns) /\ down /\ e = NewTCP(WithPort(Target, 80), fams[1])
  BY <1>1, <1>3, <1>5, <1>7, <1>9, <1>s, Zenon
<1>10. CASE Passed(dns) /\ Target.https /\ e \in TLSFollowUps(obs, fams)
  <2>1. PICK f \in ToSet(fams) :
           \/ e = NewTLS(Target, f, "", "none") \/ e = NewTLS(Target, f, "http/1.1", "")
           \/ e = NewTLS(Target, OtherFamily(f), "", "") /\ Contains(fams, OtherFamily(f))
    BY <1>10, Zenon DEF TLSFollowUps
  <2>2. f \in Dialled /\ OtherFamily(f) \in Dialled
    BY <1>1 DEF OtherFamily, Dialled
  <2>3. Contains(fams, OtherFamily(f)) => OtherFamily(f) \in ToSet(fams)
    BY <1>1, Zenon DEF Contains
  <2> QED
    BY <1>7, <1>10, <1>s, <2>1, <2>2, <2>3, Zenon
<1>11. CASE Passed(dns) /\ reached /\ e \in UDPFollowUp(obs, fams)
  <2>1. e = NewUDP(Target, fams[1], 0)
    BY <1>11, Zenon DEF UDPFollowUp
  <2> QED
    BY <1>1, <1>4, <1>7, <1>11, <1>s, <2>1, Zenon
<1>12. CASE Passed(dns) /\ e \in HTTPFollowUps(obs, fams)
  <2>1. PICK f \in ToSet(fams) : e = NewHTTP(Target, f, "http/1.1")
    BY <1>12, Zenon DEF HTTPFollowUps
  <2>2. f \in Dialled
    BY <1>1
  <2> QED
    BY <1>7, <1>12, <1>s, <2>1, <2>2, Zenon
<1> QED
  BY <1>2, <1>6, <1>8, <1>9, <1>10, <1>11, <1>12

\* The order of places.
LEMMA Between ==
  ASSUME NEW n \in Nat, NEW i \in 1..n, NEW h \in 1..n, i <= h, h <= i
  PROVE  i = h
  OBVIOUS

\* Recording a probe above DNS leaves the families and the failures be.
LEMMA SuitedGrows ==
  ASSUME NEW s \in Seq(Observation), NEW t \in Seq(Observation), Len(t) = Len(s) + 1,
         \A i \in 1..Len(s) : t[i] = s[i], t[Len(s) + 1].exp.layer # "dns"
  PROVE  /\ Latest(t, "dns", "") = Latest(s, "dns", "")
         /\ \A e : Suited(s, e) => Suited(t, e)
<1> DEFINE n == Len(s)
<1>0. n \in Nat /\ DOMAIN s = 1..n /\ DOMAIN t = 1..(n + 1)
  OBVIOUS
<1>1. \A i \in 1..n : i \in 1..(n + 1) /\ t[i] = s[i]
  BY <1>0
<1>2. \A i \in 1..(n + 1) : i \in 1..n \/ i = n + 1
  BY <1>0
<1> HIDE DEF n
<1>3. Of(t, "dns", "") = Of(s, "dns", "")
  <2>1. t[n + 1].exp.layer # "dns"
    BY DEF n
  <2> QED
    BY <1>0, <1>1, <1>2, <2>1 DEF Of
<1>4. Latest(t, "dns", "") = Latest(s, "dns", "")
  <2>1. CASE Of(s, "dns", "") = {}
    BY <1>3, <2>1, LatestIs
  <2>2. CASE Of(s, "dns", "") # {}
    <3>1. PICK i \in Of(s, "dns", "") :
             Latest(s, "dns", "") = s[i] /\ \A j \in Of(s, "dns", "") : j <= i
      BY <2>2, LatestIs
    <3>2. PICK h \in Of(s, "dns", "") :
             Latest(t, "dns", "") = t[h] /\ \A j \in Of(s, "dns", "") : j <= h
      BY <1>3, <2>2, LatestIs
    <3>3. i \in 1..n /\ h \in 1..n /\ i <= h /\ h <= i
      <4>1. Of(s, "dns", "") \subseteq 1..n
        BY <1>0, Zenon DEF Of
      <4> QED
        BY <3>1, <3>2, <4>1
    <3>4. i = h
      <4>1. n \in Nat
        BY <1>0
      <4> QED
        BY <3>3, <4>1, Between, Zenon
    <3> QED
      BY <1>1, <3>1, <3>2, <3>3, <3>4
  <2> QED
    BY <2>1, <2>2
<1>5. Fams(t) = Fams(s)
  BY <1>4 DEF Fams
<1>6. TCPFailed(s) => TCPFailed(t)
  <2>1. ASSUME TCPFailed(s), NEW f \in ToSet(Fams(s))
        PROVE  \E i \in 1..Len(t) : t[i].exp = NewTCP(Target, f) /\ ~Passed(t[i])
    <3>1. PICK i \in 1..n : s[i].exp = NewTCP(Target, f) /\ ~Passed(s[i])
      BY <2>1, Zenon DEF TCPFailed, n
    <3>2. i \in 1..Len(t)
      BY <1>1 DEF n
    <3> QED
      BY <1>1, <3>1, <3>2
  <2> QED
    BY <1>5, <2>1, Zenon DEF TCPFailed
<1>7. ASSUME NEW e, Suited(s, e) PROVE Suited(t, e)
  BY <1>4, <1>5, <1>6, <1>7, Zenon DEF Suited
<1> QED
  BY <1>4, <1>7

\* What the two policies propose is suited; where they ask DNS, they ask
\* nothing else.
LEMMA ProposalSuited ==
  ASSUME TypeOK, policy \in {"fast", "adaptive"},
         \A n \in 1..Len(observations) : Suited(observations, observations[n].exp),
         NEW p \in 1..Len(Proposal)
  PROVE  /\ Suited(observations, Proposal[p])
         /\ Proposal[p].layer = "dns" =>
               /\ ~Passed(Latest(observations, "dns", ""))
               /\ \A q \in 1..Len(Proposal) : Proposal[q] = Proposal[p]
<1>0. observations \in Seq(Observation)
  BY DEF TypeOK
<1>1. CASE \A q \in 1..Len(Proposal) :
              \E i \in 1..Len(FastPlan(observations)) : Proposal[q] = FastPlan(observations)[i]
  <2>1. PICK i \in 1..Len(FastPlan(observations)) : Proposal[p] = FastPlan(observations)[i]
    BY <1>1
  <2>2. /\ Suited(observations, FastPlan(observations)[i])
        /\ FastPlan(observations)[i].layer = "dns" =>
              /\ ~Passed(Latest(observations, "dns", ""))
              /\ \A j \in 1..Len(FastPlan(observations)) :
                    FastPlan(observations)[j] = FastPlan(observations)[i]
    BY <1>0, FastPlanSuited
  <2> QED
    BY <1>1, <2>1, <2>2, Zenon
<1>2. CASE \A q \in 1..Len(Proposal) : Proposal[q] \in FollowUps(observations)
  <2>1. Proposal[p] \in FollowUps(observations)
    BY <1>2
  <2> QED
    BY <1>0, <1>2, <2>1, FollowUpsSuited
<1>3. policy = "fast" => \A q \in 1..Len(Proposal) :
              \E i \in 1..Len(FastPlan(observations)) : Proposal[q] = FastPlan(observations)[i]
  BY FastProposalFrom, Zenon DEF FromFastPlan
<1> QED
  BY <1>1, <1>2, <1>3, AdaptiveProposalFrom

\* Each step of a survey by the two keeps what it records suited.
LEMMA TreeInvStep == Typed /\ NoRepeats /\ TreeInv /\ [Next]_vars => TreeInv'
<1> SUFFICES ASSUME Typed, NoRepeats, TreeInv, [Next]_vars, ran' \subseteq {"fast", "adaptive"}
             PROVE  /\ \A n \in 1..Len(observations') : Suited(observations', observations'[n].exp)
                    /\ \A p \in 1..Len(batch') :
                          /\ Suited(observations', batch'[p])
                          /\ batch'[p].layer = "dns" =>
                                /\ ~Passed(Latest(observations', "dns", ""))
                                /\ \A q \in 1..Len(batch') : batch'[q] = batch'[p]
  BY Zenon DEF TreeInv
<1>0. TypeOK /\ policy \in ran /\ observations \in Seq(Observation) /\ batch \in Seq(Experiment)
  BY DEF Typed, TypeOK, RoundInv
<1>r. ran \subseteq {"fast", "adaptive"} /\ policy \in {"fast", "adaptive"}
  <2>1. ran \subseteq ran'
    BY DEF Next, vars, ProposeRound, Record, EndRound, Finish, Interrupt, Report, Resume
  <2> QED
    BY <1>0, <2>1
<1>v. /\ \A n \in 1..Len(observations) : Suited(observations, observations[n].exp)
      /\ \A p \in 1..Len(batch) : Suited(observations, batch[p])
      /\ \A p \in 1..Len(batch) : batch[p].layer = "dns" =>
            /\ ~Passed(Latest(observations, "dns", ""))
            /\ \A q \in 1..Len(batch) : batch[q] = batch[p]
  BY <1>r DEF TreeInv
<1>1. CASE ProposeRound
  <2>1. batch' = Proposal /\ observations' = observations
    BY <1>1 DEF ProposeRound
  <2>2. ASSUME NEW p \in 1..Len(Proposal)
        PROVE  /\ Suited(observations, Proposal[p])
               /\ Proposal[p].layer = "dns" =>
                     /\ ~Passed(Latest(observations, "dns", ""))
                     /\ \A q \in 1..Len(Proposal) : Proposal[q] = Proposal[p]
    BY <1>0, <1>r, <1>v, ProposalSuited
  <2> QED
    BY <1>v, <2>1, <2>2
<1>2. CASE Record
  <2> DEFINE n == Len(observations)
             b == Len(batch)
  <2>1. PICK o \in Observation :
            /\ o.exp = batch[1]
            /\ observations' \in Seq(Observation)
            /\ Len(observations') = n + 1
            /\ \A i \in 1..n : observations'[i] = observations[i]
            /\ observations'[n + 1] = o
            /\ batch' \in Seq(Experiment)
            /\ Len(batch') = b - 1 /\ b >= 1
            /\ \A i \in 1..Len(batch') : batch'[i] = batch[i + 1]
    BY <1>0, <1>2, RecordIs
  <2>2. n \in Nat /\ b \in Nat
    BY <1>0
  <2>3. /\ 1 \in 1..b /\ observations'[n + 1].exp = batch[1]
        /\ \A i \in 1..(b - 1) : i + 1 \in 1..b /\ batch'[i] = batch[i + 1]
        /\ \A k \in 1..(n + 1) : k \in 1..n \/ k = n + 1
    BY <2>1, <2>2
  <2>4. CASE batch[1].layer = "dns"
    <3>1. /\ ~Passed(Latest(observations, "dns", ""))
          /\ \A q \in 1..b : batch[q] = batch[1]
      BY <1>v, <2>3, <2>4
    <3>2. b = 1
      <4>1. DOMAIN batch = 1..b
        BY <1>0
      <4>2. \A q \in 1..b : q = 1
        BY <2>3, <3>1, <4>1 DEF NoRepeats, IsInjective
      <4>3. b \in 1..b
        BY <2>1, <2>2
      <4> QED
        BY <4>2, <4>3
    <3>3. 1..Len(batch') = {}
      BY <2>1, <3>2
    <3>4. ASSUME NEW k \in 1..(n + 1) PROVE Suited(observations', observations'[k].exp)
      <4>1. observations'[k].exp.layer \notin {"tcp", "tls"}
        <5>1. CASE k \in 1..n
          <6>1. observations'[k] = observations[k] /\ Suited(observations, observations[k].exp)
            BY <1>v, <2>1, <5>1
          <6> QED
            BY <3>1, <6>1, Zenon DEF Suited
        <5>2. CASE k = n + 1
          <6>1. observations'[k].exp.layer = "dns"
            BY <2>3, <2>4, <5>2
          <6> QED
            BY <6>1
        <5> QED
          BY <2>3, <5>1, <5>2
      <4> QED
        BY <4>1 DEF Suited
    <3> QED
      BY <2>1, <3>3, <3>4
  <2>5. CASE batch[1].layer # "dns"
    <3>1. /\ Latest(observations', "dns", "") = Latest(observations, "dns", "")
          /\ \A e : Suited(observations, e) => Suited(observations', e)
      <4>1. /\ observations' \in Seq(Observation) /\ Len(observations') = Len(observations) + 1
            /\ \A i \in 1..Len(observations) : observations'[i] = observations[i]
            /\ observations'[Len(observations) + 1].exp.layer # "dns"
        BY <2>1, <2>5
      <4> HIDE DEF n, b
      <4> QED
        BY <1>0, <4>1, SuitedGrows
    <3>2. ASSUME NEW k \in 1..(n + 1) PROVE Suited(observations', observations'[k].exp)
      <4>1. CASE k \in 1..n
        <5>1. observations'[k] = observations[k] /\ Suited(observations, observations[k].exp)
          BY <1>v, <2>1, <4>1
        <5> QED
          BY <3>1, <5>1
      <4>2. CASE k = n + 1
        BY <1>v, <2>3, <3>1, <4>2
      <4> QED
        BY <2>3, <4>1, <4>2
    <3>3. ASSUME NEW p \in 1..(b - 1)
          PROVE  /\ Suited(observations', batch'[p])
                 /\ batch'[p].layer # "dns"
      <4>1. batch'[p] = batch[p + 1] /\ p + 1 \in 1..b
        BY <2>3
      <4>2. batch[p + 1].layer = "dns" => batch[1] = batch[p + 1]
        BY <1>v, <2>3, <4>1
      <4> QED
        BY <1>v, <2>5, <3>1, <4>1, <4>2
    <3> QED
      BY <2>1, <3>2, <3>3
  <2> QED
    BY <2>4, <2>5
<1>3. CASE EndRound \/ Finish \/ Interrupt \/ Resume \/ UNCHANGED vars
  <2>1. UNCHANGED <<observations, batch>>
    BY <1>3 DEF EndRound, Finish, Interrupt, Report, Resume, vars
  <2> QED
    BY <1>v, <2>1
<1> QED
  BY <1>1, <1>2, <1>3 DEF Next

\* So it always is.
LEMMA TreeInvAlways == Spec => [](Typed /\ NoRepeats /\ TreeInv)
<1>1. Init => TreeInv
  <2> SUFFICES ASSUME Init PROVE TreeInv
    OBVIOUS
  <2>1. observations = << >> /\ batch = << >> /\ Len(<< >>) = 0 /\ 1..0 = {}
    BY DEF Init
  <2> QED
    BY <2>1, Zenon DEF TreeInv
<1>2. Typed /\ NoRepeats /\ TreeInv /\ [Next]_vars => TreeInv'
  BY TreeInvStep
<1> QED
  BY <1>1, <1>2, SurveyTypedAlways, NoRepeatsAlways, PTL DEF Spec

\* Two concatenated sequences are empty only when both are.
LEMMA ConcatEmpty ==
  ASSUME NEW S, NEW s \in Seq(S), NEW t \in Seq(S)
  PROVE  /\ s \o t \in Seq(S)
         /\ s \o t = << >> => s = << >> /\ t = << >>
<1>1. s \o t \in Seq(S) /\ Len(s \o t) = Len(s) + Len(t)
  BY ConcatProperties
<1>2. Len(s) \in Nat /\ Len(t) \in Nat
  OBVIOUS
<1>3. s \o t = << >> => Len(s \o t) = 0
  OBVIOUS
<1>4. s \o t = << >> => Len(s) = 0 /\ Len(t) = 0
  BY <1>1, <1>2, <1>3
<1> QED
  BY <1>1, <1>4

\* Nothing is left of a round of TCP only when TCP is seen on every family.
LEMMA TCPRoundDone ==
  ASSUME NEW obs \in Seq(Observation), NEW fams \in Seq(Dialled), Len(fams) <= 2,
         TCPRound(obs, fams) = << >>, NEW k \in 1..Len(fams)
  PROVE  Seen(Latest(obs, "tcp", fams[k]))
<1> DEFINE c(i) == i \in DOMAIN fams /\ ~Seen(Latest(obs, "tcp", fams[i]))
           e(i) == NewTCP(Target, fams[i])
           S == {e(1), e(2)}
<1>1. One(c(1), e(1)) \o One(c(2), e(2)) = << >>
  BY Zenon DEF TCPRound
<1>2. e(1) \in S /\ e(2) \in S
  OBVIOUS
<1> HIDE DEF e, S
<1>3. /\ One(c(1), e(1)) \in Seq(S) /\ (c(1) => One(c(1), e(1)) = <<e(1)>>)
      /\ One(c(2), e(2)) \in Seq(S) /\ (c(2) => One(c(2), e(2)) = <<e(2)>>)
  <2>1. One(c(1), e(1)) \in Seq(S) /\ (c(1) => One(c(1), e(1)) = <<e(1)>>)
    BY <1>2, OneIs, Zenon
  <2>2. One(c(2), e(2)) \in Seq(S) /\ (c(2) => One(c(2), e(2)) = <<e(2)>>)
    BY <1>2, OneIs, Zenon
  <2> QED
    BY <2>1, <2>2
<1>4. One(c(1), e(1)) = << >> /\ One(c(2), e(2)) = << >>
  <2> DEFINE s == One(c(1), e(1))
             t == One(c(2), e(2))
  <2>1. s \in Seq(S) /\ t \in Seq(S) /\ s \o t = << >>
    BY <1>1, <1>3
  <2> HIDE DEF s, t
  <2>2. s = << >> /\ t = << >>
    BY <2>1, ConcatEmpty
  <2> QED
    BY <2>2 DEF s, t
<1>5. ~c(1) /\ ~c(2)
  <2>1. <<e(1)>> # << >> /\ <<e(2)>> # << >>
    BY <1>2, OneOf, Zenon
  <2> QED
    BY <1>3, <1>4, <2>1, Zenon
<1>6. k \in DOMAIN fams /\ (k = 1 \/ k = 2)
  OBVIOUS
<1> QED
  BY <1>5, <1>6

\* A fast plan that comes to nothing past DNS has seen TCP on every family.
LEMMA FastPlanDone ==
  ASSUME NEW obs \in Seq(Observation), FastPlan(obs) = << >>, Passed(Latest(obs, "dns", "")),
         NEW f \in ToSet(Fams(obs))
  PROVE  Seen(Latest(obs, "tcp", f))
<1> DEFINE fams == Fams(obs)
<1>1. fams \in Seq(Dialled) /\ Len(fams) <= 2
  BY FamsAre
<1>2. PICK k \in 1..Len(fams) : f = fams[k]
  BY FamsAre
<1>3. fams[1] \in Dialled /\ fams # << >>
  <2>1. fams # << >>
    BY <1>1, <1>2, Places, Zenon
  <2>2. 1 \in 1..Len(fams)
    BY <2>1, FamsAre
  <2> QED
    BY <1>1, <2>1, <2>2, Places, Zenon
<1> DEFINE r == TCPRound(obs, fams)
           c == Target.https /\ ~Seen(Latest(obs, "quic", fams[1]))
           q == One(c, NewQUIC(Target, fams[1], ""))
           a == AfterTCP(obs, fams)
<1>4. r \o q \o a = << >>
  <2>1. Seen(Latest(obs, "dns", ""))
    BY DEF Passed, Seen
  <2> QED
    BY <1>3, <2>1, Zenon DEF FastPlan, Fams
<1>5. r \in Seq(Fresh(obs)) /\ a \in Seq(Fresh(obs)) /\ q \in Seq(Fresh(obs))
  <2> HIDE DEF fams
  <2>1. r \in Seq(Fresh(obs))
    BY <1>1, TCPRoundIs
  <2>2. a \in Seq(Fresh(obs))
    BY <1>1, AfterTCPIs
  <2>3. c => NewQUIC(Target, fams[1], "") \in Fresh(obs)
    BY <1>3, UnseenIsFresh
  <2>4. q \in Seq(Fresh(obs))
    BY <2>3, OneIs, Zenon
  <2> QED
    BY <2>1, <2>2, <2>4
<1>6. r = << >>
  <2> HIDE DEF r, q, a
  <2>1. r \o q \in Seq(Fresh(obs))
    BY <1>5, ConcatEmpty
  <2>2. r \o q = << >>
    BY <1>4, <1>5, <2>1, ConcatEmpty
  <2> QED
    BY <1>5, <2>2, ConcatEmpty
<1> QED
  BY <1>1, <1>2, <1>6, TCPRoundDone, Zenon

\* Where TCP passed once, it is the last word on its family.
LEMMA TCPStands ==
  ASSUME NEW obs \in Seq(Observation), Once(obs),
         \A n \in 1..Len(obs) : Suited(obs, obs[n].exp),
         NEW f \in Dialled, NEW i \in 1..Len(obs),
         Passed(obs[i]), obs[i].exp.layer = "tcp", obs[i].exp.family = f,
         obs[i].exp.target = Target
  PROVE  Passed(Latest(obs, "tcp", f))
<1>1. obs[i].exp = NewTCP(Target, f) /\ f \in ToSet(Fams(obs))
  BY DEF Suited
<1>2. ~TCPFailed(obs)
  <2>1. SUFFICES ASSUME TCPFailed(obs) PROVE FALSE
    OBVIOUS
  <2>2. PICK h \in 1..Len(obs) : obs[h].exp = NewTCP(Target, f) /\ ~Passed(obs[h])
    BY <1>1, <2>1, Zenon DEF TCPFailed
  <2>3. h = i
    BY <1>1, <2>2 DEF Once
  <2> QED
    BY <2>2, <2>3
<1>3. i \in Of(obs, "tcp", f)
  <2>1. i \in DOMAIN obs
    OBVIOUS
  <2> QED
    BY <2>1 DEF Of
<1>4. Seen(Latest(obs, "tcp", f))
  BY <1>3, LatestSeen
<1>5. PICK h \in 1..Len(obs) : Latest(obs, "tcp", f) = obs[h] /\ At(obs, h, "tcp", f)
  BY <1>4, LatestSeen
<1>6. f # ""
  BY DEF Dialled
<1>7. obs[h].exp.layer = "tcp" /\ obs[h].exp.family = f
  BY <1>5, <1>6 DEF At
<1>8. Suited(obs, obs[h].exp)
  OBVIOUS
<1>9. obs[h].exp = NewTCP(Target, f)
  BY <1>2, <1>7, <1>8, Zenon DEF Suited
<1>10. h = i
  BY <1>1, <1>9 DEF Once
<1> QED
  BY <1>5, <1>10

\* An adaptive survey that is done has explained each TLS failure over a
\* working TCP path.
THEOREM AdaptiveExplainsAlways == Spec => []AdaptiveExplains
<1>1. Typed /\ NoRepeats /\ TreeInv => AdaptiveExplains
  <2> SUFFICES ASSUME Typed, NoRepeats, TreeInv,
                      ran \subseteq {"fast", "adaptive"}, policy = "adaptive",
                      Done(policy, observations),
                      NEW n \in Of(observations, "tls", ""), Failed(observations[n]),
                      PassedBefore(n, "tcp")
               PROVE  \/ \E i \in Of(observations, "tls", observations[n].exp.family) :
                            Passed(observations[i])
                      \/ \A e \in {NewTLS(Target, observations[n].exp.family, "", "none"),
                                   NewTLS(Target, observations[n].exp.family, "http/1.1", "")} :
                            HasExperiment(observations, e)
    BY Zenon DEF AdaptiveExplains
  <2> DEFINE f == observations[n].exp.family
             fams == Fams(observations)
             tcp == [g \in ToSet(fams) |-> Latest(observations, "tcp", g)]
             tls == Latest(observations, "tls", f)
  <2>1. /\ observations \in Seq(Observation) /\ policy = "adaptive" /\ Once(observations)
        /\ \A k \in 1..Len(observations) : Suited(observations, observations[k].exp)
    BY DEF Typed, TypeOK, RoundInv, NoRepeats, Once, TreeInv
  <2>2. n \in 1..Len(observations) /\ observations[n].exp.layer = "tls"
    BY <2>1 DEF Of
  <2>3. /\ Passed(Latest(observations, "dns", "")) /\ f \in ToSet(fams) /\ f \in Dialled
        /\ Target.https /\ observations[n].exp.target = Target
    <3>1. /\ Passed(Latest(observations, "dns", "")) /\ f \in ToSet(fams)
          /\ Target.https /\ observations[n].exp.target = Target
      BY <2>1, <2>2 DEF Suited
    <3>2. ToSet(fams) \subseteq Dialled
      BY FamsAre
    <3> QED
      BY <3>1, <3>2
  <2>4. PICK h \in 1..(n - 1) :
           /\ Passed(observations[h]) /\ observations[h].exp.layer = "tcp"
           /\ observations[h].exp.target = Target /\ observations[h].exp.family = f
    BY <2>3 DEF PassedBefore
  <2>5. h \in 1..Len(observations)
    BY <2>1, <2>2, Places, Zenon
  <2>6. Passed(Latest(observations, "tcp", f))
    BY <2>1, <2>3, <2>4, <2>5, TCPStands, Zenon
  <2>7. FastPlan(observations) = << >> /\ Candidates(observations) = {}
    BY <2>1, Zenon DEF Done
  <2>8. \A g \in ToSet(fams) : Seen(Latest(observations, "tcp", g))
    BY <2>1, <2>3, <2>7, FastPlanDone
  <2>9. n \in Of(observations, "tls", f)
    BY DEF Of
  <2>10. Seen(tls)
    BY <2>1, <2>9, LatestSeen
  <2>11. CASE Passed(tls)
    <3>1. PICK i \in Of(observations, "tls", f) : tls = observations[i]
      BY <2>1, <2>9, LatestIs
    <3> QED
      BY <2>11, <3>1
  <2>12. CASE ~Passed(tls)
    <3> DEFINE pair == {NewTLS(Target, f, "", "none"), NewTLS(Target, f, "http/1.1", "")}
    <3>1. pair \subseteq TLSFollowUps(observations, fams)
      <4>1. f \in {g \in ToSet(fams) : /\ Passed(Latest(observations, "tcp", g))
                                       /\ Seen(Latest(observations, "tls", g))
                                       /\ ~Passed(Latest(observations, "tls", g))}
        BY <2>3, <2>6, <2>10, <2>12
      <4> DEFINE failed == {g \in ToSet(fams) : /\ Passed(Latest(observations, "tcp", g))
                                                /\ Seen(Latest(observations, "tls", g))
                                                /\ ~Passed(Latest(observations, "tls", g))}
                 more(g) == {NewTLS(Target, g, "", "none"), NewTLS(Target, g, "http/1.1", "")}
                            \cup IF /\ ~Seen(Latest(observations, "tls", OtherFamily(g)))
                                    /\ Contains(fams, OtherFamily(g))
                                 THEN {NewTLS(Target, OtherFamily(g), "", "")} ELSE {}
      <4>2. TLSFollowUps(observations, fams) = UNION {more(g) : g \in failed}
        BY Zenon DEF TLSFollowUps
      <4>3. pair \subseteq more(f)
        BY Zenon
      <4> HIDE DEF failed, more, pair
      <4>4. f \in failed
        BY <4>1 DEF failed
      <4> QED
        BY <4>2, <4>3, <4>4
    <3>2. TLSFollowUps(observations, fams) \subseteq FollowUps(observations)
      <4> DEFINE reached == \E i \in DOMAIN fams :
                               /\ Passed(tcp[fams[i]])
                               /\ \A j \in 1..i : Seen(tcp[fams[j]])
                 down == fams # << >> /\ \A g \in ToSet(fams) : Seen(tcp[g]) /\ ~Passed(tcp[g])
      <4>1. \A g \in ToSet(fams) : tcp[g] = Latest(observations, "tcp", g)
        BY Zenon
      <4>2. ~down
        <5> HIDE DEF tcp, fams
        <5> QED
          BY <2>3, <2>6, <4>1
      <4>3. reached
        <5>1. PICK k \in 1..Len(fams) : f = fams[k]
          BY <2>3, FamsAre
        <5>2. \A j \in 1..Len(fams) : fams[j] \in ToSet(fams)
          BY FamsAre
        <5>3. DOMAIN fams = 1..Len(fams) /\ \A j \in 1..k : j \in 1..Len(fams)
          <6>1. fams \in Seq(Dialled) /\ DOMAIN fams = 1..Len(fams)
            BY FamsAre
          <6>3. \A j \in 1..k : j \in 1..Len(fams)
            BY <6>1, Places, Zenon
          <6> QED
            BY <6>1, <6>3
        <5> HIDE DEF tcp, fams
        <5> QED
          BY <2>3, <2>6, <2>8, <4>1, <5>1, <5>2, <5>3, ZenonT(30)
      <4>4. Seen(Latest(observations, "dns", ""))
        BY <2>3 DEF Passed, Seen
      <4> HIDE DEF reached, down
      <4>5. FollowUps(observations) =
               TCPFollowUp(observations, fams) \cup
               (IF down THEN {NewTCP(WithPort(Target, 80), fams[1])}
                ELSE (IF reached /\ Target.https
                      THEN TLSFollowUps(observations, fams) \cup UDPFollowUp(observations, fams)
                      ELSE {})
                     \cup (IF reached THEN HTTPFollowUps(observations, fams) ELSE {}))
        BY <2>3, <4>4, Zenon DEF FollowUps, Fams, reached, down
      <4> HIDE DEF fams
      <4> QED
        BY <2>3, <4>2, <4>3, <4>5, Zenon
    <3>3. ASSUME NEW e \in pair PROVE HasExperiment(observations, e)
      <4>1. e \in FollowUps(observations) /\ e \notin Candidates(observations)
        BY <2>7, <3>1, <3>2
      <4> QED
        BY <4>1 DEF Candidates
    <3> QED
      BY <3>3
  <2> QED
    BY <2>11, <2>12
<1> QED
  BY <1>1, TreeInvAlways, PTL

-----------------------------------------------------------------------------
(* What is behind every probe above DNS. *)

\* The default handshake on the family was tried and did not pass, where TCP
\* did.
TLSFell(obs, f) ==
    /\ Passed(Latest(obs, "tcp", f))
    /\ \E i \in 1..Len(obs) : obs[i].exp = NewTLS(Target, f, "", "") /\ ~Passed(obs[i])

\* TCP goes to the target's own port, or to port 80.
TCPGround(e) == e.layer = "tcp" => e.target \in {Target, WithPort(Target, 80)}

\* A variant of TLS comes after the default failed on its family, and the
\* default after TCP has passed there, or after it failed on the other family.
TLSGround(obs, e) ==
    e.layer = "tls" =>
       /\ e = NewTLS(Target, e.family, e.alpn, e.sni)
       /\ IF IsCanonical(e)
          THEN Passed(Latest(obs, "tcp", e.family)) \/ TLSFell(obs, OtherFamily(e.family))
          ELSE TLSFell(obs, e.family)

\* There is one probe of QUIC, and one of UDP: on the first family.
UDPGround(obs, e) ==
    /\ e.layer \in {"udp", "quic"} => Passed(Latest(obs, "dns", ""))
    /\ e.layer = "quic" => e = NewQUIC(Target, Fams(obs)[1], "")
    /\ e.layer = "udp" => e = NewUDP(Target, Fams(obs)[1], 0)

\* All of these.
Grounded(obs, e) == TCPGround(e) /\ TLSGround(obs, e) /\ UDPGround(obs, e)

\* The fast and the adaptive policy record nothing else.
GroundInv ==
    ran \subseteq {"fast", "adaptive"} =>
        /\ \A n \in 1..Len(observations) : Grounded(observations, observations[n].exp)
        /\ \A p \in 1..Len(batch) : Grounded(observations, batch[p])

\* Elsewhere there is nothing to show.
LEMMA GroundedElse ==
  ASSUME NEW obs, NEW e, e.layer \notin {"tcp", "tls", "udp", "quic"}
  PROVE  Grounded(obs, e)
  BY DEF Grounded, TCPGround, TLSGround, UDPGround

\* TCP to either port is grounded,
LEMMA GroundedTCP ==
  ASSUME NEW obs, NEW f \in Dialled, NEW t \in {Target, WithPort(Target, 80)}
  PROVE  Grounded(obs, NewTCP(t, f))
<1>1. NewTCP(t, f).layer = "tcp" /\ NewTCP(t, f).target = t
  BY TCPFields
<1> DEFINE e == NewTCP(t, f)
<1>2. e.layer = "tcp" /\ e.target = t
  BY <1>1
<1> HIDE DEF e
<1>3. Grounded(obs, e)
  BY <1>2 DEF Grounded, TCPGround, TLSGround, UDPGround
<1> QED
  BY <1>3 DEF e

\* ... HTTP always,
LEMMA GroundedHTTP ==
  ASSUME NEW obs, NEW f \in Dialled, NEW a
  PROVE  Grounded(obs, NewHTTP(Target, f, a))
<1>1. NewHTTP(Target, f, a).layer = "http"
  BY UpperFields
<1> DEFINE e == NewHTTP(Target, f, a)
<1>2. e.layer \notin {"tcp", "tls", "udp", "quic"}
  BY <1>1
<1> HIDE DEF e
<1>3. Grounded(obs, e)
  BY <1>2, GroundedElse
<1> QED
  BY <1>3 DEF e

\* ... DNS too,
LEMMA GroundedDNS ==
  ASSUME NEW obs, NEW r \in {"system", "public"}
  PROVE  Grounded(obs, NewDNS(Target, r))
<1>1. NewDNS(Target, r).layer = "dns"
  BY DNSFields
<1> DEFINE e == NewDNS(Target, r)
<1>2. e.layer \notin {"tcp", "tls", "udp", "quic"}
  BY <1>1
<1> HIDE DEF e
<1>3. Grounded(obs, e)
  BY <1>2, GroundedElse
<1> QED
  BY <1>3 DEF e

\* ... QUIC and UDP on the first family,
LEMMA GroundedFirst ==
  ASSUME NEW obs, Passed(Latest(obs, "dns", "")), Fams(obs)[1] \in Dialled
  PROVE  /\ Grounded(obs, NewQUIC(Target, Fams(obs)[1], ""))
         /\ Grounded(obs, NewUDP(Target, Fams(obs)[1], 0))
<1> DEFINE f == Fams(obs)[1]
           q == NewQUIC(Target, f, "")
           u == NewUDP(Target, f, 0)
<1>1. q.layer = "quic" /\ u.layer = "udp"
  BY UpperFields, UDPFields
<1>2. q = NewQUIC(Target, Fams(obs)[1], "") /\ u = NewUDP(Target, Fams(obs)[1], 0)
  OBVIOUS
<1> HIDE DEF q, u, f
<1>3. Grounded(obs, q)
  BY <1>1, <1>2, Zenon DEF Grounded, TCPGround, TLSGround, UDPGround
<1>4. Grounded(obs, u)
  BY <1>1, <1>2, Zenon DEF Grounded, TCPGround, TLSGround, UDPGround
<1> QED
  BY <1>3, <1>4 DEF q, u, f

\* ... and TLS where its condition holds.
LEMMA GroundedTLS ==
  ASSUME NEW obs, NEW f \in Dialled, NEW a, NEW sni,
         IF a = "" /\ sni = ""
         THEN Passed(Latest(obs, "tcp", f)) \/ TLSFell(obs, OtherFamily(f))
         ELSE TLSFell(obs, f)
  PROVE  Grounded(obs, NewTLS(Target, f, a, sni))
<1> DEFINE e == NewTLS(Target, f, a, sni)
<1>1. /\ e.layer = "tls" /\ e.family = f /\ e.alpn = a /\ e.sni = sni
      /\ IsCanonical(e) <=> a = "" /\ sni = ""
  BY DEF NewTLS, Normalize, Draft, Dialled, IsCanonical
<1>2. e = NewTLS(Target, e.family, e.alpn, e.sni)
  BY <1>1, Zenon
<1> HIDE DEF e
<1>3. TLSGround(obs, e)
  BY <1>1, <1>2, Zenon DEF TLSGround
<1>4. TCPGround(e) /\ UDPGround(obs, e)
  BY <1>1 DEF TCPGround, UDPGround
<1> QED
  BY <1>3, <1>4 DEF e, Grounded

\* What the fast policy plans is grounded.
LEMMA FastPlanGrounded ==
  ASSUME NEW obs \in Seq(Observation), NEW i \in 1..Len(FastPlan(obs))
  PROVE  Grounded(obs, FastPlan(obs)[i])
<1> DEFINE s == FastPlan(obs)
           fams == Fams(obs)
<1>1. CASE s = <<NewDNS(Target, "system")>>
  <2> DEFINE d == NewDNS(Target, "system")
  <2>1. Grounded(obs, d)
    BY GroundedDNS
  <2> HIDE DEF d
  <2>2. s[i] = d
    <3>1. s = <<d>>
      BY <1>1 DEF d
    <3>2. i \in 1..Len(s)
      OBVIOUS
    <3> HIDE DEF s
    <3> QED
      BY <3>1, <3>2
  <2> QED
    BY <2>1, <2>2, Zenon
<1>2. CASE /\ Passed(Latest(obs, "dns", "")) /\ fams # << >> /\ FastStep(obs, s, i)
  <2>1. 1 \in 1..Len(fams) /\ \A k \in 1..Len(fams) : fams[k] \in Dialled
    <3>1. \A k \in 1..Len(fams) : fams[k] \in Dialled
      BY FamsAre
    <3> QED
      BY <1>2, <3>1, FamsAre
  <2>2. \/ \E k \in 1..Len(fams) : s[i] = NewTCP(Target, fams[k])
        \/ s[i] = NewQUIC(Target, fams[1], "")
        \/ \E k \in 1..Len(fams) : s[i] = NewHTTP(Target, fams[k], "")
        \/ \E k \in 1..Len(fams) :
              FirstReached(obs, fams, k) /\ s[i] = NewTLS(Target, fams[k], "", "")
    BY <1>2, Zenon DEF FastStep, TCPInTurn, TLSNext, HTTPNext
  <2>3. ASSUME NEW k \in 1..Len(fams), s[i] = NewTCP(Target, fams[k]) PROVE Grounded(obs, s[i])
    BY <2>1, <2>3, GroundedTCP, Zenon
  <2>4. ASSUME NEW k \in 1..Len(fams), s[i] = NewHTTP(Target, fams[k], "")
        PROVE  Grounded(obs, s[i])
    BY <2>1, <2>4, GroundedHTTP, Zenon
  <2>5. ASSUME s[i] = NewQUIC(Target, fams[1], "") PROVE Grounded(obs, s[i])
    BY <1>2, <2>1, <2>5, GroundedFirst, Zenon
  <2>6. ASSUME NEW k \in 1..Len(fams), FirstReached(obs, fams, k),
               s[i] = NewTLS(Target, fams[k], "", "")
        PROVE  Grounded(obs, s[i])
    <3>1. Passed(Latest(obs, "tcp", fams[k]))
      BY <2>6, Zenon DEF FirstReached, Reached
    <3>2. Grounded(obs, NewTLS(Target, fams[k], "", ""))
      BY <2>1, <3>1, GroundedTLS
    <3> QED
      BY <2>6, <3>2, Zenon
  <2> QED
    BY <2>2, <2>3, <2>4, <2>5, <2>6
<1>3. s # << >>
  BY FastPlanIs, Places, Zenon
<1> QED
  BY <1>1, <1>2, <1>3, FastPlanIs, Zenon

\* So is what the adaptive policy follows up.
LEMMA FollowUpsGrounded ==
  ASSUME NEW obs \in Seq(Observation), \A n \in 1..Len(obs) : Grounded(obs, obs[n].exp),
         NEW e \in FollowUps(obs)
  PROVE  Grounded(obs, e)
<1> DEFINE fams == Fams(obs)
           dns == Latest(obs, "dns", "")
           tcp == [f \in ToSet(fams) |-> Latest(obs, "tcp", f)]
           reached == \E i \in DOMAIN fams :
                         /\ Passed(tcp[fams[i]])
                         /\ \A j \in 1..i : Seen(tcp[fams[j]])
           down == fams # << >> /\ \A f \in ToSet(fams) : Seen(tcp[f]) /\ ~Passed(tcp[f])
<1>1. /\ \A k \in 1..Len(fams) : fams[k] \in Dialled
      /\ ToSet(fams) \subseteq Dialled
      /\ fams # << >> => 1 \in 1..Len(fams)
      /\ DOMAIN fams = 1..Len(fams) /\ Len(fams) \in Nat
  <2>1. fams \in Seq(Dialled)
    BY FamsAre
  <2>2. Len(fams) \in Nat /\ \A k \in 1..Len(fams) : fams[k] \in Dialled
    BY <2>1, Places, Zenon
  <2>3. /\ ToSet(fams) \subseteq Dialled
        /\ fams # << >> => 1 \in 1..Len(fams)
        /\ DOMAIN fams = 1..Len(fams)
    BY FamsAre
  <2> QED
    BY <2>2, <2>3
<1>2. \/ e = NewDNS(Target, "public")
      \/ e \in TCPFollowUp(obs, fams)
      \/ fams # << >> /\ e = NewTCP(WithPort(Target, 80), fams[1])
      \/ e \in TLSFollowUps(obs, fams)
      \/ Passed(dns) /\ reached /\ e \in UDPFollowUp(obs, fams)
      \/ e \in HTTPFollowUps(obs, fams)
  BY Zenon DEF FollowUps, Fams
<1>4. reached => fams # << >>
  <2>1. reached => DOMAIN fams # {}
    BY Zenon
  <2> HIDE DEF fams, reached
  <2> QED
    BY <1>1, <2>1
<1> HIDE DEF fams, tcp, reached, down, dns
<1>5. CASE e = NewDNS(Target, "public")
  BY <1>5, GroundedDNS
<1>6. CASE e \in TCPFollowUp(obs, fams)
  <2>1. Len(fams) > 1 /\ e = NewTCP(Target, fams[2])
    BY <1>6, Zenon DEF TCPFollowUp
  <2>2. fams[2] \in Dialled
    <3>1. 2 \in 1..Len(fams)
      BY <1>1, <2>1
    <3> QED
      BY <1>1, <3>1
  <2> QED
    BY <2>1, <2>2, GroundedTCP, Zenon
<1>7. CASE fams # << >> /\ e = NewTCP(WithPort(Target, 80), fams[1])
  BY <1>1, <1>7, GroundedTCP, Zenon
<1>8. CASE Passed(dns) /\ reached /\ e \in UDPFollowUp(obs, fams)
  <2>1. e = NewUDP(Target, fams[1], 0)
    BY <1>8, Zenon DEF UDPFollowUp
  <2>2. fams[1] \in Dialled
    BY <1>1, <1>4, <1>8
  <2> QED
    BY <1>8, <2>1, <2>2, GroundedFirst, Zenon DEF fams, dns
<1>9. CASE e \in HTTPFollowUps(obs, fams)
  <2>1. PICK f \in ToSet(fams) : e = NewHTTP(Target, f, "http/1.1")
    BY <1>9, Zenon DEF HTTPFollowUps
  <2>2. f \in Dialled
    BY <1>1
  <2> QED
    BY <2>1, <2>2, GroundedHTTP, Zenon
<1>10. CASE e \in TLSFollowUps(obs, fams)
  <2>1. PICK f \in ToSet(fams) :
           /\ Passed(Latest(obs, "tcp", f))
           /\ Seen(Latest(obs, "tls", f)) /\ ~Passed(Latest(obs, "tls", f))
           /\ \/ e = NewTLS(Target, f, "", "none") \/ e = NewTLS(Target, f, "http/1.1", "")
              \/ e = NewTLS(Target, OtherFamily(f), "", "")
    BY <1>10, Zenon DEF TLSFollowUps
  <2>2. f \in Dialled /\ OtherFamily(f) \in Dialled /\ OtherFamily(OtherFamily(f)) = f
    BY <1>1 DEF OtherFamily, Dialled
  <2>3. TLSFell(obs, f)
    <3>1. PICK i \in 1..Len(obs) : Latest(obs, "tls", f) = obs[i] /\ At(obs, i, "tls", f)
      BY <2>1, LatestSeen
    <3>2. f # ""
      BY <2>2 DEF Dialled
    <3>3. obs[i].exp.layer = "tls" /\ obs[i].exp.family = f
      BY <3>1, <3>2 DEF At
    <3> DEFINE x == obs[i].exp
    <3>4. TLSGround(obs, x)
      BY DEF Grounded
    <3>5. CASE IsCanonical(x)
      <4>1. x.alpn = "" /\ x.sni = ""
        BY <3>3, <3>5 DEF IsCanonical
      <4>2. x = NewTLS(Target, x.family, x.alpn, x.sni)
        BY <3>3, <3>4, Zenon DEF TLSGround
      <4>3. x = NewTLS(Target, f, "", "")
        BY <3>3, <4>1, <4>2, Zenon
      <4> QED
        BY <2>1, <3>1, <4>3 DEF TLSFell
    <3>6. CASE ~IsCanonical(x)
      <4>1. TLSFell(obs, x.family)
        BY <3>3, <3>4, <3>6, Zenon DEF TLSGround
      <4> QED
        BY <3>3, <4>1, Zenon
    <3> QED
      BY <3>5, <3>6
  <2>4. Grounded(obs, NewTLS(Target, f, "", "none"))
    BY <2>2, <2>3, GroundedTLS
  <2>5. Grounded(obs, NewTLS(Target, f, "http/1.1", ""))
    BY <2>2, <2>3, GroundedTLS
  <2>6. Grounded(obs, NewTLS(Target, OtherFamily(f), "", ""))
    BY <2>2, <2>3, GroundedTLS
  <2> QED
    BY <2>1, <2>4, <2>5, <2>6, Zenon
<1> QED
  BY <1>2, <1>5, <1>6, <1>7, <1>8, <1>9, <1>10

\* The places of a sequence that is longer by one.
LEMMA OneMore ==
  ASSUME NEW S, NEW s \in Seq(S), NEW t \in Seq(S), Len(t) = Len(s) + 1
  PROVE  /\ Len(s) \in Nat /\ DOMAIN s = 1..Len(s) /\ DOMAIN t = 1..(Len(s) + 1)
         /\ \A i \in 1..Len(s) : i \in 1..(Len(s) + 1) /\ i \in 1..Len(t) /\ i # Len(s) + 1
         /\ \A i \in 1..(Len(s) + 1) : i \in 1..Len(s) \/ i = Len(s) + 1
         /\ Len(s) + 1 \in 1..Len(t)
  OBVIOUS

\* A family to dial has a name.
LEMMA DialledNamed == \A f \in Dialled : f # ""
  BY DEF Dialled

\* Recording a probe of another layer or family leaves the latest one be.
LEMMA LatestKept ==
  ASSUME NEW s \in Seq(Observation), NEW t \in Seq(Observation), Len(t) = Len(s) + 1,
         \A i \in 1..Len(s) : t[i] = s[i], NEW l, NEW f,
         ~(t[Len(s) + 1].exp.layer = l /\ (f = "" \/ t[Len(s) + 1].exp.family = f))
  PROVE  Latest(t, l, f) = Latest(s, l, f)
<1> DEFINE n == Len(s)
<1>0. n \in Nat /\ DOMAIN s = 1..n /\ DOMAIN t = 1..(n + 1)
  BY OneMore, Zenon
<1>1. \A i \in 1..n : i \in 1..(n + 1) /\ t[i] = s[i]
  BY OneMore, Zenon
<1>2. \A i \in 1..(n + 1) : i \in 1..n \/ i = n + 1
  BY OneMore, Zenon
<1> HIDE DEF n
<1>3. Of(t, l, f) = Of(s, l, f)
  <2>1. ~(t[n + 1].exp.layer = l /\ (f = "" \/ t[n + 1].exp.family = f))
    BY DEF n
  <2> QED
    BY <1>0, <1>1, <1>2, <2>1 DEF Of
<1>4. CASE Of(s, l, f) = {}
  BY <1>3, <1>4, LatestIs
<1>5. CASE Of(s, l, f) # {}
  <2>1. PICK i \in Of(s, l, f) : Latest(s, l, f) = s[i] /\ \A j \in Of(s, l, f) : j <= i
    BY <1>5, LatestIs
  <2>2. PICK h \in Of(s, l, f) : Latest(t, l, f) = t[h] /\ \A j \in Of(s, l, f) : j <= h
    BY <1>3, <1>5, LatestIs
  <2>3. i \in 1..n /\ h \in 1..n /\ i <= h /\ h <= i
    <3>1. Of(s, l, f) \subseteq 1..n
      BY <1>0, Zenon DEF Of
    <3> QED
      BY <2>1, <2>2, <3>1
  <2>4. i = h
    BY <1>0, <2>3, Between, Zenon
  <2> QED
    BY <1>1, <2>1, <2>2, <2>3, <2>4
<1> QED
  BY <1>4, <1>5

\* TCP on a family that passed last is not tried again.
LEMMA TCPKept ==
  ASSUME NEW s \in Seq(Observation), NEW t \in Seq(Observation), Len(t) = Len(s) + 1,
         \A i \in 1..Len(s) : t[i] = s[i], Once(t),
         \A i \in 1..Len(s) : Suited(s, s[i].exp) /\ TCPGround(s[i].exp),
         Suited(s, t[Len(s) + 1].exp), TCPGround(t[Len(s) + 1].exp),
         NEW f \in Dialled, Passed(Latest(s, "tcp", f))
  PROVE  Passed(Latest(t, "tcp", f))
<1> DEFINE n == Len(s)
           e == t[n + 1].exp
           port == WithPort(Target, 80)
<1>0. /\ n \in Nat /\ n + 1 \in 1..Len(t)
      /\ \A i \in 1..n : i \in 1..Len(t) /\ i # n + 1 /\ t[i] = s[i]
  BY OneMore, Zenon
<1>1. CASE ~(e.layer = "tcp" /\ e.family = f)
  <2>1. f # ""
    BY DialledNamed
  <2>2. Latest(t, "tcp", f) = Latest(s, "tcp", f)
    <3>1. ~(t[Len(s) + 1].exp.layer = "tcp" /\ (f = "" \/ t[Len(s) + 1].exp.family = f))
      BY <1>1, <2>1, Zenon
    <3>2. \A l, g : ~(t[Len(s) + 1].exp.layer = l /\ (g = "" \/ t[Len(s) + 1].exp.family = g))
                        => Latest(t, l, g) = Latest(s, l, g)
      BY LatestKept, Zenon
    <3> QED
      BY <3>1, <3>2, Zenon
  <2> QED
    BY <2>2
<1>2. ASSUME e.layer = "tcp", e.family = f PROVE FALSE
  <2>1. Seen(Latest(s, "tcp", f)) /\ f # ""
    BY DEF Passed, Seen, Dialled
  <2>2. PICK h \in 1..n : Latest(s, "tcp", f) = s[h] /\ At(s, h, "tcp", f)
    BY <2>1, LatestSeen
  <2>3. s[h].exp.layer = "tcp" /\ s[h].exp.family = f
    BY <2>1, <2>2 DEF At
  <2> DEFINE x == s[h].exp
  <2>4. Suited(s, x) /\ TCPGround(x) /\ Suited(s, e) /\ TCPGround(e)
    OBVIOUS
  <2> HIDE DEF x, e, port
  <2>5. /\ x = NewTCP(x.target, f) /\ (x.target = Target \/ TCPFailed(s))
        /\ e = NewTCP(e.target, f) /\ (e.target = Target \/ TCPFailed(s))
        /\ x.target \in {Target, port} /\ e.target \in {Target, port}
        /\ f \in ToSet(Fams(s))
    BY <1>2, <2>3, <2>4 DEF Suited, TCPGround, x, port
  <2>6. x # e
    <3>1. t[h].exp = x /\ t[n + 1].exp = e
      BY <1>0, <2>2 DEF x, e
    <3> QED
      BY <1>0, <2>2, <3>1 DEF Once
  <2>7. TCPFailed(s)
    BY <2>5, <2>6, Zenon
  <2>8. PICK i \in 1..n : s[i].exp = NewTCP(Target, f) /\ ~Passed(s[i])
    BY <2>5, <2>7, Zenon DEF TCPFailed
  <2>9. i # h
    BY <2>2, <2>8
  <2>10. s[i].exp # x /\ s[i].exp # e
    <3>1. t[i].exp = s[i].exp /\ t[h].exp = x /\ t[n + 1].exp = e
      BY <1>0, <2>2 DEF x, e
    <3> QED
      BY <1>0, <2>2, <2>9, <3>1 DEF Once
  <2>11. x.target = port /\ e.target = port
    BY <2>5, <2>8, <2>10, Zenon
  <2> QED
    BY <2>5, <2>6, <2>11, Zenon
<1> QED
  BY <1>1, <1>2

\* Recording a probe above DNS keeps what is behind the others.
LEMMA GroundedGrows ==
  ASSUME NEW s \in Seq(Observation), NEW t \in Seq(Observation), Len(t) = Len(s) + 1,
         \A i \in 1..Len(s) : t[i] = s[i], Once(t), t[Len(s) + 1].exp.layer # "dns",
         \A i \in 1..Len(s) : Suited(s, s[i].exp) /\ TCPGround(s[i].exp),
         Suited(s, t[Len(s) + 1].exp), TCPGround(t[Len(s) + 1].exp),
         NEW e, Suited(s, e), Grounded(s, e)
  PROVE  Grounded(t, e)
<1>1. Latest(t, "dns", "") = Latest(s, "dns", "")
  BY SuitedGrows
<1>2. Fams(t) = Fams(s)
  BY <1>1 DEF Fams
<1>3. UDPGround(t, e) /\ TCPGround(e)
  BY <1>1, <1>2, Zenon DEF UDPGround, Grounded
<1>4. ASSUME NEW f \in Dialled, Passed(Latest(s, "tcp", f)) PROVE Passed(Latest(t, "tcp", f))
  BY <1>4, TCPKept
<1>5. ASSUME NEW f \in Dialled, TLSFell(s, f) PROVE TLSFell(t, f)
  <2>1. PICK i \in 1..Len(s) : s[i].exp = NewTLS(Target, f, "", "") /\ ~Passed(s[i])
    BY <1>5 DEF TLSFell
  <2>2. i \in 1..Len(t) /\ t[i] = s[i]
    OBVIOUS
  <2>3. Passed(Latest(t, "tcp", f))
    BY <1>4, <1>5 DEF TLSFell
  <2> QED
    BY <2>1, <2>2, <2>3 DEF TLSFell
<1>6. CASE e.layer = "tls"
  <2>1. e.family \in Dialled /\ OtherFamily(e.family) \in Dialled
    <3>1. e.family \in ToSet(Fams(s))
      BY <1>6 DEF Suited
    <3>2. e.family \in Dialled
      BY <3>1, FamsAre
    <3> QED
      BY <3>2 DEF Dialled, OtherFamily
  <2>2. TLSGround(t, e)
    <3>1. TLSGround(s, e)
      BY DEF Grounded
    <3> QED
      BY <1>4, <1>5, <2>1, <3>1, Zenon DEF TLSGround
  <2> QED
    BY <1>3, <2>2 DEF Grounded
<1>7. CASE e.layer # "tls"
  BY <1>3, <1>7 DEF Grounded, TLSGround
<1> QED
  BY <1>6, <1>7

\* What the two policies propose is grounded.
LEMMA ProposalGrounded ==
  ASSUME TypeOK, policy \in {"fast", "adaptive"},
         \A n \in 1..Len(observations) : Grounded(observations, observations[n].exp),
         NEW p \in 1..Len(Proposal)
  PROVE  Grounded(observations, Proposal[p])
<1>0. observations \in Seq(Observation)
  BY DEF TypeOK
<1>1. CASE \E i \in 1..Len(FastPlan(observations)) : Proposal[p] = FastPlan(observations)[i]
  BY <1>0, <1>1, FastPlanGrounded, Zenon
<1>2. CASE Proposal[p] \in FollowUps(observations)
  BY <1>0, <1>2, FollowUpsGrounded
<1>3. policy = "fast" =>
         \E i \in 1..Len(FastPlan(observations)) : Proposal[p] = FastPlan(observations)[i]
  BY FastProposalFrom, Zenon DEF FromFastPlan
<1> QED
  BY <1>1, <1>2, <1>3, AdaptiveProposalFrom

\* Each step of a survey by the two keeps what it records grounded.
LEMMA GroundInvStep ==
  Typed /\ NoRepeats /\ NoRepeats' /\ TreeInv /\ GroundInv /\ [Next]_vars => GroundInv'
<1> SUFFICES ASSUME Typed, NoRepeats, NoRepeats', TreeInv, GroundInv, [Next]_vars,
                    ran' \subseteq {"fast", "adaptive"}
             PROVE  /\ \A k \in 1..Len(observations') :
                          Grounded(observations', observations'[k].exp)
                    /\ \A p \in 1..Len(batch') : Grounded(observations', batch'[p])
  BY Zenon DEF GroundInv
<1>0. TypeOK /\ policy \in ran /\ observations \in Seq(Observation) /\ batch \in Seq(Experiment)
  BY DEF Typed, TypeOK, RoundInv
<1>r. ran \subseteq {"fast", "adaptive"} /\ policy \in {"fast", "adaptive"}
  <2>1. ran \subseteq ran'
    BY DEF Next, vars, ProposeRound, Record, EndRound, Finish, Interrupt, Report, Resume
  <2> QED
    BY <1>0, <2>1
<1>v. /\ \A k \in 1..Len(observations) : /\ Suited(observations, observations[k].exp)
                                         /\ Grounded(observations, observations[k].exp)
      /\ \A p \in 1..Len(batch) : Suited(observations, batch[p]) /\ Grounded(observations, batch[p])
      /\ \A p \in 1..Len(batch) : batch[p].layer = "dns" =>
            /\ ~Passed(Latest(observations, "dns", ""))
            /\ \A q \in 1..Len(batch) : batch[q] = batch[p]
  BY <1>r DEF TreeInv, GroundInv
<1>1. CASE ProposeRound
  <2>1. batch' = Proposal /\ observations' = observations
    BY <1>1 DEF ProposeRound
  <2>2. ASSUME NEW p \in 1..Len(Proposal) PROVE Grounded(observations, Proposal[p])
    BY <1>0, <1>r, <1>v, ProposalGrounded
  <2> QED
    BY <1>v, <2>1, <2>2
<1>2. CASE Record
  <2> DEFINE n == Len(observations)
             b == Len(batch)
  <2>1. PICK o \in Observation :
            /\ o.exp = batch[1]
            /\ observations' \in Seq(Observation)
            /\ Len(observations') = n + 1
            /\ \A i \in 1..n : observations'[i] = observations[i]
            /\ observations'[n + 1] = o
            /\ batch' \in Seq(Experiment)
            /\ Len(batch') = b - 1 /\ b >= 1
            /\ \A i \in 1..Len(batch') : batch'[i] = batch[i + 1]
    BY <1>0, <1>2, RecordIs
  <2>2. n \in Nat /\ b \in Nat
    BY <1>0
  <2>3. /\ 1 \in 1..b /\ observations'[n + 1].exp = batch[1]
        /\ \A i \in 1..(b - 1) : i + 1 \in 1..b /\ batch'[i] = batch[i + 1]
        /\ \A k \in 1..(n + 1) : k \in 1..n \/ k = n + 1
    BY <2>1, <2>2
  <2>o. Once(observations')
    BY Zenon DEF NoRepeats, Once
  <2>4. CASE batch[1].layer = "dns"
    <3>1. /\ ~Passed(Latest(observations, "dns", ""))
          /\ \A q \in 1..b : batch[q] = batch[1]
      BY <1>v, <2>3, <2>4
    <3>2. ASSUME NEW e, Suited(observations, e), Grounded(observations, e)
          PROVE  e.layer \notin {"tcp", "tls", "udp", "quic"}
      BY <3>1, <3>2, Zenon DEF Suited, Grounded, UDPGround
    <3>3. ASSUME NEW k \in 1..(n + 1) PROVE Grounded(observations', observations'[k].exp)
      <4>1. CASE k \in 1..n
        <5>1. /\ observations'[k] = observations[k]
              /\ Suited(observations, observations[k].exp)
              /\ Grounded(observations, observations[k].exp)
          BY <1>v, <2>1, <4>1
        <5> QED
          BY <3>2, <5>1, GroundedElse
      <4>2. CASE k = n + 1
        <5>1. observations'[k].exp.layer = "dns"
          BY <2>3, <2>4, <4>2
        <5> QED
          BY <5>1, GroundedElse
      <4> QED
        BY <2>3, <4>1, <4>2
    <3>4. ASSUME NEW p \in 1..(b - 1) PROVE Grounded(observations', batch'[p])
      <4>1. batch'[p] = batch[p + 1] /\ p + 1 \in 1..b
        BY <2>3
      <4>2. batch'[p].layer = "dns"
        BY <2>4, <3>1, <4>1
      <4> QED
        BY <4>2, GroundedElse
    <3> QED
      BY <2>1, <3>3, <3>4
  <2>5. CASE batch[1].layer # "dns"
    <3>1. ASSUME NEW e, Suited(observations, e), Grounded(observations, e)
          PROVE  Grounded(observations', e)
      <4>1. /\ observations' \in Seq(Observation) /\ Len(observations') = Len(observations) + 1
            /\ \A i \in 1..Len(observations) : observations'[i] = observations[i]
            /\ observations'[Len(observations) + 1].exp.layer # "dns"
            /\ Suited(observations, observations'[Len(observations) + 1].exp)
            /\ TCPGround(observations'[Len(observations) + 1].exp)
        BY <1>v, <2>1, <2>3, <2>5 DEF Grounded
      <4>2. \A i \in 1..Len(observations) : /\ Suited(observations, observations[i].exp)
                                            /\ TCPGround(observations[i].exp)
        BY <1>v DEF Grounded
      <4> HIDE DEF n, b
      <4> QED
        BY <1>0, <2>o, <3>1, <4>1, <4>2, GroundedGrows
    <3>2. ASSUME NEW k \in 1..(n + 1) PROVE Grounded(observations', observations'[k].exp)
      <4>1. CASE k \in 1..n
        <5>1. /\ observations'[k] = observations[k] /\ Suited(observations, observations[k].exp)
              /\ Grounded(observations, observations[k].exp)
          BY <1>v, <2>1, <4>1
        <5> QED
          BY <3>1, <5>1
      <4>2. CASE k = n + 1
        BY <1>v, <2>3, <3>1, <4>2
      <4> QED
        BY <2>3, <4>1, <4>2
    <3>3. ASSUME NEW p \in 1..(b - 1) PROVE Grounded(observations', batch'[p])
      BY <1>v, <2>3, <3>1
    <3> QED
      BY <2>1, <3>2, <3>3
  <2> QED
    BY <2>4, <2>5
<1>3. CASE EndRound \/ Finish \/ Interrupt \/ Resume \/ UNCHANGED vars
  <2>1. UNCHANGED <<observations, batch>>
    BY <1>3 DEF EndRound, Finish, Interrupt, Report, Resume, vars
  <2> QED
    BY <1>v, <2>1
<1> QED
  BY <1>1, <1>2, <1>3 DEF Next

\* So it always is; and what is reported is what the observations tell.
LEMMA GroundInvAlways == Spec => [](Typed /\ NoRepeats /\ TreeInv /\ GroundInv)
<1>1. Init => GroundInv
  <2> SUFFICES ASSUME Init PROVE GroundInv
    OBVIOUS
  <2>1. observations = << >> /\ batch = << >> /\ Len(<< >>) = 0 /\ 1..0 = {}
    BY DEF Init
  <2> QED
    BY <2>1, Zenon DEF GroundInv
<1>2. Typed /\ NoRepeats /\ NoRepeats' /\ TreeInv /\ GroundInv /\ [Next]_vars => GroundInv'
  BY GroundInvStep
<1> QED
  BY <1>1, <1>2, TreeInvAlways, PTL DEF Spec

-----------------------------------------------------------------------------
(* What was dialled and failed is named. *)

\* What is reported is what the observations tell.
ReportedInv == pc = "reported" => findings = Inferred(observations)

\* No step comes between the inference and what is recorded.
LEMMA ReportedAlways == Spec => []ReportedInv
<1>1. Init => ReportedInv
  BY DEF Init, ReportedInv
<1>2. ReportedInv /\ [Next]_vars => ReportedInv'
  <2> SUFFICES ASSUME ReportedInv, [Next]_vars PROVE ReportedInv'
    OBVIOUS
  <2>1. CASE Finish \/ Interrupt
    BY <2>1 DEF Finish, Interrupt, Report, ReportedInv
  <2>2. CASE ProposeRound
    BY <2>2 DEF ProposeRound, ReportedInv
  <2>3. CASE Record
    BY <2>3 DEF Record, ReportedInv
  <2>4. CASE EndRound \/ Resume
    BY <2>4 DEF EndRound, Resume, ReportedInv
  <2>5. CASE UNCHANGED vars
    BY <2>5 DEF vars, ReportedInv
  <2> QED
    BY <2>1, <2>2, <2>3, <2>4, <2>5 DEF Next
<1> QED
  BY <1>1, <1>2, PTL DEF Spec

\* The canonical ones of a layer's observations.
CanonicalOf(obs, l, f) == {i \in Of(obs, l, f) : IsCanonical(obs[i].exp)}

\* Where there is a canonical observation, the last of these is picked.
LEMMA PickIs ==
  ASSUME NEW obs \in Seq(Observation), NEW l, NEW f, CanonicalOf(obs, l, f) # {}
  PROVE  \E i \in CanonicalOf(obs, l, f) :
            Pick(obs, l, f) = obs[i] /\ \A j \in CanonicalOf(obs, l, f) : j <= i
<1> DEFINE is == CanonicalOf(obs, l, f)
<1>1. is \subseteq 1..Len(obs) /\ Len(obs) \in Nat
  <2>1. is \subseteq DOMAIN obs
    BY Zenon DEF CanonicalOf, Of
  <2> QED
    BY <2>1, Places, Zenon
<1>2. Pick(obs, l, f) = LastOf(obs, is)
  BY Zenon DEF Pick, CanonicalOf
<1> HIDE DEF is
<1>3. is # {}
  BY DEF is
<1>4. \E i \in is : \A j \in is : j <= i
  BY <1>1, <1>3, GreatestExists
<1>5. \E i \in is : LastOf(obs, is) = obs[i] /\ \A j \in is : j <= i
  BY <1>3, <1>4, Zenon DEF LastOf
<1> QED
  BY <1>2, <1>5 DEF is

\* A canonical observation that no other is like is the one picked.
LEMMA PickOnly ==
  ASSUME NEW obs \in Seq(Observation), NEW l, NEW f, NEW n \in CanonicalOf(obs, l, f),
         \A i \in CanonicalOf(obs, l, f) : i = n
  PROVE  Pick(obs, l, f) = obs[n]
<1>1. PICK i \in CanonicalOf(obs, l, f) : Pick(obs, l, f) = obs[i]
  BY PickIs
<1> QED
  BY <1>1

\* The m-th observation is canonical, and every canonical one is like it.
Alone(obs, l, f, m) ==
    /\ m \in CanonicalOf(obs, l, f)
    /\ \A i \in CanonicalOf(obs, l, f) : obs[i].exp = obs[m].exp

\* Where no experiment is recorded twice, that is the one picked.
LEMMA PickAlone ==
  ASSUME NEW obs \in Seq(Observation), Once(obs), NEW l, NEW f, NEW m, Alone(obs, l, f, m)
  PROVE  Pick(obs, l, f) = obs[m]
<1>1. \A i \in CanonicalOf(obs, l, f) : i \in 1..Len(obs)
  <2>1. \A i \in CanonicalOf(obs, l, f) : i \in DOMAIN obs
    BY Zenon DEF CanonicalOf, Of
  <2> QED
    BY <2>1, Places, Zenon
<1>2. m \in CanonicalOf(obs, l, f) /\ \A i \in CanonicalOf(obs, l, f) : i = m
  BY <1>1, Zenon DEF Once, Alone
<1> QED
  BY <1>2, PickOnly

\* Of TCP the last is picked, whatever its port.
LEMMA PickTCP ==
  ASSUME NEW obs \in Seq(Observation), \A n \in 1..Len(obs) : Suited(obs, obs[n].exp), NEW f
  PROVE  /\ CanonicalOf(obs, "tcp", f) = Of(obs, "tcp", f)
         /\ Pick(obs, "tcp", f) = Latest(obs, "tcp", f)
<1>1. ASSUME NEW i \in Of(obs, "tcp", f) PROVE IsCanonical(obs[i].exp)
  <2>1. i \in 1..Len(obs) /\ obs[i].exp.layer = "tcp"
    <3>1. i \in DOMAIN obs /\ obs[i].exp.layer = "tcp"
      BY Zenon DEF Of
    <3> QED
      BY <3>1, Places, Zenon
  <2> DEFINE e == obs[i].exp
  <2>2. e = NewTCP(e.target, e.family)
    BY <2>1 DEF Suited
  <2>3. NewTCP(e.target, e.family).sni = "" /\ NewTCP(e.target, e.family).alpn = ""
    BY DEF NewTCP, Normalize, Draft
  <2>4. e.sni = "" /\ e.alpn = ""
    BY <2>2, <2>3, Zenon
  <2> QED
    BY <2>1, <2>4 DEF IsCanonical
<1>2. CanonicalOf(obs, "tcp", f) = Of(obs, "tcp", f)
  BY <1>1 DEF CanonicalOf
<1> DEFINE all == Of(obs, "tcp", f)
<1>3. Pick(obs, "tcp", f) =
         LastOf(obs, IF CanonicalOf(obs, "tcp", f) = {} THEN all ELSE CanonicalOf(obs, "tcp", f))
  BY Zenon DEF Pick, CanonicalOf
<1>4. Pick(obs, "tcp", f) = LastOf(obs, all)
  BY <1>2, <1>3, Zenon
<1> QED
  BY <1>2, <1>4 DEF Latest

\* The kind of what is found.
LEMMA FoundKinds ==
  ASSUME NEW applies, NEW k, NEW c, NEW cited
  PROVE  KindsOf(Find(applies, k, c, cited)) = IF applies THEN {k} ELSE {}
<1> DEFINE cites == {o.exp : o \in {o \in cited : Seen(o)}}
           r == [kind |-> k, confidence |-> c, evidence |-> cites]
<1>1. Find(applies, k, c, cited) = IF applies THEN {r} ELSE {}
  BY Zenon DEF Find
<1> HIDE DEF cites
<1>2. r.kind = k
  OBVIOUS
<1> HIDE DEF r
<1>3. KindsOf({r}) = {k} /\ KindsOf({}) = {}
  BY <1>2 DEF KindsOf
<1> QED
  BY <1>1, <1>3

\* The kinds of findings put together.
LEMMA KindsOfBoth ==
  ASSUME NEW A, NEW B
  PROVE  KindsOf(A \cup B) = KindsOf(A) \cup KindsOf(B)
  BY DEF KindsOf

\* The kinds of what is found where names resolve and some TCP passed.
LEMMA PathKinds ==
  ASSUME NEW obs
  PROVE  KindsOf(PathFindings(obs)) =
            KindsOf(IPv6PathFailure(obs))
            \cup KindsOf(TLSFailure(obs, "ipv4")) \cup KindsOf(TLSFailure(obs, "ipv6"))
            \cup KindsOf(UDPUnavailable(obs)) \cup KindsOf(QUICUnavailable(obs))
            \cup KindsOf(HTTPRejection(obs, "ipv4")) \cup KindsOf(HTTPRejection(obs, "ipv6"))
            \cup KindsOf(PartialAddressFailure(obs))
<1> DEFINE a == IPv6PathFailure(obs)
           b == TLSFailure(obs, "ipv4")
           c == TLSFailure(obs, "ipv6")
           d == UDPUnavailable(obs)
           e == QUICUnavailable(obs)
           f == HTTPRejection(obs, "ipv4")
           g == HTTPRejection(obs, "ipv6")
           h == PartialAddressFailure(obs)
<1>1. PathFindings(obs) = a \cup b \cup c \cup d \cup e \cup f \cup g \cup h
  BY Zenon DEF PathFindings
<1> HIDE DEF a, b, c, d, e, f, g, h
<1>2. KindsOf(a \cup b \cup c \cup d \cup e \cup f \cup g \cup h) =
         KindsOf(a) \cup KindsOf(b) \cup KindsOf(c) \cup KindsOf(d)
         \cup KindsOf(e) \cup KindsOf(f) \cup KindsOf(g) \cup KindsOf(h)
  BY DEF KindsOf
<1> QED
  BY <1>1, <1>2, Zenon DEF a, b, c, d, e, f, g, h

\* TLS that failed where TCP passed has a finding.
LEMMA TLSKind ==
  ASSUME NEW obs, NEW f, Passed(Pick(obs, "tcp", f)), Failed(Pick(obs, "tls", f))
  PROVE  "tls_specific_failure" \in KindsOf(TLSFailure(obs, f))
<1> DEFINE tcp == Pick(obs, "tcp", f)
           tls == Pick(obs, "tls", f)
           fails == Passed(tcp) /\ Failed(tls)
           c == IF tls.marks \cap {"alert", "certificate"} # {} THEN "confirmed" ELSE "likely"
           one == Find(fails, "tls_specific_failure", c, {tcp, tls})
           two == Find(fails /\ tls.marks \cap {"reset", "unknown_authority"} # {},
                       "possible_proxy_interference", "possible", {tcp, tls})
<1>1. TLSFailure(obs, f) = one \cup two
  BY Zenon DEF TLSFailure
<1>2. fails
  BY Zenon
<1>3. KindsOf(one) = {"tls_specific_failure"}
  <2> HIDE DEF fails, c, tcp, tls
  <2> QED
    BY <1>2, FoundKinds, Zenon
<1> HIDE DEF one, two
<1> QED
  BY <1>1, <1>3, KindsOfBoth

\* UDP that failed has one too.
LEMMA UDPKind ==
  ASSUME NEW obs, Failed(Pick(obs, "udp", ""))
  PROVE  "udp_unavailable" \in KindsOf(UDPUnavailable(obs))
<1> DEFINE udp == Pick(obs, "udp", "")
           fails == Failed(udp)
           c == IF udp.status = "fail" THEN "confirmed" ELSE "possible"
           found == Find(fails, "udp_unavailable", c, {udp})
<1>1. UDPUnavailable(obs) = found
  BY Zenon DEF UDPUnavailable
<1>2. fails
  BY Zenon
<1>3. KindsOf(found) = {"udp_unavailable"}
  <2> HIDE DEF fails, c, udp
  <2> QED
    BY <1>2, FoundKinds, Zenon
<1> HIDE DEF found
<1> QED
  BY <1>1, <1>3

\* Where a failure is found among the paths, the report is not healthy.
LEMMA NamedKinds ==
  ASSUME NEW obs, obs # << >>,
         \/ KindsOf(PathFindings(obs)) \cap {"tls_specific_failure", "udp_unavailable",
                                             "quic_unavailable"} # {}
         \/ Seen(Pick(obs, "dns", "")) /\ ~Passed(Pick(obs, "dns", ""))
         \/ TCPAllFailed(obs)
  PROVE  KindsOf(Inferred(obs)) \notin {{}, {"path_healthy"}}
<1> DEFINE dns == Pick(obs, "dns", "")
<1>1. Inferred(obs) = IF Seen(dns) /\ ~Passed(dns) THEN DNSFailure(dns)
                      ELSE IF TCPAllFailed(obs) THEN TCPUnreachable(obs)
                      ELSE IF PathFindings(obs) # {} THEN PathFindings(obs)
                      ELSE PathHealthy(obs)
  BY Zenon DEF Inferred
<1>2. KindsOf(DNSFailure(dns)) = {"dns_failure"}
  BY FoundKinds DEF DNSFailure
<1>3. KindsOf(TCPUnreachable(obs)) = {"tcp_unreachable"}
  BY FoundKinds DEF TCPUnreachable
<1>4. KindsOf({}) = {}
  BY DEF KindsOf
<1> HIDE DEF dns
<1> QED
  BY <1>1, <1>2, <1>3, <1>4 DEF dns

\* A default TLS, UDP or QUIC probe that failed is named, where no default TLS
\* handshake was skipped.
THEOREM FailuresAreNamedAlways == Spec => []FailuresAreNamed
<1>1. Typed /\ NoRepeats /\ TreeInv /\ GroundInv /\ ReportedInv => FailuresAreNamed
  <2> SUFFICES ASSUME Typed, NoRepeats, TreeInv, GroundInv, ReportedInv,
                      pc = "reported", ran \subseteq {"fast", "adaptive"}, ~TLSSkipped,
                      NEW n \in DOMAIN observations,
                      observations[n].exp.layer \in {"tls", "udp", "quic"},
                      IsDefault(observations[n].exp), Failed(observations[n])
               PROVE  KindsOf(findings) \notin {{}, {"path_healthy"}}
    BY Zenon DEF FailuresAreNamed
  <2> DEFINE obs == observations
             e == obs[n].exp
             named == {"tls_specific_failure", "udp_unavailable", "quic_unavailable"}
  <2>1. /\ obs \in Seq(Observation) /\ Once(obs) /\ findings = Inferred(obs)
        /\ \A k \in 1..Len(obs) : Suited(obs, obs[k].exp) /\ Grounded(obs, obs[k].exp)
    BY DEF Typed, TypeOK, NoRepeats, Once, TreeInv, GroundInv, ReportedInv
  <2>2. n \in 1..Len(obs) /\ obs # << >> /\ IsCanonical(e)
    <3>1. n \in 1..Len(obs) /\ obs # << >>
      BY <2>1, Places, Zenon
    <3> QED
      BY <3>1 DEF IsDefault
  <2>3. Suited(obs, e) /\ Grounded(obs, e)
    BY <2>1, <2>2
  <2>4. SUFFICES KindsOf(PathFindings(obs)) \cap named # {}
    BY <2>1, <2>2, <2>4, NamedKinds
  <2>c. ASSUME NEW l, NEW f, NEW i \in CanonicalOf(obs, l, f)
        PROVE  /\ i \in 1..Len(obs) /\ obs[i].exp.layer = l /\ IsCanonical(obs[i].exp)
               /\ f = "" \/ obs[i].exp.family = f
               /\ Suited(obs, obs[i].exp) /\ Grounded(obs, obs[i].exp)
    <3>1. /\ i \in DOMAIN obs /\ obs[i].exp.layer = l /\ IsCanonical(obs[i].exp)
          /\ f = "" \/ obs[i].exp.family = f
      BY Zenon DEF CanonicalOf, Of
    <3>2. i \in 1..Len(obs)
      BY <2>1, <3>1, Places, Zenon
    <3> QED
      BY <2>1, <3>1, <3>2
  <2>6. CASE e.layer = "quic"
    <3>1. ASSUME NEW i \in CanonicalOf(obs, "quic", "") PROVE obs[i].exp = e
      <4>1. obs[i].exp.layer = "quic" /\ Grounded(obs, obs[i].exp)
        BY <2>c, Zenon
      <4> QED
        BY <2>3, <2>6, <4>1, Zenon DEF Grounded, UDPGround
    <3>2. Pick(obs, "quic", "") = obs[n]
      <4>1. n \in CanonicalOf(obs, "quic", "")
        BY <2>2, <2>6 DEF CanonicalOf, Of
      <4>2. Alone(obs, "quic", "", n)
        BY <3>1, <4>1, Zenon DEF Alone
      <4> HIDE DEF obs
      <4> QED
        BY <2>1, <4>2, PickAlone
    <3>3. KindsOf(QUICUnavailable(obs)) = {"quic_unavailable"}
      BY <3>2, FoundKinds, ZenonT(30) DEF QUICUnavailable
    <3> QED
      BY <3>3, PathKinds
  <2>7. CASE e.layer = "udp"
    <3>1. ASSUME NEW i \in CanonicalOf(obs, "udp", "") PROVE obs[i].exp = e
      <4>1. obs[i].exp.layer = "udp" /\ Grounded(obs, obs[i].exp)
        BY <2>c, Zenon
      <4> QED
        BY <2>3, <2>7, <4>1, Zenon DEF Grounded, UDPGround
    <3>2. Pick(obs, "udp", "") = obs[n]
      <4>1. n \in CanonicalOf(obs, "udp", "")
        BY <2>2, <2>7 DEF CanonicalOf, Of
      <4>2. Alone(obs, "udp", "", n)
        BY <3>1, <4>1, Zenon DEF Alone
      <4> HIDE DEF obs
      <4> QED
        BY <2>1, <4>2, PickAlone
    <3>3. "udp_unavailable" \in KindsOf(UDPUnavailable(obs))
      BY <3>2, UDPKind
    <3> QED
      BY <3>3, PathKinds
  <2>8. CASE e.layer = "tls"
    <3>0. e.family \in Dialled
      BY <2>3, <2>8, FamsAre DEF Suited
    <3>1. ASSUME NEW m \in 1..Len(obs), NEW f \in Dialled,
                 obs[m].exp = NewTLS(Target, f, "", ""), Failed(obs[m]),
                 Passed(Latest(obs, "tcp", f))
          PROVE  KindsOf(PathFindings(obs)) \cap named # {}
      <4>1. /\ obs[m].exp.layer = "tls" /\ obs[m].exp.family = f /\ IsCanonical(obs[m].exp)
        <5>1. /\ NewTLS(Target, f, "", "").layer = "tls" /\ NewTLS(Target, f, "", "").family = f
              /\ IsCanonical(NewTLS(Target, f, "", ""))
          BY DEF NewTLS, Normalize, Draft, Dialled, IsCanonical
        <5> QED
          BY <3>1, <5>1, Zenon
      <4>2. ASSUME NEW i \in CanonicalOf(obs, "tls", f) PROVE obs[i].exp = obs[m].exp
        <5> DEFINE x == obs[i].exp
        <5>1. x.layer = "tls" /\ IsCanonical(x) /\ Grounded(obs, x)
          BY <2>c, Zenon
        <5>2. x.family = f
          <6>1. f = "" \/ x.family = f
            BY Zenon DEF CanonicalOf, Of
          <6> QED
            BY <6>1, DialledNamed, Zenon
        <5>3. x.alpn = "" /\ x.sni = ""
          BY <5>1 DEF IsCanonical
        <5>4. x = NewTLS(Target, x.family, x.alpn, x.sni)
          BY <5>1, Zenon DEF Grounded, TLSGround
        <5> QED
          BY <3>1, <5>2, <5>3, <5>4, Zenon
      <4>3. Pick(obs, "tls", f) = obs[m]
        <5>1. m \in CanonicalOf(obs, "tls", f)
          <6>1. m \in DOMAIN obs
            BY <2>1, Places, Zenon
          <6> QED
            BY <4>1, <6>1, Zenon DEF CanonicalOf, Of
        <5>2. Alone(obs, "tls", f, m)
          BY <4>2, <5>1, Zenon DEF Alone
        <5> HIDE DEF obs
        <5> QED
          BY <2>1, <5>2, PickAlone
      <4>4. Pick(obs, "tcp", f) = Latest(obs, "tcp", f)
        <5> HIDE DEF obs
        <5> QED
          BY <2>1, PickTCP
      <4>5. "tls_specific_failure" \in KindsOf(TLSFailure(obs, f))
        BY <3>1, <4>3, <4>4, TLSKind
      <4>6. f = "ipv4" \/ f = "ipv6"
        BY DEF Dialled
      <4> QED
        BY <4>5, <4>6, PathKinds
    <3>2. e = NewTLS(Target, e.family, "", "")
      <4>1. e = NewTLS(Target, e.family, e.alpn, e.sni)
        BY <2>3, <2>8, Zenon DEF Grounded, TLSGround
      <4>2. e.alpn = "" /\ e.sni = ""
        BY <2>2, <2>8 DEF IsCanonical
      <4> QED
        BY <4>1, <4>2, Zenon
    <3>3. Passed(Latest(obs, "tcp", e.family)) \/ TLSFell(obs, OtherFamily(e.family))
      BY <2>2, <2>3, <2>8, Zenon DEF Grounded, TLSGround
    <3>4. CASE Passed(Latest(obs, "tcp", e.family))
      BY <2>2, <3>0, <3>1, <3>2, <3>4
    <3>5. CASE TLSFell(obs, OtherFamily(e.family))
      <4> DEFINE f == OtherFamily(e.family)
      <4>1. f \in Dialled
        BY DEF OtherFamily, Dialled
      <4>2. PICK m \in 1..Len(obs) : obs[m].exp = NewTLS(Target, f, "", "") /\ ~Passed(obs[m])
        BY <3>5, Zenon DEF TLSFell
      <4>3. Seen(obs[m])
        BY <2>1, SeenRecorded
      <4>4. obs[m].status # "skipped"
        <5>1. NewTLS(Target, f, "", "").layer = "tls"
          BY DEF NewTLS, Normalize, Draft
        <5>2. IsDefault(NewTLS(Target, f, "", ""))
          BY <4>1, DefaultsAre
        <5>3. m \in DOMAIN observations
          BY <2>1, Places, Zenon
        <5> QED
          BY <4>2, <5>1, <5>2, <5>3, Zenon DEF TLSSkipped
      <4>5. Failed(obs[m])
        BY <4>2, <4>3, <4>4 DEF Failed
      <4> QED
        BY <3>1, <3>5, <4>1, <4>2, <4>5 DEF TLSFell
    <3> QED
      BY <3>3, <3>4, <3>5
  <2> QED
    BY <2>6, <2>7, <2>8
<1> QED
  BY <1>1, GroundInvAlways, ReportedAlways, PTL

-----------------------------------------------------------------------------
(* The verdict of the default experiments. *)

\* The default ones of some observations, at their places.
Defaults(obs) == Restrict(obs, {i \in DOMAIN obs : IsDefault(obs[i].exp)})

\* Every observation is on the target, and the first of its layer and family
\* is a default one; all TCP is.
Homely(obs) ==
    /\ \A i \in DOMAIN obs : obs[i].exp.target = Target
    /\ \A n \in DOMAIN obs :
          \/ IsDefault(obs[n].exp)
          \/ \E i \in 1..(n - 1) : ViewKey(obs[i].exp) = ViewKey(obs[n].exp)
    /\ \A i \in Of(obs, "tcp", "") : IsCanonical(obs[i].exp)

\* Two experiments of one key are of one layer and one family.
LEMMA KeyIs ==
  ASSUME NEW x \in Experiment, NEW y \in Experiment, ViewKey(x) = ViewKey(y)
  PROVE  x.layer = y.layer /\ x.family = y.family
<1>1. x.family \in Families /\ y.family \in Families
  BY DEF Experiment
<1>2. x.family # "" /\ y.family # ""
  BY <1>1 DEF Families
<1> QED
  BY <1>2 DEF ViewKey

\* What the default observations have of a layer and family is what is
\* canonical of it.
LEMMA DefaultsOf ==
  ASSUME NEW obs \in Seq(Observation), Homely(obs), NEW l, NEW f
  PROVE  /\ Of(Defaults(obs), l, f) = CanonicalOf(obs, l, f)
         /\ CanonicalOf(Defaults(obs), l, f) = CanonicalOf(obs, l, f)
         /\ \A i \in CanonicalOf(obs, l, f) : Defaults(obs)[i] = obs[i]
         /\ CanonicalOf(obs, l, f) = {} => Of(obs, l, f) = {}
<1> DEFINE D == Defaults(obs)
           P == {i \in DOMAIN obs : IsDefault(obs[i].exp)}
<1>1. DOMAIN D = P /\ \A i \in P : D[i] = obs[i]
  BY Zenon DEF Defaults, Restrict
<1>2. \A i \in DOMAIN obs : IsDefault(obs[i].exp) <=> IsCanonical(obs[i].exp)
  BY DEF Homely, IsDefault
<1>3. P = {i \in DOMAIN obs : IsCanonical(obs[i].exp)}
  BY <1>2
<1> HIDE DEF D, P
<1>4. Of(D, l, f) = CanonicalOf(obs, l, f)
  BY <1>1, <1>3 DEF Of, CanonicalOf
<1>5. \A i \in CanonicalOf(obs, l, f) : i \in P /\ D[i] = obs[i] /\ IsCanonical(obs[i].exp)
  BY <1>1, <1>3 DEF Of, CanonicalOf
<1>6. CanonicalOf(D, l, f) = CanonicalOf(obs, l, f)
  <2>1. CanonicalOf(D, l, f) = {i \in Of(D, l, f) : IsCanonical(D[i].exp)}
    BY DEF CanonicalOf
  <2> QED
    BY <1>4, <1>5, <2>1
<1>7. ASSUME Of(obs, l, f) # {} PROVE CanonicalOf(obs, l, f) # {}
  <2> DEFINE is == Of(obs, l, f)
  <2>1. is \subseteq DOMAIN obs /\ DOMAIN obs = 1..Len(obs) /\ Len(obs) \in Nat
    BY Places, Zenon DEF Of
  <2> HIDE DEF is
  <2>2. is # {} /\ is \subseteq Nat
    BY <1>7, <2>1 DEF is
  <2>3. PICK n \in is : \A i \in is : n <= i
    BY <2>2, LeastExists
  <2>4. n \in 1..Len(obs)
    BY <2>1
  <2>5. ASSUME NEW i \in 1..(n - 1), ViewKey(obs[i].exp) = ViewKey(obs[n].exp) PROVE FALSE
    <3>1. i \in 1..Len(obs) /\ ~(n <= i)
      BY <2>1, <2>4
    <3>2. obs[i].exp \in Experiment /\ obs[n].exp \in Experiment
      BY <2>4, <3>1, SeenRecorded
    <3>3. obs[i].exp.layer = obs[n].exp.layer /\ obs[i].exp.family = obs[n].exp.family
      BY <2>5, <3>2, KeyIs
    <3>4. obs[n].exp.layer = l /\ (f = "" \/ obs[n].exp.family = f)
      BY Zenon DEF is, Of
    <3>5. i \in is
      BY <2>1, <3>1, <3>3, <3>4, Zenon DEF is, Of
    <3> QED
      BY <2>3, <3>1, <3>5
  <2>6. IsDefault(obs[n].exp)
    BY <2>1, <2>4, <2>5, Zenon DEF Homely
  <2>7. n \in CanonicalOf(obs, l, f)
    BY <2>6, Zenon DEF CanonicalOf, is, IsDefault
  <2> QED
    BY <2>7
<1> QED
  BY <1>4, <1>5, <1>6, <1>7 DEF D

\* So the same observation is picked from them.
LEMMA DefaultsPick ==
  ASSUME NEW obs \in Seq(Observation), Homely(obs), NEW l, NEW f
  PROVE  Pick(Defaults(obs), l, f) = Pick(obs, l, f)
<1> DEFINE D == Defaults(obs)
           c == CanonicalOf(obs, l, f)
<1>1. /\ Of(D, l, f) = c /\ CanonicalOf(D, l, f) = c
      /\ \A i \in c : D[i] = obs[i]
      /\ c = {} => Of(obs, l, f) = {}
  BY DefaultsOf
<1>2. Pick(D, l, f) = LastOf(D, c)
  <2>1. Pick(D, l, f) = LastOf(D, IF CanonicalOf(D, l, f) = {} THEN Of(D, l, f)
                                   ELSE CanonicalOf(D, l, f))
    BY Zenon DEF Pick, CanonicalOf
  <2> QED
    BY <1>1, <2>1, Zenon
<1>3. Pick(obs, l, f) = LastOf(obs, c)
  <2>1. Pick(obs, l, f) = LastOf(obs, IF c = {} THEN Of(obs, l, f) ELSE c)
    BY Zenon DEF Pick, CanonicalOf
  <2> HIDE DEF c
  <2> QED
    BY <1>1, <2>1, Zenon
<1>4. LastOf(D, c) = LastOf(obs, c)
  <2>1. CASE c = {}
    <3> HIDE DEF D, c
    <3> QED
      BY <2>1 DEF LastOf
  <2>2. CASE c # {}
    <3>1. c \subseteq 1..Len(obs) /\ Len(obs) \in Nat
      <4>1. c \subseteq DOMAIN obs
        BY Zenon DEF CanonicalOf, Of
      <4> QED
        BY <4>1, Places, Zenon
    <3> DEFINE last == CHOOSE i \in c : \A j \in c : j <= i
    <3> HIDE DEF c, D
    <3>2. last \in c
      <4>1. \E i \in c : \A j \in c : j <= i
        BY <2>2, <3>1, GreatestExists
      <4> QED
        BY <4>1, Zenon
    <3>3. LastOf(D, c) = D[last] /\ LastOf(obs, c) = obs[last]
      BY <2>2, Zenon DEF LastOf
    <3> QED
      BY <1>1, <3>2, <3>3, Zenon
  <2> QED
    BY <2>1, <2>2
<1> QED
  BY <1>2, <1>3, <1>4

\* TCP failed on them exactly when it failed.
LEMMA DefaultsTCP ==
  ASSUME NEW obs \in Seq(Observation), Homely(obs)
  PROVE  TCPAllFailed(Defaults(obs)) <=> TCPAllFailed(obs)
<1> DEFINE D == Defaults(obs)
           c == Of(obs, "tcp", "")
<1>1. CanonicalOf(obs, "tcp", "") = c
  BY DEF Homely, CanonicalOf
<1>2. Of(D, "tcp", "") = c /\ \A i \in c : D[i] = obs[i]
  BY <1>1, DefaultsOf
<1> HIDE DEF c, D
<1>3. {i \in c : Attempted(D[i])} = {i \in c : Attempted(obs[i])}
  BY <1>2
<1>4. TCPAllFailed(D) <=> /\ {i \in c : Attempted(D[i])} # {}
                          /\ \A i \in {i \in c : Attempted(D[i])} : ~Passed(D[i])
  BY <1>2, Zenon DEF TCPAllFailed
<1>5. TCPAllFailed(obs) <=> /\ {i \in c : Attempted(obs[i])} # {}
                            /\ \A i \in {i \in c : Attempted(obs[i])} : ~Passed(obs[i])
  BY Zenon DEF TCPAllFailed, c
<1>6. \A i \in {i \in c : Attempted(obs[i])} : Passed(D[i]) <=> Passed(obs[i])
  BY <1>2
<1> QED
  BY <1>3, <1>4, <1>5, <1>6 DEF D

\* A rule that looks only at what is picked finds the same in both.
LEMMA SamePicks ==
  ASSUME NEW D, NEW obs, \A l, f : Pick(D, l, f) = Pick(obs, l, f)
  PROVE  /\ IPv6PathFailure(D) = IPv6PathFailure(obs)
         /\ \A f : TLSFailure(D, f) = TLSFailure(obs, f)
         /\ UDPUnavailable(D) = UDPUnavailable(obs)
         /\ QUICUnavailable(D) = QUICUnavailable(obs)
         /\ \A f : HTTPRejection(D, f) = HTTPRejection(obs, f)
<1>1. IPv6PathFailure(D) = IPv6PathFailure(obs)
  BY DEF IPv6PathFailure
<1>2. ASSUME NEW f PROVE TLSFailure(D, f) = TLSFailure(obs, f)
  BY DEF TLSFailure
<1>3. UDPUnavailable(D) = UDPUnavailable(obs)
  BY DEF UDPUnavailable
<1>4. QUICUnavailable(D) = QUICUnavailable(obs)
  BY DEF QUICUnavailable
<1>5. ASSUME NEW f PROVE HTTPRejection(D, f) = HTTPRejection(obs, f)
  BY DEF HTTPRejection
<1> QED
  BY <1>1, <1>2, <1>3, <1>4, <1>5

\* An address that failed among the default observations is one of all.
LEMMA DefaultsPartial ==
  ASSUME NEW obs
  PROVE  KindsOf(PartialAddressFailure(Defaults(obs))) \subseteq KindsOf(PartialAddressFailure(obs))
<1> DEFINE bad == {"partly_failed", "partly_timed_out"}
           D == Defaults(obs)
           P == {i \in DOMAIN obs : IsDefault(obs[i].exp)}
           some(s) == {i \in DOMAIN s : s[i].marks \cap bad # {}} # {}
           c(s) == IF \E i \in {i \in DOMAIN s : s[i].marks \cap bad # {}} :
                         "partly_failed" \in s[i].marks
                   THEN "confirmed" ELSE "likely"
<1>1. DOMAIN D = P /\ \A i \in P : D[i] = obs[i]
  BY Zenon DEF Defaults, Restrict
<1>2. P \subseteq DOMAIN obs
  OBVIOUS
<1>3. /\ PartialAddressFailure(D) = Find(some(D), "partial_address_failure", c(D), {})
      /\ PartialAddressFailure(obs) = Find(some(obs), "partial_address_failure", c(obs), {})
  BY Zenon DEF PartialAddressFailure
<1>4. some(D) => some(obs)
  <2> HIDE DEF D, P, bad
  <2> QED
    BY <1>1, <1>2
<1> HIDE DEF some, c, D
<1>5. KindsOf(PartialAddressFailure(D)) = IF some(D) THEN {"partial_address_failure"} ELSE {}
  BY <1>3, FoundKinds
<1>6. KindsOf(PartialAddressFailure(obs)) = IF some(obs) THEN {"partial_address_failure"} ELSE {}
  BY <1>3, FoundKinds
<1> QED
  BY <1>4, <1>5, <1>6 DEF D

\* TCP that reached nothing has the one finding.
LEMMA UnreachableKind ==
  ASSUME NEW obs
  PROVE  KindsOf(TCPUnreachable(obs)) = {"tcp_unreachable"}
  BY FoundKinds DEF TCPUnreachable

\* A healthy path has no other finding.
LEMMA HealthyKind ==
  ASSUME NEW obs
  PROVE  KindsOf(PathHealthy(obs)) \subseteq {"path_healthy"}
<1> DEFINE dns == Pick(obs, "dns", "")
           passes == /\ Passed(dns)
                     /\ Passed(Pick(obs, "tcp", "ipv4")) \/ Passed(Pick(obs, "tcp", "ipv6"))
                     /\ PassCount(obs) >= 3
           all == {obs[i] : i \in {i \in DOMAIN obs : Passed(obs[i])}}
<1>1. PathHealthy(obs) = Find(passes, "path_healthy", "confirmed", all)
  BY Zenon DEF PathHealthy
<1> HIDE DEF passes, all
<1> QED
  BY <1>1, FoundKinds

\* What the default observations tell, health aside, is among what all tell.
LEMMA DefaultsInferred ==
  ASSUME NEW obs \in Seq(Observation), Homely(obs)
  PROVE  KindsOf(Inferred(Defaults(obs))) \ {"path_healthy"} \subseteq KindsOf(Inferred(obs))
<1> DEFINE D == Defaults(obs)
           dns == Pick(obs, "dns", "")
<1>1. \A l, f : Pick(D, l, f) = Pick(obs, l, f)
  BY DefaultsPick
<1>2. TCPAllFailed(D) <=> TCPAllFailed(obs)
  BY DefaultsTCP
<1>3. obs = << >> => D = << >>
  <2> SUFFICES ASSUME obs = << >> PROVE D = << >>
    OBVIOUS
  <2>1. {i \in DOMAIN obs : IsDefault(obs[i].exp)} = {}
    OBVIOUS
  <2>2. D = [i \in {} |-> obs[i]]
    BY <2>1, Zenon DEF Defaults, Restrict
  <2> HIDE DEF D
  <2> QED
    BY <2>2
<1>4. KindsOf(PartialAddressFailure(D)) \subseteq KindsOf(PartialAddressFailure(obs))
  BY DefaultsPartial
<1> HIDE DEF D
<1>5. KindsOf(PathFindings(D)) \subseteq KindsOf(PathFindings(obs))
  <2>1. /\ IPv6PathFailure(D) = IPv6PathFailure(obs)
        /\ TLSFailure(D, "ipv4") = TLSFailure(obs, "ipv4")
        /\ TLSFailure(D, "ipv6") = TLSFailure(obs, "ipv6")
        /\ UDPUnavailable(D) = UDPUnavailable(obs)
        /\ QUICUnavailable(D) = QUICUnavailable(obs)
        /\ HTTPRejection(D, "ipv4") = HTTPRejection(obs, "ipv4")
        /\ HTTPRejection(D, "ipv6") = HTTPRejection(obs, "ipv6")
    BY <1>1, SamePicks, Zenon
  <2> QED
    BY <1>4, <2>1, PathKinds
<1>6. KindsOf({}) = {}
  BY DEF KindsOf
<1>7. PathFindings(D) # {} => KindsOf(PathFindings(D)) # {}
  BY DEF KindsOf
<1>8. KindsOf(PathHealthy(D)) \subseteq {"path_healthy"}
  BY HealthyKind
<1>9. /\ KindsOf(TCPUnreachable(D)) = {"tcp_unreachable"}
      /\ KindsOf(TCPUnreachable(obs)) = {"tcp_unreachable"}
  BY UnreachableKind, Zenon
<1>10. Inferred(obs) = IF obs = << >> THEN {}
                       ELSE IF Seen(dns) /\ ~Passed(dns) THEN DNSFailure(dns)
                       ELSE IF TCPAllFailed(obs) THEN TCPUnreachable(obs)
                       ELSE IF PathFindings(obs) # {} THEN PathFindings(obs)
                       ELSE PathHealthy(obs)
  BY Zenon DEF Inferred
<1>11. Inferred(D) = IF D = << >> THEN {}
                     ELSE IF Seen(dns) /\ ~Passed(dns) THEN DNSFailure(dns)
                     ELSE IF TCPAllFailed(D) THEN TCPUnreachable(D)
                     ELSE IF PathFindings(D) # {} THEN PathFindings(D)
                     ELSE PathHealthy(D)
  <2>1. Pick(D, "dns", "") = dns
    BY <1>1, Zenon
  <2> QED
    BY <2>1, Zenon DEF Inferred
<1> HIDE DEF dns
<1> DEFINE A == Inferred(D)
           B == Inferred(obs)
<1> SUFFICES KindsOf(A) \ {"path_healthy"} \subseteq KindsOf(B)
  BY DEF D
<1> HIDE DEF A, B
<1>12. CASE D = << >>
  <2>1. A = {}
    BY <1>11, <1>12, Zenon DEF A
  <2> QED
    BY <1>6, <2>1
<1>13. CASE D # << >> /\ Seen(dns) /\ ~Passed(dns)
  <2>1. A = B
    BY <1>3, <1>10, <1>11, <1>13, Zenon DEF A, B
  <2> QED
    BY <2>1
<1>14. CASE D # << >> /\ ~(Seen(dns) /\ ~Passed(dns)) /\ TCPAllFailed(obs)
  <2>1. A = TCPUnreachable(D)
    BY <1>2, <1>11, <1>14, Zenon DEF A
  <2>2. B = TCPUnreachable(obs)
    BY <1>3, <1>10, <1>14, Zenon DEF B
  <2> QED
    BY <1>9, <2>1, <2>2
<1>15. CASE D # << >> /\ ~(Seen(dns) /\ ~Passed(dns)) /\ ~TCPAllFailed(obs)
  <2>1. CASE PathFindings(D) # {}
    <3>1. KindsOf(PathFindings(obs)) # {}
      BY <1>5, <1>7, <2>1
    <3>2. PathFindings(obs) # {}
      BY <1>6, <3>1
    <3>3. A = PathFindings(D)
      BY <1>2, <1>11, <1>15, <2>1, Zenon DEF A
    <3>4. B = PathFindings(obs)
      BY <1>3, <1>10, <1>15, <3>2, Zenon DEF B
    <3> QED
      BY <1>5, <3>3, <3>4
  <2>2. CASE PathFindings(D) = {}
    <3>1. A = PathHealthy(D)
      BY <1>2, <1>11, <1>15, <2>2, Zenon DEF A
    <3> QED
      BY <1>8, <3>1
  <2> QED
    BY <2>1, <2>2
<1> QED
  BY <1>12, <1>13, <1>14, <1>15

\* A survey of the fast and the adaptive policy that never left the target's
\* own port keeps the verdict of the default experiments.
THEOREM VerdictsStandOnPortAlways == Spec => []VerdictsStandOnPort
<1>1. Typed /\ TreeInv /\ ViewsAreDefault /\ ReportedInv => VerdictsStandOnPort
  <2> SUFFICES ASSUME Typed, TreeInv, ViewsAreDefault, ReportedInv,
                      ran \subseteq {"fast", "adaptive"},
                      \A i \in DOMAIN observations : observations[i].exp.target = Target,
                      pc = "reported"
               PROVE  KindsOf(Inferred(RestrictValues(observations,
                                                      LAMBDA o : IsDefault(o.exp))))
                         \ {"path_healthy"} \subseteq KindsOf(findings)
    BY Zenon DEF VerdictsStandOnPort, VerdictsStand
  <2>1. /\ observations \in Seq(Observation) /\ findings = Inferred(observations)
        /\ \A k \in 1..Len(observations) : Suited(observations, observations[k].exp)
    BY DEF Typed, TypeOK, TreeInv, ReportedInv
  <2>2. RestrictValues(observations, LAMBDA o : IsDefault(o.exp)) = Defaults(observations)
    BY Zenon DEF RestrictValues, Restrict, Defaults
  <2>3. CanonicalOf(observations, "tcp", "") = Of(observations, "tcp", "")
    BY <2>1, PickTCP
  <2>4. Homely(observations)
    <3>1. \A n \in DOMAIN observations :
             \/ IsDefault(observations[n].exp)
             \/ \E i \in 1..(n - 1) :
                   ViewKey(observations[i].exp) = ViewKey(observations[n].exp)
      BY Zenon DEF ViewsAreDefault, IsDefault
    <3>2. \A i \in Of(observations, "tcp", "") : IsCanonical(observations[i].exp)
      BY <2>3, Zenon DEF CanonicalOf
    <3> QED
      BY <3>1, <3>2, Zenon DEF Homely
  <2> QED
    BY <2>1, <2>2, <2>4, DefaultsInferred, Zenon
<1> QED
  BY <1>1, TreeInvAlways, ViewsAreDefaultAlways, ReportedAlways, PTL

-----------------------------------------------------------------------------
(* The orthogonal array. *)

\* Two columns of the array have a row with these levels.
Crosses(a, b, i, j) == \E r \in 1..9 : L9[r][a] = i /\ L9[r][b] = j

\* They do for every pair of levels.
Orthogonal(a, b) == \A i \in 1..3, j \in 1..3 : Crosses(a, b, i, j)

\* Three levels of two factors make nine pairs.
LEMMA NinePairs ==
  ASSUME NEW a, NEW b,
         Crosses(a, b, 1, 1), Crosses(a, b, 1, 2), Crosses(a, b, 1, 3),
         Crosses(a, b, 2, 1), Crosses(a, b, 2, 2), Crosses(a, b, 2, 3),
         Crosses(a, b, 3, 1), Crosses(a, b, 3, 2), Crosses(a, b, 3, 3)
  PROVE  Orthogonal(a, b)
<1>1. \A i \in 1..3 : i = 1 \/ i = 2 \/ i = 3
  OBVIOUS
<1> QED
  BY <1>1, Zenon DEF Orthogonal

\* The levels of the rows.
LEMMA L9Rows ==
  /\ L9[1][1] = 1 /\ L9[1][2] = 1 /\ L9[1][3] = 1 /\ L9[1][4] = 1
  /\ L9[2][1] = 1 /\ L9[2][2] = 2 /\ L9[2][3] = 2 /\ L9[2][4] = 2
  /\ L9[3][1] = 1 /\ L9[3][2] = 3 /\ L9[3][3] = 3 /\ L9[3][4] = 3
  /\ L9[4][1] = 2 /\ L9[4][2] = 1 /\ L9[4][3] = 2 /\ L9[4][4] = 3
  /\ L9[5][1] = 2 /\ L9[5][2] = 2 /\ L9[5][3] = 3 /\ L9[5][4] = 1
  /\ L9[6][1] = 2 /\ L9[6][2] = 3 /\ L9[6][3] = 1 /\ L9[6][4] = 2
  /\ L9[7][1] = 3 /\ L9[7][2] = 1 /\ L9[7][3] = 3 /\ L9[7][4] = 2
  /\ L9[8][1] = 3 /\ L9[8][2] = 2 /\ L9[8][3] = 1 /\ L9[8][4] = 3
  /\ L9[9][1] = 3 /\ L9[9][2] = 3 /\ L9[9][3] = 2 /\ L9[9][4] = 1
  BY DEF L9

\* Every two columns of the array are orthogonal.
LEMMA L9Orthogonal ==
  /\ Orthogonal(1, 2) /\ Orthogonal(1, 3) /\ Orthogonal(1, 4)
  /\ Orthogonal(2, 3) /\ Orthogonal(2, 4) /\ Orthogonal(3, 4)
<1>1. Orthogonal(1, 2)
  <2>1. /\ Crosses(1, 2, 1, 1) /\ Crosses(1, 2, 1, 2) /\ Crosses(1, 2, 1, 3)
        /\ Crosses(1, 2, 2, 1) /\ Crosses(1, 2, 2, 2) /\ Crosses(1, 2, 2, 3)
        /\ Crosses(1, 2, 3, 1) /\ Crosses(1, 2, 3, 2) /\ Crosses(1, 2, 3, 3)
    BY L9Rows DEF Crosses
  <2> QED
    BY <2>1, NinePairs
<1>2. Orthogonal(1, 3)
  <2>1. /\ Crosses(1, 3, 1, 1) /\ Crosses(1, 3, 1, 2) /\ Crosses(1, 3, 1, 3)
        /\ Crosses(1, 3, 2, 1) /\ Crosses(1, 3, 2, 2) /\ Crosses(1, 3, 2, 3)
        /\ Crosses(1, 3, 3, 1) /\ Crosses(1, 3, 3, 2) /\ Crosses(1, 3, 3, 3)
    BY L9Rows DEF Crosses
  <2> QED
    BY <2>1, NinePairs
<1>3. Orthogonal(1, 4)
  <2>1. /\ Crosses(1, 4, 1, 1) /\ Crosses(1, 4, 1, 2) /\ Crosses(1, 4, 1, 3)
        /\ Crosses(1, 4, 2, 1) /\ Crosses(1, 4, 2, 2) /\ Crosses(1, 4, 2, 3)
        /\ Crosses(1, 4, 3, 1) /\ Crosses(1, 4, 3, 2) /\ Crosses(1, 4, 3, 3)
    BY L9Rows DEF Crosses
  <2> QED
    BY <2>1, NinePairs
<1>4. Orthogonal(2, 3)
  <2>1. /\ Crosses(2, 3, 1, 1) /\ Crosses(2, 3, 1, 2) /\ Crosses(2, 3, 1, 3)
        /\ Crosses(2, 3, 2, 1) /\ Crosses(2, 3, 2, 2) /\ Crosses(2, 3, 2, 3)
        /\ Crosses(2, 3, 3, 1) /\ Crosses(2, 3, 3, 2) /\ Crosses(2, 3, 3, 3)
    BY L9Rows DEF Crosses
  <2> QED
    BY <2>1, NinePairs
<1>5. Orthogonal(2, 4)
  <2>1. /\ Crosses(2, 4, 1, 1) /\ Crosses(2, 4, 1, 2) /\ Crosses(2, 4, 1, 3)
        /\ Crosses(2, 4, 2, 1) /\ Crosses(2, 4, 2, 2) /\ Crosses(2, 4, 2, 3)
        /\ Crosses(2, 4, 3, 1) /\ Crosses(2, 4, 3, 2) /\ Crosses(2, 4, 3, 3)
    BY L9Rows DEF Crosses
  <2> QED
    BY <2>1, NinePairs
<1>6. Orthogonal(3, 4)
  <2>1. /\ Crosses(3, 4, 1, 1) /\ Crosses(3, 4, 1, 2) /\ Crosses(3, 4, 1, 3)
        /\ Crosses(3, 4, 2, 1) /\ Crosses(3, 4, 2, 2) /\ Crosses(3, 4, 2, 3)
        /\ Crosses(3, 4, 3, 1) /\ Crosses(3, 4, 3, 2) /\ Crosses(3, 4, 3, 3)
    BY L9Rows DEF Crosses
  <2> QED
    BY <2>1, NinePairs
<1> QED
  BY <1>1, <1>2, <1>3, <1>4, <1>5, <1>6

\* The value of a level of a factor.
LevelOf(c, i) ==
    IF c = 1 THEN TaguchiFamilies[i] ELSE IF c = 2 THEN TaguchiTransports[i]
    ELSE IF c = 3 THEN TaguchiSNI[i] ELSE TaguchiPayloads[i]

\* A row's experiment has the values of its levels.
LEMMA RowLevels ==
  ASSUME NEW r \in 1..9, NEW c \in 1..4
  PROVE  TaguchiLevel(TaguchiRow(L9[r]), c) = LevelOf(c, L9[r][c])
<1>1. /\ L9[r][1] \in 1..3 /\ L9[r][2] \in 1..3 /\ L9[r][3] \in 1..3 /\ L9[r][4] \in 1..3
  BY L9Is
<1> DEFINE e == TaguchiRow(L9[r])
<1>2. /\ e.family = TaguchiFamilies[L9[r][1]] /\ e.transport = TaguchiTransports[L9[r][2]]
      /\ e.sni = TaguchiSNI[L9[r][3]] /\ e.payload = TaguchiPayloads[L9[r][4]]
  BY <1>1, TaguchiRowType, Zenon
<1>3. c = 1 \/ c = 2 \/ c = 3 \/ c = 4
  OBVIOUS
<1> HIDE DEF e
<1>4. 1 # 2 /\ 1 # 3 /\ 1 # 4 /\ 2 # 3 /\ 2 # 4 /\ 3 # 4
  OBVIOUS
<1>5. TaguchiLevel(e, c) = LevelOf(c, L9[r][c])
  <2>1. TaguchiLevel(e, c) = IF c = 1 THEN e.family ELSE IF c = 2 THEN e.transport
                             ELSE IF c = 3 THEN e.sni ELSE e.payload
    BY Zenon DEF TaguchiLevel
  <2> QED
    BY <1>2, <1>3, <1>4, <2>1, Zenon DEF LevelOf
<1> QED
  BY <1>5 DEF e

\* A factor has three levels, with three values.
LEMMA ThreeLevels ==
  ASSUME NEW c \in 1..4
  PROVE  LET S == {LevelOf(c, i) : i \in 1..3} IN IsFiniteSet(S) /\ Cardinality(S) = 3
<1> DEFINE x == LevelOf(c, 1)
           y == LevelOf(c, 2)
           z == LevelOf(c, 3)
<1>1. {LevelOf(c, i) : i \in 1..3} = {x} \cup {y} \cup {z}
  <2>1. 1..3 = {1, 2, 3}
    OBVIOUS
  <2> QED
    BY <2>1, Zenon
<1>2. x # y /\ x # z /\ y # z
  <2>1. c = 1 \/ c = 2 \/ c = 3 \/ c = 4
    OBVIOUS
  <2>2. CASE c = 1
    BY <2>2 DEF LevelOf, TaguchiFamilies
  <2>3. CASE c = 2
    BY <2>3 DEF LevelOf, TaguchiTransports
  <2>4. CASE c = 3
    BY <2>4 DEF LevelOf, TaguchiSNI
  <2>5. CASE c = 4
    BY <2>5 DEF LevelOf, TaguchiPayloads
  <2> QED
    BY <2>1, <2>2, <2>3, <2>4, <2>5
<1> HIDE DEF x, y, z
<1>3. IsFiniteSet({x}) /\ Cardinality({x}) = 1
  BY FS_Singleton
<1>4. IsFiniteSet({x} \cup {y}) /\ Cardinality({x} \cup {y}) = 2
  BY <1>2, <1>3, FS_AddElement
<1>5. IsFiniteSet({x} \cup {y} \cup {z}) /\ Cardinality({x} \cup {y} \cup {z}) = 3
  BY <1>2, <1>4, FS_AddElement
<1> QED
  BY <1>1, <1>5

\* The experiment is that of a row of the array.
IsRow(e) == \E r \in 1..9 : e = TaguchiRow(L9[r])

\* A bound that lets nine rows through lets the whole array through.
LEMMA TaguchiPlanIs ==
  ASSUME MaxCandidates >= Len(L9)
  PROVE  TaguchiPlan = [r \in 1..9 |-> TaguchiRow(L9[r])]
<1> DEFINE rows == [r \in DOMAIN L9 |-> TaguchiRow(L9[r])]
           nine == [r \in 1..9 |-> TaguchiRow(L9[r])]
<1>1. TaguchiPlan = Bounded(rows)
  BY Zenon DEF TaguchiPlan
<1>2. rows = nine
  BY L9Is, Zenon
<1>3. Len(nine) = 9
  OBVIOUS
<1>4. Len(L9) = 9
  BY DEF L9
<1> HIDE DEF nine
<1>5. MaxCandidates \in Nat
  BY PoliciesAssumption
<1>6. ~(Len(nine) > MaxCandidates)
  BY <1>3, <1>4, <1>5
<1>7. Bounded(nine) = nine
  BY <1>6, Zenon DEF Bounded
<1> QED
  BY <1>1, <1>2, <1>7, Zenon DEF nine

\* What is proposed of it are rows of it, and it is done when all are recorded.
LEMMA TaguchiProposes ==
  ASSUME MaxCandidates >= Len(L9), NEW obs, NEW most \in Nat
  PROVE  /\ \A p \in 1..Len(Propose("taguchi", obs, most)) : IsRow(Propose("taguchi", obs, most)[p])
         /\ Done("taguchi", obs) => \A r \in 1..9 : HasExperiment(obs, TaguchiRow(L9[r]))
<1> DEFINE nine == [r \in 1..9 |-> TaguchiRow(L9[r])]
           out == DedupeAndCap(obs, nine, most)
<1>1. DOMAIN nine = 1..9 /\ \A r \in 1..9 : nine[r] = TaguchiRow(L9[r])
  OBVIOUS
<1>2. Plan("taguchi", obs) = nine
  <2>1. Plan("taguchi", obs) = TaguchiPlan
    BY DEF Plan
  <2> QED
    BY <2>1, TaguchiPlanIs, Zenon
<1> HIDE DEF nine
<1>3. Propose("taguchi", obs, most) = out
  <2>1. Propose("taguchi", obs, most) = DedupeAndCap(obs, Plan("taguchi", obs), most)
    BY DEF Propose
  <2> QED
    BY <1>2, <2>1, Zenon
<1>4. Done("taguchi", obs) <=> DedupeAndCap(obs, nine, MaxCandidates) = << >>
  <2>1. Done("taguchi", obs) <=> DedupeAndCap(obs, Plan("taguchi", obs), MaxCandidates) = << >>
    BY DEF Done
  <2> QED
    BY <1>2, <2>1, Zenon
<1>5. MaxCandidates \in Nat /\ MaxCandidates >= 1 /\ 9 \in Nat
  BY PoliciesAssumption
<1>6. Done("taguchi", obs) => \A r \in 1..9 : HasExperiment(obs, nine[r])
  BY <1>1, <1>4, <1>5, NothingNew
<1>7. Selects(out, obs, nine, most, 9)
  BY <1>1, <1>5, DedupeSelects
<1> HIDE DEF out
<1>8. ASSUME NEW p \in 1..Len(out) PROVE IsRow(out[p])
  <2>1. \E i \in 1..9 : out[p] = nine[i]
    BY <1>7, Zenon DEF Selects
  <2> QED
    BY <1>1, <2>1, Zenon DEF IsRow
<1> QED
  BY <1>1, <1>3, <1>6, <1>8

\* Of a Taguchi survey nothing but rows is recorded or proposed.
RowsInv ==
    ran \subseteq {"taguchi"} =>
        /\ \A n \in 1..Len(observations) : IsRow(observations[n].exp)
        /\ \A p \in 1..Len(batch) : IsRow(batch[p])

\* Every step keeps it.
LEMMA RowsInvStep ==
  ASSUME MaxCandidates >= Len(L9)
  PROVE  Typed /\ RowsInv /\ [Next]_vars => RowsInv'
<1> SUFFICES ASSUME Typed, RowsInv, [Next]_vars, ran' \subseteq {"taguchi"}
             PROVE  /\ \A n \in 1..Len(observations') : IsRow(observations'[n].exp)
                    /\ \A p \in 1..Len(batch') : IsRow(batch'[p])
  BY Zenon DEF RowsInv
<1>0. TypeOK /\ policy \in ran /\ observations \in Seq(Observation) /\ batch \in Seq(Experiment)
  BY DEF Typed, TypeOK, RoundInv
<1>r. ran \subseteq {"taguchi"} /\ policy = "taguchi"
  <2>1. ran \subseteq ran'
    BY DEF Next, vars, ProposeRound, Record, EndRound, Finish, Interrupt, Report, Resume
  <2> QED
    BY <1>0, <2>1
<1>v. /\ \A n \in 1..Len(observations) : IsRow(observations[n].exp)
      /\ \A p \in 1..Len(batch) : IsRow(batch[p])
  BY <1>r, Zenon DEF RowsInv
<1>1. CASE ProposeRound
  <2>1. batch' = Proposal /\ observations' = observations
    BY <1>1 DEF ProposeRound
  <2>2. budget \in Nat
    BY <1>0 DEF TypeOK
  <2>3. \A p \in 1..Len(Proposal) : IsRow(Proposal[p])
    BY <1>r, <2>2, TaguchiProposes DEF Proposal
  <2> QED
    BY <1>v, <2>1, <2>3, Zenon
<1>2. CASE Record
  <2> DEFINE n == Len(observations)
             b == Len(batch)
  <2>1. PICK o \in Observation :
            /\ o.exp = batch[1]
            /\ observations' \in Seq(Observation)
            /\ Len(observations') = n + 1
            /\ \A i \in 1..n : observations'[i] = observations[i]
            /\ observations'[n + 1] = o
            /\ batch' \in Seq(Experiment)
            /\ Len(batch') = b - 1 /\ b >= 1
            /\ \A i \in 1..Len(batch') : batch'[i] = batch[i + 1]
    BY <1>0, <1>2, RecordIs
  <2>2. n \in Nat /\ b \in Nat
    BY <1>0
  <2>3. /\ 1 \in 1..b /\ observations'[n + 1].exp = batch[1]
        /\ \A i \in 1..(b - 1) : i + 1 \in 1..b /\ batch'[i] = batch[i + 1]
        /\ \A k \in 1..(n + 1) : k \in 1..n \/ k = n + 1
    BY <2>1, <2>2
  <2>4. IsRow(batch[1])
    BY <1>v, <2>3, Zenon
  <2>5. ASSUME NEW k \in 1..(n + 1) PROVE IsRow(observations'[k].exp)
    <3>1. CASE k \in 1..n
      BY <1>v, <2>1, <3>1, Zenon
    <3>2. CASE k = n + 1
      BY <2>3, <2>4, <3>2, Zenon
    <3> QED
      BY <2>3, <3>1, <3>2
  <2>6. \A p \in 1..(b - 1) : IsRow(batch'[p])
    BY <1>v, <2>3, Zenon
  <2> QED
    BY <2>1, <2>5, <2>6, Zenon
<1>3. CASE EndRound \/ Finish \/ Interrupt \/ Resume \/ UNCHANGED vars
  <2>1. UNCHANGED <<observations, batch>>
    BY <1>3 DEF EndRound, Finish, Interrupt, Report, Resume, vars
  <2> QED
    BY <1>v, <2>1, Zenon
<1> QED
  BY <1>1, <1>2, <1>3 DEF Next

\* The values of two factors that recorded rows combine.
LEMMA PairsOfRows ==
  ASSUME NEW obs \in Seq(Observation), \A n \in 1..Len(obs) : IsRow(obs[n].exp),
         \A r \in 1..9 : HasExperiment(obs, TaguchiRow(L9[r])),
         NEW a \in 1..4, NEW b \in 1..4, Orthogonal(a, b)
  PROVE  Cardinality({<<TaguchiLevel(obs[i].exp, a), TaguchiLevel(obs[i].exp, b)>> :
                         i \in DOMAIN obs}) = 9
<1> DEFINE S(c) == {LevelOf(c, i) : i \in 1..3}
           pair(e) == <<TaguchiLevel(e, a), TaguchiLevel(e, b)>>
           P == {pair(obs[i].exp) : i \in DOMAIN obs}
<1>1. \A r \in 1..9, c \in 1..4 : L9[r][c] \in 1..3
  <2>1. \A c \in 1..4 : c = 1 \/ c = 2 \/ c = 3 \/ c = 4
    OBVIOUS
  <2> QED
    BY <2>1, L9Is, Zenon
<1>2. \A r \in 1..9 : pair(TaguchiRow(L9[r])) = <<LevelOf(a, L9[r][a]), LevelOf(b, L9[r][b])>>
  BY RowLevels, Zenon
<1> HIDE DEF pair
<1>3. P \subseteq S(a) \X S(b)
  <2> SUFFICES ASSUME NEW i \in DOMAIN obs PROVE pair(obs[i].exp) \in S(a) \X S(b)
    OBVIOUS
  <2>1. IsRow(obs[i].exp)
    BY Places, Zenon
  <2>2. PICK r \in 1..9 : obs[i].exp = TaguchiRow(L9[r])
    BY <2>1, Zenon DEF IsRow
  <2>3. pair(obs[i].exp) = <<LevelOf(a, L9[r][a]), LevelOf(b, L9[r][b])>>
    BY <1>2, <2>2, Zenon
  <2>4. LevelOf(a, L9[r][a]) \in S(a) /\ LevelOf(b, L9[r][b]) \in S(b)
    BY <1>1, Zenon
  <2> HIDE DEF S
  <2> QED
    BY <2>3, <2>4
<1>4. ASSUME NEW x \in S(a) \X S(b) PROVE x \in P
  <2>0. PICK i \in 1..3, j \in 1..3 : x = <<LevelOf(a, i), LevelOf(b, j)>>
    OBVIOUS
  <2>1. PICK r \in 1..9 : L9[r][a] = i /\ L9[r][b] = j
    BY Zenon DEF Orthogonal, Crosses
  <2>2. PICK n \in DOMAIN obs : obs[n].exp = TaguchiRow(L9[r])
    BY Zenon DEF HasExperiment
  <2>3. pair(obs[n].exp) = x
    BY <1>2, <2>0, <2>1, <2>2, Zenon
  <2> QED
    BY <2>3, Zenon
<1>5. /\ IsFiniteSet(S(a)) /\ Cardinality(S(a)) = 3
      /\ IsFiniteSet(S(b)) /\ Cardinality(S(b)) = 3
  BY ThreeLevels
<1> DEFINE A == S(a)
           B == S(b)
<1>6. P = A \X B
  BY <1>3, <1>4
<1>7. IsFiniteSet(A) /\ Cardinality(A) = 3 /\ IsFiniteSet(B) /\ Cardinality(B) = 3
  BY <1>5
<1> HIDE DEF A, B, P
<1>8. Cardinality(A \X B) = Cardinality(A) * Cardinality(B)
  BY <1>7, FS_Product
<1>9. Cardinality(P) = 9
  BY <1>6, <1>7, <1>8
<1> QED
  BY <1>9 DEF P, pair

\* What a finished Taguchi survey has recorded is orthogonal, where the bound
\* lets the nine rows of the array through.
THEOREM TaguchiCoversAlways == Spec => []TaguchiCovers
<1>1. CASE MaxCandidates >= Len(L9)
  <2>1. Init => RowsInv
    <3> SUFFICES ASSUME Init PROVE RowsInv
      OBVIOUS
    <3>1. observations = << >> /\ batch = << >> /\ Len(<< >>) = 0 /\ 1..0 = {}
      BY DEF Init
    <3> QED
      BY <3>1, Zenon DEF RowsInv
  <2>2. Typed /\ RowsInv /\ [Next]_vars => RowsInv'
    BY <1>1, RowsInvStep
  <2>3. Typed /\ RowsInv => TaguchiCovers
    <3> SUFFICES ASSUME Typed, RowsInv, ran = {"taguchi"}, Done(policy, observations),
                        NEW a \in 1..4, NEW b \in 1..4, a < b
                 PROVE  Cardinality({<<TaguchiLevel(observations[i].exp, a),
                                       TaguchiLevel(observations[i].exp, b)>> :
                                        i \in DOMAIN observations}) = 9
      BY Zenon DEF TaguchiCovers
    <3>1. policy = "taguchi" /\ observations \in Seq(Observation)
      BY DEF Typed, TypeOK, RoundInv
    <3>2. \A n \in 1..Len(observations) : IsRow(observations[n].exp)
      BY Zenon DEF RowsInv
    <3>3. \A r \in 1..9 : HasExperiment(observations, TaguchiRow(L9[r]))
      <4>1. 0 \in Nat
        OBVIOUS
      <4> QED
        BY <1>1, <3>1, <4>1, TaguchiProposes, Zenon
    <3>4. Orthogonal(a, b)
      <4>1. \/ a = 1 /\ b \in {2, 3, 4}
            \/ a = 2 /\ b \in {3, 4}
            \/ a = 3 /\ b = 4
        OBVIOUS
      <4> QED
        BY <4>1, L9Orthogonal
    <3> QED
      BY <3>1, <3>2, <3>3, <3>4, PairsOfRows
  <2> QED
    BY <2>1, <2>2, <2>3, SurveyTypedAlways, PTL DEF Spec
<1>2. CASE ~(MaxCandidates >= Len(L9))
  <2>1. TaguchiCovers
    BY <1>2, Zenon DEF TaguchiCovers
  <2> QED
    BY <2>1, PTL
<1> QED
  BY <1>1, <1>2
=============================================================================
