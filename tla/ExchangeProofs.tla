--------------------------- MODULE ExchangeProofs ---------------------------
(***************************************************************************)
(* Proofs about Services.tla, for any values of its constants, of the      *)
(* services that follow another one: a request and the server's method, a  *)
(* mail and its server, local settings and global ones.                    *)
(***************************************************************************)
EXTENDS Services, FiniteSetTheorems, SequenceTheorems, WellFoundedInduction, TLAPS

(* A step is one of the service a behaviour is about, or leaves it alone.  *)
LEMMA StepsOfServices ==
    ASSUME [ServicesNext]_servicesVars
    PROVE  /\ part' = part
           /\ part = "request" => [Request!Next]_requestVars
           /\ part = "settings" => [Groups!Next]_settings
           /\ part = "smtp" => [Smtp!Next]_smtpVars
  BY DEF ServicesNext, servicesVars

-----------------------------------------------------------------------------
(* Sets of numbers: the least one, induction, and the greatest one.         *)
LessThan == {ss \in Nat \X Nat : ss[1] < ss[2]}

(* The order of numbers as a relation is well-founded.                      *)
LEMMA LessThanIsWellFounded == IsWellFoundedOn(LessThan, Nat)
<1>1. OpToRel(<, Nat) = LessThan
  BY Zenon DEF OpToRel, LessThan
<1> QED BY <1>1, NatLessThanWellFounded, Zenon

(* A set of numbers has a least one.                                        *)
LEMMA LeastNumber ==
    ASSUME NEW T \in SUBSET Nat, T # {}
    PROVE  \E x \in T : \A y \in T : x <= y
<1>1. \E x \in T : \A y \in T : ~ (<<y, x>> \in LessThan)
  BY LessThanIsWellFounded, WFMin, Zenon
<1>2. \A x, y \in Nat : y < x => <<y, x>> \in LessThan
  BY DEF LessThan
<1> HIDE DEF LessThan
<1>3. PICK x \in T : \A y \in T : ~ (<<y, x>> \in LessThan)
  BY <1>1
<1>4. \A y \in T : ~ (y < x)
  <2>1. \A y \in T : y \in Nat /\ x \in Nat
    OBVIOUS
  <2> QED
    BY <1>2, <1>3, <2>1, Zenon
<1> QED BY <1>4

(* Induction: a set with 0 and the successors of its numbers has them all.  *)
LEMMA SetInduction ==
    ASSUME NEW T, 0 \in T, \A n \in Nat : n \in T => n + 1 \in T
    PROVE  Nat \subseteq T
<1> SUFFICES ASSUME Nat \ T # {} PROVE FALSE
  OBVIOUS
<1>1. PICK x \in Nat \ T : \A y \in Nat \ T : x <= y
  BY LeastNumber
<1>2. x - 1 \in Nat /\ x - 1 \in T
  BY <1>1
<1> QED BY <1>1, <1>2

(* A bounded set of numbers has a greatest one.                             *)
LEMMA GreatestNumber ==
    ASSUME NEW n \in Nat, NEW T \in SUBSET (0 .. n), T # {}
    PROVE  \E x \in T : \A y \in T : y <= x
<1> DEFINE U == {i \in Nat : n - i \in T}
<1>1. PICK t : t \in T
  OBVIOUS
<1>2. n - t \in U /\ U \subseteq Nat
  BY <1>1
<1>3. PICK x \in U : \A y \in U : x <= y
  BY <1>2, LeastNumber, Zenon
<1>4. n - x \in T /\ x \in Nat
  BY <1>3
<1>5. \A y \in T : n - y \in U /\ y \in Nat
  OBVIOUS
<1>6. \A y \in T : y <= n - x
  BY <1>3, <1>4, <1>5
<1> QED BY <1>4, <1>6

-----------------------------------------------------------------------------
(* RestExchange.                                                           *)
LEMMA PrefixOf ==
    ASSUME NEW S, NEW s \in Seq(S), NEW t \in Seq(S)
    PROVE  Request!IsPrefix(s, t) <=>
              Len(s) <= Len(t) /\ \A i \in 1 .. Len(s) : s[i] = t[i]
<1>1. Len(s) \in Nat /\ Len(t) \in Nat
  OBVIOUS
<1> QED BY <1>1 DEF Request!IsPrefix

(* What begins with s and t begins with s.                                  *)
LEMMA PrefixIn ==
    ASSUME NEW S, NEW s \in Seq(S), NEW t \in Seq(S), NEW u \in Seq(S),
           Request!IsPrefix(s \o t, u)
    PROVE  Request!IsPrefix(s, u)
<1> DEFINE v == s \o t
<1>1. /\ v \in Seq(S) /\ Len(v) = Len(s) + Len(t) /\ Len(s) \in Nat /\ Len(t) \in Nat
      /\ \A i \in 1 .. Len(s) : v[i] = s[i]
  BY ConcatProperties
<1> HIDE DEF v
<1>2. Len(v) <= Len(u) /\ \A i \in 1 .. Len(v) : v[i] = u[i]
  BY <1>1, PrefixOf DEF v
<1>3. Len(s) <= Len(u) /\ \A i \in 1 .. Len(s) : s[i] = u[i]
  BY <1>1, <1>2
<1> QED BY <1>3, PrefixOf

(* The first parts of a path, and the parts behind its first ones.         *)
LEMMA FirstParts ==
    ASSUME NEW S, NEW s \in Seq(S), NEW i \in 0 .. Len(s)
    PROVE  /\ SubSeq(s, 1, i) \in Seq(S) /\ Len(SubSeq(s, 1, i)) = i
           /\ \A j \in 1 .. i : SubSeq(s, 1, i)[j] = s[j]
OBVIOUS

IsBehind(name, pre, url) == name = SubSeq(url, Len(pre) + 1, Len(url))

(* Below the prefix of the server paths compare as they do in the URL.      *)
LEMMA BehindPrefix ==
    ASSUME NEW S, NEW pre \in Seq(S), NEW url \in Seq(S), NEW p \in Seq(S),
           Request!IsPrefix(pre, url), NEW name, IsBehind(name, pre, url)
    PROVE  /\ name \in Seq(S) /\ Len(name) = Len(url) - Len(pre)
           /\ Request!IsPrefix(pre \o p, url) <=> Request!IsPrefix(p, name)
<1> DEFINE v == pre \o p
<1>0. \A s, t \in Seq(S) :
          Request!IsPrefix(s, t) <=> Len(s) <= Len(t) /\ \A i \in 1 .. Len(s) : s[i] = t[i]
  BY PrefixOf
<1>1. /\ Len(pre) \in Nat /\ Len(p) \in Nat /\ Len(url) \in Nat
      /\ v \in Seq(S) /\ Len(v) = Len(pre) + Len(p)
      /\ \A i \in 1 .. Len(pre) : v[i] = pre[i]
      /\ \A i \in 1 .. Len(p) : v[Len(pre) + i] = p[i]
  BY ConcatProperties
<1>2. Len(pre) <= Len(url) /\ \A i \in 1 .. Len(pre) : pre[i] = url[i]
  BY <1>0
<1>3. /\ name \in Seq(S) /\ Len(name) = Len(url) - Len(pre)
      /\ \A i \in 1 .. Len(name) : name[i] = url[Len(pre) + i]
  BY <1>1, <1>2 DEF IsBehind
<1> HIDE DEF v
<1>a. Request!IsPrefix(p, name) <=>
          Len(p) <= Len(name) /\ \A i \in 1 .. Len(p) : p[i] = name[i]
  <2>1. name \in Seq(S)
    BY <1>3
  <2> QED BY <2>1, <1>0
<1>b. Request!IsPrefix(v, url) <=>
          Len(v) <= Len(url) /\ \A i \in 1 .. Len(v) : v[i] = url[i]
  BY <1>0, <1>1
<1>4. ASSUME Request!IsPrefix(v, url) PROVE Request!IsPrefix(p, name)
  <2>1. Len(v) <= Len(url) /\ \A i \in 1 .. Len(v) : v[i] = url[i]
    BY <1>4, <1>b
  <2>2. ASSUME NEW i \in 1 .. Len(p) PROVE p[i] = name[i]
    <3>1. Len(pre) + i \in 1 .. Len(v) /\ i \in 1 .. Len(name)
      BY <1>1, <1>3, <2>1
    <3> QED BY <1>1, <1>3, <2>1, <3>1
  <2> QED BY <1>1, <1>3, <2>1, <2>2, <1>a
<1>5. ASSUME Request!IsPrefix(p, name) PROVE Request!IsPrefix(v, url)
  <2>1. Len(p) <= Len(name) /\ \A i \in 1 .. Len(p) : p[i] = name[i]
    BY <1>5, <1>a
  <2>2. ASSUME NEW i \in 1 .. Len(v) PROVE v[i] = url[i]
    <3>1. CASE i <= Len(pre)
      BY <1>1, <1>2, <3>1
    <3>2. CASE i > Len(pre)
      <4>1. i - Len(pre) \in 1 .. Len(p) /\ i - Len(pre) \in 1 .. Len(name)
        BY <1>1, <1>3, <2>1, <3>2
      <4>2. v[Len(pre) + (i - Len(pre))] = url[Len(pre) + (i - Len(pre))]
        BY <1>1, <1>3, <2>1, <4>1
      <4>3. Len(pre) + (i - Len(pre)) = i
        BY <1>1
      <4> QED BY <4>2, <4>3
    <3> QED BY <1>1, <3>1, <3>2
  <2>3. Len(v) <= Len(url)
    BY <1>1, <1>3, <2>1
  <2> QED BY <2>2, <2>3, <1>b
<1> QED BY <1>3, <1>4, <1>5 DEF v

(* The tree of methods: D are their paths.                                 *)
Fitting(D, pre, url) == {p \in D : p # <<>> /\ Request!IsPrefix(pre \o p, url)}
LongestOf(C) == CHOOSE p \in C : \A q \in C : Len(q) <= Len(p)
HidesBest(D, pre, url, q, n) ==
    /\ Len(LongestOf(Fitting(D, pre, url))) < n /\ n <= Len(q)
    /\ Request!IsPrefix(pre \o SubSeq(q, 1, n), url)
Depths(D, name) == {i \in 0 .. Len(name) : \E p \in D : Request!IsPrefix(SubSeq(name, 1, i), p)}
Deepest(D, name) == CHOOSE i \in Depths(D, name) : \A j \in Depths(D, name) : j <= i
Walked(D, name) == SubSeq(name, 1, Deepest(D, name))

(* The walk is as deep as a path of the tree follows the name.              *)
LEMMA DeepestIsDeepest ==
    ASSUME NEW S, NEW D \in SUBSET Seq(S), D # {}, NEW name \in Seq(S)
    PROVE  /\ Deepest(D, name) \in Depths(D, name)
           /\ \A j \in Depths(D, name) : j <= Deepest(D, name)
<1>1. PICK p \in D : p \in Seq(S)
  OBVIOUS
<1>2. /\ 0 \in 0 .. Len(name) /\ SubSeq(name, 1, 0) \in Seq(S) /\ Len(SubSeq(name, 1, 0)) = 0
      /\ Len(name) \in Nat
  BY FirstParts
<1>0. \A s, t \in Seq(S) :
          Request!IsPrefix(s, t) <=> Len(s) <= Len(t) /\ \A i \in 1 .. Len(s) : s[i] = t[i]
  BY PrefixOf
<1>3. Request!IsPrefix(SubSeq(name, 1, 0), p)
  <2> DEFINE t == SubSeq(name, 1, 0)
  <2>1. t \in Seq(S) /\ Len(t) = 0 /\ p \in Seq(S) /\ Len(p) \in Nat
    BY <1>1, <1>2
  <2> HIDE DEF t
  <2>2. Request!IsPrefix(t, p) <=> Len(t) <= Len(p) /\ \A i \in 1 .. Len(t) : t[i] = p[i]
    BY <2>1, <1>0
  <2> QED BY <2>1, <2>2 DEF t
<1>4. 0 \in Depths(D, name) /\ Depths(D, name) \subseteq 0 .. Len(name)
  BY <1>1, <1>2, <1>3 DEF Depths
<1>5. \E i \in Depths(D, name) : \A j \in Depths(D, name) : j <= i
  BY <1>2, <1>4, GreatestNumber
<1> QED BY <1>5 DEF Deepest

(* The walk finds the longest path the request goes on with, unless it     *)
(* follows another one further.                                            *)
LEMMA WalkFinds ==
    ASSUME NEW S, NEW D \in SUBSET Seq(S), D # {}, <<>> \notin D, NEW pre \in Seq(S),
           NEW url \in Seq(S), Request!IsPrefix(pre, url),
           NEW name, IsBehind(name, pre, url),
           NEW w, w = Walked(D, name), NEW C, C = Fitting(D, pre, url)
    PROVE  /\ w \in D => /\ C # {} /\ w = LongestOf(C) /\ name # <<>>
                         /\ ~ \E q \in D, n \in 1 .. Len(url) : HidesBest(D, pre, url, q, n)
           /\ w \notin D => \/ C = {}
                            \/ \E q \in D, n \in 1 .. Len(url) : HidesBest(D, pre, url, q, n)
<1> DEFINE d == Deepest(D, name)
<1>0. \A s, t \in Seq(S) :
          Request!IsPrefix(s, t) <=> Len(s) <= Len(t) /\ \A i \in 1 .. Len(s) : s[i] = t[i]
  BY PrefixOf
<1>1. name \in Seq(S) /\ Len(name) = Len(url) - Len(pre)
  BY BehindPrefix
<1>2. d \in Depths(D, name) /\ \A j \in Depths(D, name) : j <= d
  BY <1>1, DeepestIsDeepest
<1> HIDE DEF d
<1>3. /\ d \in 0 .. Len(name) /\ d \in Nat /\ Len(name) \in Nat /\ Len(url) \in Nat
      /\ Len(pre) \in Nat
  BY <1>1, <1>2 DEF Depths
<1>4. w \in Seq(S) /\ Len(w) = d /\ \A j \in 1 .. d : w[j] = name[j]
  BY <1>1, <1>3, FirstParts DEF d, Walked
<1>a. w = SubSeq(name, 1, d)
  BY DEF d, Walked
<1>5. Request!IsPrefix(w, name)
  <2>1. w \in Seq(S) /\ name \in Seq(S) /\ Len(w) <= Len(name)
        /\ \A j \in 1 .. Len(w) : w[j] = name[j]
    BY <1>1, <1>3, <1>4
  <2> QED BY <1>0, <2>1
<1>6. Request!IsPrefix(pre \o w, url)
  BY <1>4, <1>5, BehindPrefix
(* A path of C is a first part of the name, no longer than w.              *)
<1>f. \A q \in D : \A n \in 0 .. Len(q) :
          Request!IsPrefix(pre \o SubSeq(q, 1, n), url)
             => n \in Depths(D, name) /\ SubSeq(name, 1, n) = SubSeq(q, 1, n)
  <2> TAKE q \in D
  <2> TAKE n \in 0 .. Len(q)
  <2> HAVE Request!IsPrefix(pre \o SubSeq(q, 1, n), url)
  <2> DEFINE p == SubSeq(q, 1, n)
  <2>1. q \in Seq(S) /\ p \in Seq(S) /\ Len(p) = n /\ \A i \in 1 .. n : p[i] = q[i]
    BY FirstParts
  <2> HIDE DEF p
  <2>2. name \in Seq(S) /\ Request!IsPrefix(p, name)
    <3>1. Request!IsPrefix(pre \o p, url)
      BY DEF p
    <3> QED BY <2>1, <3>1, BehindPrefix
  <2>3. n <= Len(name) /\ \A i \in 1 .. n : p[i] = name[i]
    BY <1>0, <2>1, <2>2
  <2> DEFINE t == SubSeq(name, 1, n)
  <2>4. n \in Nat /\ n \in 0 .. Len(name) /\ Len(name) \in Nat /\ Len(q) \in Nat
    BY <2>1, <2>2, <2>3
  <2>5. t \in Seq(S) /\ Len(t) = n /\ \A i \in 1 .. n : t[i] = name[i]
    BY <2>2, <2>4, FirstParts
  <2> HIDE DEF t
  <2>6. t = p
    BY <2>1, <2>3, <2>5, SeqEqual
  <2>7. Request!IsPrefix(t, q)
    <3>1. n <= Len(q) /\ \A i \in 1 .. n : t[i] = q[i]
      BY <2>1, <2>6
    <3> QED BY <1>0, <2>1, <2>5, <3>1
  <2>8. n \in Depths(D, name)
    BY <2>4, <2>7 DEF Depths, t
  <2> QED BY <2>6, <2>8 DEF p, t
<1>7. \A q \in C : /\ q \in D /\ Len(q) \in Depths(D, name) /\ q = SubSeq(name, 1, Len(q))
                   /\ Len(q) \in Nat /\ Len(q) <= d
  <2> SUFFICES ASSUME NEW q \in C
               PROVE  /\ q \in D /\ Len(q) \in Depths(D, name)
                      /\ q = SubSeq(name, 1, Len(q)) /\ Len(q) \in Nat
    BY <1>2
  <2>1. q \in D /\ q \in Seq(S) /\ Len(q) \in Nat /\ Len(q) \in 0 .. Len(q)
        /\ Request!IsPrefix(pre \o q, url)
    BY DEF Fitting
  <2>2. SubSeq(q, 1, Len(q)) = q
    BY <2>1, SubSeqFull
  <2>3. Request!IsPrefix(pre \o SubSeq(q, 1, Len(q)), url)
    BY <2>1, <2>2
  <2>4. /\ Len(q) \in Depths(D, name)
        /\ SubSeq(name, 1, Len(q)) = SubSeq(q, 1, Len(q))
    <3> DEFINE n == Len(q)
    <3>1. n \in 0 .. Len(q) /\ Request!IsPrefix(pre \o SubSeq(q, 1, n), url)
      BY <2>1, <2>3
    <3> HIDE DEF n
    <3>2. n \in Depths(D, name) /\ SubSeq(name, 1, n) = SubSeq(q, 1, n)
      BY <2>1, <3>1, <1>f
    <3> QED BY <3>2 DEF n
  <2> QED BY <2>1, <2>2, <2>4
<1>8. CASE w \in D
  <2>1. w \in C
    BY <1>6, <1>8 DEF Fitting
  <2>2. \A q \in C : Len(q) <= Len(w)
    BY <1>4, <1>7
  <2>3. LongestOf(C) \in C /\ \A q \in C : Len(q) <= Len(LongestOf(C))
    <3> DEFINE L == LongestOf(C)
    <3>1. L = CHOOSE p \in C : \A q \in C : Len(q) <= Len(p)
      BY DEF LongestOf
    <3> HIDE DEF L
    <3> QED BY <2>1, <2>2, <3>1 DEF L
  <2>4. Len(LongestOf(C)) = d
    BY <1>4, <1>7, <2>1, <2>3
  <2>5. w = LongestOf(C)
    BY <1>7, <1>a, <2>3, <2>4
  <2>6. ~ \E q \in D, n \in 1 .. Len(url) : HidesBest(D, pre, url, q, n)
    <3> SUFFICES ASSUME NEW q \in D, NEW n \in 1 .. Len(url), HidesBest(D, pre, url, q, n)
                 PROVE  FALSE
      OBVIOUS
    <3>1. d < n /\ n <= Len(q) /\ Request!IsPrefix(pre \o SubSeq(q, 1, n), url)
      BY <2>4 DEF HidesBest
    <3>2. n \in 0 .. Len(q)
      BY <3>1
    <3>3. n \in Depths(D, name)
      BY <3>1, <3>2, <1>f
    <3> QED BY <1>2, <1>3, <3>1, <3>3
  <2>7. name # <<>>
    <3>1. w # <<>> /\ d # 0
      BY <1>4, <1>8, EmptySeq
    <3> QED BY <1>1, <1>3, <3>1
  <2> QED BY <1>8, <2>1, <2>5, <2>6, <2>7
<1>9. CASE w \notin D /\ C # {}
  <2>1. \E b \in C : \A q \in C : Len(q) <= Len(b)
    <3> DEFINE lengths == {Len(q) : q \in C}
    <3>1. lengths # {} /\ lengths \subseteq 0 .. d
      <4>1. \A q \in C : Len(q) \in 0 .. d
        BY <1>3, <1>7
      <4> QED BY <1>9, <4>1
    <3>2. PICK x \in lengths : \A y \in lengths : y <= x
      BY <1>3, <3>1, GreatestNumber
    <3> QED BY <3>2
  <2> DEFINE b == LongestOf(C)
  <2>2. b \in C
    BY <2>1 DEF LongestOf
  <2> HIDE DEF b
  <2>3. Len(b) < d
    <3>1. Len(b) # d
      BY <1>7, <1>9, <1>a, <2>2
    <3> QED BY <1>3, <1>7, <2>2, <3>1
  <2>4. PICK q \in D : Request!IsPrefix(w, q)
    BY <1>2, <1>a DEF Depths
  <2>5. q \in Seq(S) /\ d <= Len(q) /\ \A i \in 1 .. d : w[i] = q[i]
    BY <1>0, <1>4, <2>4
  <2>6. SubSeq(q, 1, d) = w
    <3> DEFINE t == SubSeq(q, 1, d)
    <3>1. d \in 0 .. Len(q)
      BY <1>3, <2>5
    <3>2. t \in Seq(S) /\ Len(t) = d /\ \A j \in 1 .. d : t[j] = q[j]
      BY <2>5, <3>1, FirstParts
    <3> HIDE DEF t
    <3>3. t = w
      BY <1>4, <2>5, <3>2, SeqEqual
    <3> QED BY <3>3 DEF t
  <2>7. d \in 1 .. Len(url)
    BY <1>1, <1>3, <1>7, <2>2, <2>3
  <2>8. HidesBest(D, pre, url, q, d)
    BY <1>6, <2>3, <2>5, <2>6 DEF HidesBest, b
  <2> QED BY <1>9, <2>7, <2>8
<1> QED BY <1>8, <1>9

(* A pair in two pieces.                                                    *)
LEMMA PairOf ==
    ASSUME NEW a, NEW b
    PROVE  <<a>> \o <<b>> = <<a, b>>
<1> DEFINE S == {a, b}
           s == <<a>>
           t == <<b>>
           u == <<a, b>>
           v == s \o t
<1>1. s \in Seq(S) /\ Len(s) = 1 /\ s[1] = a /\ t \in Seq(S) /\ Len(t) = 1 /\ t[1] = b
  OBVIOUS
<1>2. u \in Seq(S) /\ Len(u) = 2 /\ u[1] = a /\ u[2] = b
  OBVIOUS
<1> HIDE DEF S, s, t, u
<1>3. /\ v \in Seq(S) /\ Len(v) = Len(s) + Len(t)
      /\ \A i \in 1 .. Len(s) : v[i] = s[i]
      /\ \A i \in 1 .. Len(t) : v[Len(s) + i] = t[i]
  BY <1>1, ConcatProperties
<1> HIDE DEF v
<1>4. Len(v) = 2 /\ v[1] = a /\ v[1 + 1] = b
  BY <1>1, <1>3
<1>5. v = u
  BY <1>2, <1>3, <1>4, SeqEqual
<1> QED BY <1>5 DEF s, t, u, v

(* The parts of paths and hosts.                                           *)
Parts == STRING \cup {"host", "https:"}

(* Paths are sequences of parts, and no method is without a name.           *)
LEMMA PathsAreOfParts ==
    /\ MethodNames \cup Paths \cup Bases \cup {Status} \subseteq Seq(Parts)
    /\ <<>> \notin MethodNames \cup {Status}
<1>1. \A s \in Seq(STRING) : s \in Seq(Parts)
  <2> TAKE s \in Seq(STRING)
  <2>1. Len(s) \in Nat /\ \A i \in 1 .. Len(s) : s[i] \in STRING
    OBVIOUS
  <2>2. \A i \in 1 .. Len(s) : s[i] \in Parts
    BY <2>1 DEF Parts
  <2> QED BY <2>1, <2>2
<1> QED BY <1>1, RequestAssumption

ServerSettings ==
    [auth : {"NoAuth", "Basic"}, cred : Credentials \cup {Request!ACredential},
     prefix : Seq(Parts)]
SenderSettings ==
    [auth : {"NoAuth", "Basic", "BearerToken", "Wsse"},
     cred : Credentials \cup {Request!ACredential}, postfix : Seq(Parts),
     custom : Request!CustomHeaders]

RequestTypes ==
    /\ DOMAIN methods \subseteq Seq(Parts) /\ <<>> \notin DOMAIN methods
    /\ methods = [p \in DOMAIN methods |-> methods[p]]
    /\ server \in ServerSettings /\ sender \in SenderSettings
RequestInv ==
    /\ RequestTypes
    /\ methods = Request!NoMethods => exchange = Request!Idle
    /\ Request!RequestsReachTheirMethod /\ Request!AnsweredOnce

(* Initially no request is under way.                                       *)
LEMMA RequestStarts == Request!Init => RequestInv
<1> SUFFICES ASSUME Request!Init PROVE RequestInv
  OBVIOUS
<1>1. methods = [p \in {} |-> ""] /\ DOMAIN methods = {}
  BY DEF Request!Init, Request!NoMethods
<1>2. RequestTypes
  <2>1. server \in [auth : {"NoAuth", "Basic"}, cred : {Request!ACredential},
                    prefix : Seq(Parts)]
    BY DEF Request!Init
  <2>2. sender \in [auth : {"NoAuth", "Basic", "BearerToken", "Wsse"},
                 cred : {Request!ACredential}, postfix : Seq(Parts),
                 custom : Request!CustomHeaders]
    BY DEF Request!Init, Request!CustomHeaders
  <2>3. methods = [p \in DOMAIN methods |-> methods[p]]
    BY <1>1
  <2> QED BY <1>1, <2>1, <2>2, <2>3 DEF RequestTypes, ServerSettings, SenderSettings
<1> QED BY <1>2 DEF Request!Init, RequestInv, Request!RequestsReachTheirMethod,
             Request!AnsweredOnce, Request!Asked

HidesAny(D, pre, url) == \E q \in D, n \in 1 .. Len(url) : HidesBest(D, pre, url, q, n)

(* FindMethod finds what a request should reach.                           *)
LEMMA FindMethodFinds ==
    ASSUME RequestTypes, methods # Request!NoMethods, NEW url \in Seq(Parts),
           NEW D, D = DOMAIN methods, NEW pre, pre = server.prefix,
           NEW C, C = Fitting(D, pre, url)
    PROVE  Request!FindMethod(url) = IF C # {} /\ ~ HidesAny(D, pre, url)
                                       THEN LongestOf(C) ELSE Request!NoMethod
<1>1. D # {} /\ D \in SUBSET Seq(Parts) /\ <<>> \notin D /\ pre \in Seq(Parts)
  <2>1. CASE DOMAIN methods = {}
    <3>1. methods = [p \in {} |-> methods[p]]
      BY <2>1 DEF RequestTypes, ServerSettings
    <3>2. [p \in {} |-> methods[p]] = [p \in {} |-> ""]
      OBVIOUS
    <3> QED BY <3>1, <3>2 DEF Request!NoMethods
  <2> QED BY <2>1 DEF RequestTypes, ServerSettings
<1> DEFINE name == SubSeq(url, Len(pre) + 1, Len(url))
           w == Walked(D, name)
<1>2. IsBehind(name, pre, url)
  BY DEF IsBehind
<1>3. Request!Walk(name) = w
  BY DEF Request!Walk, Request!IsNode, Walked, Deepest, Depths
<1>4. Request!FindMethod(url) =
        IF Request!IsPrefix(pre, url) /\ name # <<>> /\ w \in D THEN w ELSE Request!NoMethod
  BY <1>3 DEF Request!FindMethod, Request!InPrefix
<1> HIDE DEF w, name
<1>5. CASE Request!IsPrefix(pre, url)
  <2>1. w = Walked(D, name)
    BY DEF w
  <2>2. /\ w \in D => C # {} /\ w = LongestOf(C) /\ name # <<>> /\ ~ HidesAny(D, pre, url)
        /\ w \notin D => C = {} \/ HidesAny(D, pre, url)
    BY <1>1, <1>2, <1>5, <2>1, WalkFinds DEF HidesAny
  <2> QED BY <1>4, <1>5, <2>2
<1>6. CASE ~ Request!IsPrefix(pre, url)
  <2>1. \A p \in D : ~ Request!IsPrefix(pre \o p, url)
    BY <1>1, <1>6, PrefixIn
  <2>2. C = {}
    BY <2>1 DEF Fitting
  <2> QED BY <1>4, <1>6, <2>2
<1> QED BY <1>5, <1>6

(* Whether the credentials are asked for, and right.                       *)
LEMMA RequestIsAnswered ==
    ASSUME RequestInv, NEW path \in Paths, Request!TryToCallMethod(path)
    PROVE  RequestInv'
<1> USE DEF Request!NoMethod
<1>1. methods' = methods /\ server' = server /\ sender' = sender /\ methods # Request!NoMethods
  BY DEF Request!TryToCallMethod
<1>2. RequestTypes'
  BY <1>1 DEF RequestInv, RequestTypes
<1> DEFINE url == sender.postfix \o path
           D == DOMAIN methods
           pre == server.prefix
           C == Fitting(D, pre, url)
           found == C # {} /\ ~ HidesAny(D, pre, url)
           m == Request!FindMethod(url)
<1>3. url \in Seq(Parts)
  <2>1. path \in Seq(Parts) /\ sender.postfix \in Seq(Parts)
    BY PathsAreOfParts DEF RequestInv, RequestTypes, SenderSettings
  <2> QED BY <2>1, ConcatProperties
<1>4. m = IF found THEN LongestOf(C) ELSE "none"
  <2> HIDE DEF url
  <2> QED BY <1>1, <1>3, FindMethodFinds DEF RequestInv
<1>5. PICK value \in Request!AuthorizationValues :
        LET hs == Request!AuthorizationHeaders(value)
            checked == m # "none" /\ server.auth = "Basic" /\ methods[m] # "NO_AUTH_REQUIRED"
        IN  \E answers \in
                CASE m = "none" -> {Request!NotFound}
                  [] checked /\ ~ Request!CheckBasicAuth(hs)
                        -> {Request!ParseAuth(hs) \o Request!NotAuthorized}
                  [] OTHER -> Request!MethodAnswers(m) :
                exchange' = [path |-> url, headers |-> hs, codes |-> answers,
                             method |-> IF checked /\ ~ Request!CheckBasicAuth(hs)
                                          THEN "none" ELSE m]
  BY DEF Request!TryToCallMethod, Request!CreateUrl
<1> DEFINE hs == Request!AuthorizationHeaders(value)
           right == Request!CheckBasicAuth(hs)
           asked == m # "none" /\ server.auth = "Basic" /\ methods[m] # "NO_AUTH_REQUIRED"
<1>6. PICK answers \in CASE m = "none" -> {Request!NotFound}
                         [] asked /\ ~ right -> {Request!ParseAuth(hs) \o Request!NotAuthorized}
                         [] OTHER -> Request!MethodAnswers(m) :
        exchange' = [path |-> url, headers |-> hs, codes |-> answers,
                     method |-> IF asked /\ ~ right THEN "none" ELSE m]
  BY <1>5
<1>7. right <=> hs # <<>> /\ hs[1] = server.cred
  BY DEF Request!CheckBasicAuth
<1>8. Request!Candidates' = C
  <2>1. exchange'.path = url
    BY <1>6
  <2> HIDE DEF url
  <2> QED BY <1>1, <2>1 DEF Request!Candidates, Fitting
<1>9. Request!Best' = LongestOf(C) /\ (Request!Hidden' <=> HidesAny(D, pre, url))
  <2>1. exchange'.path = url
    BY <1>6
  <2>2. Request!Best' = LongestOf(C)
    BY <1>8 DEF Request!Best, LongestOf
  <2> HIDE DEF url
  <2> QED BY <1>1, <2>1, <2>2 DEF Request!Hidden, HidesAny, HidesBest
<1>10. Request!RequestsReachTheirMethod'
  <2>1. exchange'.headers = hs /\ exchange'.method = IF asked /\ ~ right THEN "none" ELSE m
    BY <1>6
  <2> HIDE DEF url, C, m, hs
  <2>2. Request!LetIn(Request!Best)' <=> ~ (server.auth = "Basic"
               /\ methods[LongestOf(C)] # "NO_AUTH_REQUIRED" /\ ~ right)
    BY <1>1, <1>7, <1>9, <2>1 DEF Request!LetIn, RequestInv, RequestTypes, ServerSettings
  <2> HIDE DEF right
  <2> QED BY <1>4, <1>8, <1>9, <2>1, <2>2 DEF Request!RequestsReachTheirMethod
<1>11. Request!AnsweredOnce'
  <2>1. exchange'.headers = hs /\ exchange'.codes = answers
    BY <1>6
  <2> HIDE DEF url, C, m, hs, right
  <2>2. CASE answers \in {Request!NotFound} \cup Request!MethodAnswers(m)
    BY <2>1, <2>2 DEF Request!NotFound, Request!MethodAnswers, Request!InternalError,
       Request!AnsweredOnce
  <2>3. CASE answers = Request!ParseAuth(hs) \o Request!NotAuthorized
    <3>1. CASE hs = <<>>
      BY <2>1, <2>3, <3>1 DEF Request!ParseAuth, Request!NotAuthorized,
         Request!AnsweredOnce
    <3>2. CASE hs # <<>> /\ hs[1] = "Malformed"
      <4>1. Request!ParseAuth(hs) = <<500>>
        BY <3>2 DEF Request!ParseAuth, Request!InternalError
      <4>2. <<500>> \o <<401>> = <<500, 401>>
        BY PairOf
      <4>3. answers = <<500, 401>>
        BY <2>3, <4>1, <4>2 DEF Request!NotAuthorized
      <4> QED BY <2>1, <3>2, <4>3 DEF Request!AnsweredOnce
    <3>3. CASE hs # <<>> /\ hs[1] = "Other"
      <4>1. Request!ParseAuth(hs) = <<401>>
        BY <3>3 DEF Request!ParseAuth, Request!NotAuthorized
      <4>2. <<401>> \o <<401>> = <<401, 401>>
        BY PairOf
      <4>3. answers = <<401, 401>>
        BY <2>3, <4>1, <4>2 DEF Request!NotAuthorized
      <4> QED BY <2>1, <3>3, <4>3 DEF Request!AnsweredOnce
    <3>4. CASE hs # <<>> /\ hs[1] \notin {"Malformed", "Other"}
      <4>1. Request!ParseAuth(hs) = <<>>
        BY <3>4 DEF Request!ParseAuth
      <4>2. <<>> \o <<401>> = <<401>>
        OBVIOUS
      <4>3. answers = <<401>>
        BY <2>3, <4>1, <4>2 DEF Request!NotAuthorized
      <4> QED BY <2>1, <4>3 DEF Request!AnsweredOnce
    <3> QED BY <3>1, <3>2, <3>3, <3>4
  <2> QED BY <1>6, <2>2, <2>3
<1> QED BY <1>1, <1>2, <1>10, <1>11 DEF RequestInv

(* Every step of a request keeps RequestInv: one step of the proof per action. *)
LEMMA RequestSteps == RequestInv /\ [Request!Next]_requestVars => RequestInv'
<1> SUFFICES ASSUME RequestInv, [Request!Next]_requestVars PROVE RequestInv'
  OBVIOUS
<1>a. ASSUME exchange' = Request!Idle, RequestTypes' PROVE RequestInv'
  BY <1>a DEF RequestInv, Request!RequestsReachTheirMethod, Request!AnsweredOnce,
     Request!Asked
<1>b. RequestTypes
  BY DEF RequestInv
<1>1. CASE Request!StartListen
  <2>1. exchange' = Request!Idle /\ server' = server /\ sender' = sender
    BY <1>1 DEF Request!StartListen, RequestInv
  <2>2. PICK S \in SUBSET MethodNames : \E f \in [S -> Request!Tags] :
            methods' = Request!FillMethods(S, f)
    BY <1>1 DEF Request!StartListen
  <2>3. PICK f \in [S -> Request!Tags] : methods' = Request!FillMethods(S, f)
    BY <2>2
  <2>4. DOMAIN methods' = S \cup {Status}
        /\ methods' = [p \in DOMAIN methods' |-> methods'[p]]
    BY <2>3 DEF Request!FillMethods
  <2>5. DOMAIN methods' \subseteq Seq(Parts) /\ <<>> \notin DOMAIN methods'
    BY <2>4, PathsAreOfParts
  <2>6. RequestTypes'
    BY <1>b, <2>1, <2>4, <2>5 DEF RequestTypes
  <2> QED BY <1>a, <2>1, <2>6
<1>2. CASE Request!SetPathPrefix
  <2>0. \A p \in Bases : p \in Seq(Parts)
    BY PathsAreOfParts
  <2>1. server' \in ServerSettings
    BY <1>b, <1>2, <2>0 DEF Request!SetPathPrefix, RequestTypes, ServerSettings
  <2>2. exchange' = Request!Idle /\ UNCHANGED <<methods, sender>>
    BY <1>2 DEF Request!SetPathPrefix
  <2>3. RequestTypes'
    BY <1>b, <2>1, <2>2 DEF RequestTypes
  <2> QED BY <1>a, <2>2, <2>3
<1>3. CASE Request!SetServerUserName
  <2>1. server' \in ServerSettings
    BY <1>b, <1>3 DEF Request!SetServerUserName, RequestTypes, ServerSettings
  <2>2. exchange' = Request!Idle /\ UNCHANGED <<methods, sender>>
    BY <1>3 DEF Request!SetServerUserName
  <2>3. RequestTypes'
    BY <1>b, <2>1, <2>2 DEF RequestTypes
  <2> QED BY <1>a, <2>2, <2>3
<1>4. CASE Request!SetServerAuthType
  <2>1. server' \in ServerSettings
    BY <1>b, <1>4 DEF Request!SetServerAuthType, RequestTypes, ServerSettings
  <2>2. exchange' = Request!Idle /\ UNCHANGED <<methods, sender>>
    BY <1>4 DEF Request!SetServerAuthType
  <2>3. RequestTypes'
    BY <1>b, <2>1, <2>2 DEF RequestTypes
  <2> QED BY <1>a, <2>2, <2>3
<1>5. CASE Request!SetAuthType
  <2>1. sender' \in SenderSettings
    BY <1>b, <1>5 DEF Request!SetAuthType, RequestTypes, SenderSettings
  <2>2. exchange' = Request!Idle /\ UNCHANGED <<methods, server>>
    BY <1>5 DEF Request!SetAuthType
  <2>3. RequestTypes'
    BY <1>b, <2>1, <2>2 DEF RequestTypes
  <2> QED BY <1>a, <2>2, <2>3
<1>6. CASE Request!SetUserName
  <2>1. sender' \in SenderSettings
    BY <1>b, <1>6 DEF Request!SetUserName, RequestTypes, SenderSettings
  <2>2. exchange' = Request!Idle /\ UNCHANGED <<methods, server>>
    BY <1>6 DEF Request!SetUserName
  <2>3. RequestTypes'
    BY <1>b, <2>1, <2>2 DEF RequestTypes
  <2> QED BY <1>a, <2>2, <2>3
<1>7. CASE Request!SetCustomHeader
  <2>1. sender' \in SenderSettings
    BY <1>b, <1>7 DEF Request!SetCustomHeader, RequestTypes, SenderSettings
  <2>2. exchange' = Request!Idle /\ UNCHANGED <<methods, server>>
    BY <1>7 DEF Request!SetCustomHeader
  <2>3. RequestTypes'
    BY <1>b, <2>1, <2>2 DEF RequestTypes
  <2> QED BY <1>a, <2>2, <2>3
<1>8. CASE Request!SetHost
  <2>1. \A h \in Request!Hosts : Request!ParseHost(h) \in Seq(Parts)
    <3> SUFFICES ASSUME NEW p \in Bases, NEW scheme \in {<<>>, <<"https:">>},
                        NEW h, h = scheme \o <<"host">> \o p
                 PROVE  Request!ParseHost(h) \in Seq(Parts)
      BY DEF Request!Hosts
    <3>1. h \in Seq(Parts) /\ Len(h) \in Nat
      <4>1. p \in Seq(Parts)
        BY PathsAreOfParts
      <4>2. scheme \o <<"host">> \in Seq(Parts)
        <5>1. \A x \in Parts : <<x>> \in Seq(Parts)
          OBVIOUS
        <5>2. <<>> \in Seq(Parts) /\ "host" \in Parts /\ "https:" \in Parts
          BY EmptySeq DEF Parts
        <5>3. scheme \in Seq(Parts) /\ <<"host">> \in Seq(Parts)
          BY <5>1, <5>2
        <5> QED BY <5>3, ConcatProperties
      <4> QED BY <4>1, <4>2, ConcatProperties
    <3> DEFINE first == IF h[1] = "https:" THEN 3 ELSE 2
    <3>2. first \in {2, 3}
      OBVIOUS
    <3>3. SubSeq(h, first, Len(h)) \in Seq(Parts)
      <4> HIDE DEF first
      <4> QED BY <3>1, <3>2
    <3> QED BY <3>3 DEF Request!ParseHost
  <2>2. PICK h \in Request!Hosts : sender' = [sender EXCEPT !.postfix = Request!ParseHost(h)]
    BY <1>8 DEF Request!SetHost
  <2>3. Request!ParseHost(h) \in Seq(Parts)
    BY <2>1
  <2>4. sender' \in SenderSettings
    BY <1>b, <2>2, <2>3 DEF RequestTypes, SenderSettings
  <2>5. exchange' = Request!Idle /\ UNCHANGED <<methods, server>>
    BY <1>8 DEF Request!SetHost
  <2>6. RequestTypes'
    BY <1>b, <2>4, <2>5 DEF RequestTypes
  <2> QED BY <1>a, <2>5, <2>6
<1>9. ASSUME NEW p \in Paths, Request!TryToCallMethod(p) PROVE RequestInv'
  BY <1>9, RequestIsAnswered
<1>10. CASE UNCHANGED requestVars
  <2>1. RequestTypes'
    BY <1>b, <1>10 DEF requestVars, RequestTypes
  <2>2. Request!Best' = Request!Best /\ Request!Candidates' = Request!Candidates
    BY <1>10 DEF requestVars, Request!Best, Request!Candidates
  <2>3. (Request!Hidden' <=> Request!Hidden) /\ (Request!LetIn(Request!Best)' <=> Request!LetIn(Request!Best))
    BY <1>10, <2>2 DEF requestVars, Request!Hidden, Request!LetIn
  <2>4. Request!RequestsReachTheirMethod'
    BY <1>10, <2>2, <2>3 DEF requestVars, RequestInv, Request!RequestsReachTheirMethod,
       Request!Asked
  <2>5. Request!AnsweredOnce'
    BY <1>10 DEF requestVars, RequestInv, Request!AnsweredOnce, Request!Asked
  <2> QED BY <1>10, <2>1, <2>4, <2>5 DEF requestVars, RequestInv
<1> QED BY <1>1, <1>2, <1>3, <1>4, <1>5, <1>6, <1>7, <1>8, <1>9, <1>10 DEF Request!Next

(* abstractrestserver.cpp, restclient.cpp: whatever the methods, the       *)
(* prefixes, the credentials and the path, a request reaches the one       *)
(* method its path names, and no other, is let in only with the            *)
(* credentials asked for, and is answered once, but for the second answer  *)
(* to a header that is no Basic one.                                       *)
THEOREM RequestsAlwaysAnswered == ServicesSpec => []RequestsAreAnswered
<1> DEFINE Inv == part = "request" => RequestInv
<1>1. ServicesInit => Inv
  BY RequestStarts DEF ServicesInit
<1>2. Inv /\ [ServicesNext]_servicesVars => Inv'
  BY RequestSteps, StepsOfServices
<1>3. Inv => RequestsAreAnswered
  BY DEF RequestsAreAnswered, RequestInv
<1> QED BY <1>1, <1>2, <1>3, PTL DEF ServicesSpec

-----------------------------------------------------------------------------
(* SmtpClient.                                                             *)
Users == {ToUser[x] : x \in DOMAIN ToUser}
MailStates == {"Opening", "Init", "Auth", "Tls", "Encrypting", "User", "Pass", "Mail", "Rcpt", "Data",
               "Body", "Quit", "Close"}
Sessions == [state : MailStates, mail : Mails, login : Smtp!Logins, socket : Smtp!Kinds,
             todo : Seq(Users), open : BOOLEAN, result : BOOLEAN, changed : BOOLEAN,
             badCast : BOOLEAN]
MailSettings == [userName : UserNames, password : Passwords, connectionType : Smtp!Kinds]
Chunks == [code : Nat, starttls : BOOLEAN]

MailTypes ==
    /\ smtpSettings \in MailSettings
    /\ toClient \in Seq(Chunks)
    /\ mailServer \in [offers : BOOLEAN, login : {mailServer.login}, rcpts : Seq(Users),
                       mails : {mailServer.mails}]

(* The command whose answer a state waits for.                             *)
IsSent(c) ==
    \/ session.state = "Auth" /\ c = [name |-> "EHLO"]
    \/ session.state = "Tls" /\ c = [name |-> "STARTTLS"]
    \/ session.state = "User" /\ c = [name |-> "AUTH"]
    \/ session.state = "Pass" /\ c = [name |-> "USER"]
    \/ session.state = "Mail" /\ c = [name |-> "PASS", login |-> session.login]
    \/ session.state = "Rcpt" /\ c = [name |-> "MAIL"]
    \/ session.state \in {"Rcpt", "Data"} /\ c = [name |-> "RCPT", to |-> c.to] /\ c.to \in Users
    \/ session.state = "Body" /\ c = [name |-> "DATA"]
    \/ session.state = "Quit"
       /\ c = [name |-> "CONTENT", lines |-> Smtp!Content(session.mail.body) \o <<"dot">>]
    \/ session.state = "Close" /\ c = [name |-> "QUIT"]

Understood == toClient # <<>> /\ <<session.state, toClient[1].code>> \in Smtp!Expected

(* One command at a time, and none is under way while the client           *)
(* understands an answer, which is the one to the end command.            *)
OneCommand ==
    /\ toServer # <<>> => IsSent(toServer[1]) /\ toServer = <<toServer[1]>> /\ ~ Understood
    /\ Understood /\ Len(toClient) # 1 =>
          /\ Len(toClient) = 2
          /\ \/ toClient[2].code = 0
             \/ session.state = "Auth" /\ toClient[2].code = 250 /\ ~ toClient[1].starttls
    /\ session.state = "Encrypting" /\ toClient # <<>> => toClient[1].code # 250

Wanted == Smtp!Recipients(session.mail)
Pending == toServer # <<>> /\ toServer[1].name = "RCPT"
Given == IF Pending THEN Append(mailServer.rcpts, toServer[1].to) ELSE mailServer.rcpts

(* What the server has when the client is told so.                         *)
MailProgress ==
    LET st == session.state IN
    /\ st \in {"Opening", "Init", "Auth", "Tls", "Encrypting", "User", "Pass", "Mail"}
         => mailServer.rcpts = <<>> /\ session.todo = Wanted
    /\ st \in {"Rcpt", "Data"} /\ (toServer # <<>> \/ Understood)
         => Given \o session.todo = Wanted
    /\ st = "Data" => session.todo = <<>>
    /\ st = "Body" \/ (st = "Quit" /\ toServer # <<>>) => mailServer.rcpts = Wanted
    /\ st = "Mail" /\ Understood => mailServer.login = session.login
    /\ st \in {"Rcpt", "Data", "Body", "Quit"} => mailServer.login = session.login
    /\ st \notin {"Quit", "Close"} \/ (st = "Quit" /\ toServer # <<>>)
         => mailServer.mails = <<>>
    /\ st = "Quit" /\ Understood => mailServer.mails # <<>>
    /\ st = "Close" => mailServer.mails # <<>>

CastIsRight ==
    /\ ~ session.changed => smtpSettings.connectionType = session.socket
    /\ session.state = "Tls" => session.changed \/ session.socket = "StartTls"

Unsent ==
    /\ session = [state |-> "idle"] /\ toServer = <<>>
    /\ mailServer.rcpts = <<>> /\ mailServer.mails = <<>>
Sending ==
    /\ session \in Sessions /\ CastIsRight
    /\ session.open => OneCommand /\ MailProgress
    /\ Smtp!TakenAsAsked /\ Smtp!SuccessIsReal
SmtpInv == MailTypes /\ (Unsent \/ Sending)

(* The recipients of a mail are a sequence of users.                        *)
LEMMA RecipientsType ==
    ASSUME NEW m \in Mails PROVE Smtp!Recipients(m) \in Seq(Users)
<1> DEFINE all == m.to \o m.cc \o m.bcc
<1>1. m.to \in Seq(DOMAIN ToUser) /\ m.cc \in Seq(DOMAIN ToUser) /\ m.bcc \in Seq(DOMAIN ToUser)
  BY SmtpAssumption
<1>2. all \in Seq(DOMAIN ToUser)
  <2>1. m.to \o m.cc \in Seq(DOMAIN ToUser)
    BY <1>1, ConcatProperties
  <2> QED BY <1>1, <2>1, ConcatProperties
<1> HIDE DEF all
<1>3. [i \in 1 .. Len(all) |-> ToUser[all[i]]] \in Seq(Users)
  <2>1. \A i \in 1 .. Len(all) : ToUser[all[i]] \in Users
    BY <1>2 DEF Users
  <2> QED BY <1>2, <2>1
<1> QED BY <1>3 DEF Smtp!Recipients, all

(* A reply is one chunk of its code, or two when it is cut or two replies meet. *)
LEMMA RepliesShape ==
    ASSUME NEW name \in DOMAIN Smtp!CodeFor, mailServer.offers \in BOOLEAN,
           NEW ans \in Smtp!Replies(name)
    PROVE  /\ ans \in Seq(Chunks) /\ ans # <<>> /\ Len(ans) \in {1, 2}
           /\ ans[1].code = Smtp!CodeFor[name]
           /\ Len(ans) = 2 => /\ ~ ans[1].starttls
                                /\ \/ ans[2].code = 0
                                   \/ name = "EHLO" /\ ans[2].code = 250
<1> DEFINE offer == name = "EHLO" /\ mailServer.offers
           whole == [code |-> Smtp!CodeFor[name], starttls |-> offer]
           head == [code |-> Smtp!CodeFor[name], starttls |-> FALSE]
           rest == [code |-> IF name = "EHLO" THEN 250 ELSE 0, starttls |-> offer]
<1>1. ans \in {<<whole>>, <<head, rest>>}
  BY DEF Smtp!Replies
<1>2. Smtp!CodeFor[name] \in Nat
  BY DEF Smtp!CodeFor
<1>3. offer \in BOOLEAN
  OBVIOUS
<1> HIDE DEF offer
<1>4. whole \in Chunks /\ whole.code = Smtp!CodeFor[name]
  BY <1>2, <1>3 DEF Chunks
<1>6. head \in Chunks /\ head.code = Smtp!CodeFor[name] /\ ~ head.starttls
  BY <1>2 DEF Chunks
<1>7. rest \in Chunks /\ (rest.code = 0 \/ (name = "EHLO" /\ rest.code = 250))
  BY <1>3 DEF Chunks
<1> HIDE DEF whole, head, rest
<1>8. CASE ans = <<whole>>
  BY <1>4, <1>8
<1>9. CASE ans = <<head, rest>>
  BY <1>6, <1>7, <1>9
<1> QED BY <1>1, <1>8, <1>9

(* The doubling of dots, where it protects the body.                       *)
LEMMA DoubledIsDot ==
    ASSUME NEW body \in Seq({"text", "dot", "dotted"}), Smtp!Protected(body)
    PROVE  \A i \in 1 .. Len(body) : Smtp!Doubled(body)[i] <=> body[i] = "dot"
<1> DEFINE Rec(d) == [i \in 0 .. Len(body) |->
                        i > 0 /\ body[i] = "dot" /\ i < Len(body) /\ ~ d[i - 1]]
           w == [i \in 0 .. Len(body) |-> i > 0 /\ body[i] = "dot"]
<1>1. /\ Len(body) \in Nat
      /\ \A i \in 1 .. Len(body) : body[i] = "dot" => i < Len(body) /\ body[i + 1] # "dot"
  BY DEF Smtp!Protected
<1>2. w = Rec(w)
  <2>1. \A i \in 0 .. Len(body) :
           (i > 0 /\ body[i] = "dot" /\ i < Len(body) /\ ~ w[i - 1])
              = (i > 0 /\ body[i] = "dot")
    <3> TAKE i \in 0 .. Len(body)
    <3>1. CASE i > 0 /\ body[i] = "dot"
      <4>1. i - 1 \in 0 .. Len(body) /\ (i - 1 > 0 => i - 1 \in 1 .. Len(body))
        BY <1>1, <3>1
      <4>2. ~ (i - 1 > 0 /\ body[i - 1] = "dot")
        BY <1>1, <3>1, <4>1
      <4>3. ~ w[i - 1]
        BY <4>1, <4>2
      <4>4. i < Len(body)
        BY <1>1, <3>1
      <4> QED BY <3>1, <4>3, <4>4
    <3>2. CASE ~ (i > 0 /\ body[i] = "dot")
      BY <3>2
    <3> QED BY <3>1, <3>2
  <2> QED BY <2>1, Zenon
<1>3. Smtp!Doubled(body) = CHOOSE d : d = Rec(d)
  BY DEF Smtp!Doubled
<1> DEFINE D == Smtp!Doubled(body)
<1>4. D = Rec(D)
  <2>1. \E d : d = Rec(d)
    BY <1>2
  <2>2. (CHOOSE d : d = Rec(d)) = Rec(CHOOSE d : d = Rec(d))
    <3> HIDE DEF Rec
    <3> QED BY ONLY <2>1, Zenon
  <2> QED BY <1>3, <2>2
<1> HIDE DEF D
<1>5. \A i \in 0 .. Len(body) :
        D[i] = (i > 0 /\ body[i] = "dot" /\ i < Len(body) /\ ~ D[i - 1])
  BY <1>4, Zenon
<1>6. ASSUME NEW i \in 1 .. Len(body) PROVE D[i] <=> body[i] = "dot"
  <2>1. i \in 0 .. Len(body) /\ i > 0 /\ i - 1 \in 0 .. Len(body) /\ i - 1 \in Nat
    BY <1>1
  <2>2. D[i - 1] => i - 1 \in 1 .. Len(body) /\ body[i - 1] = "dot"
    <3>1. D[i - 1] = (i - 1 > 0 /\ body[i - 1] = "dot" /\ i - 1 < Len(body) /\ ~ D[i - 1 - 1])
      BY <1>5, <2>1, Zenon
    <3>2. D[i - 1] => i - 1 > 0 /\ body[i - 1] = "dot"
      BY <3>1, Zenon
    <3>3. i - 1 > 0 => i - 1 \in 1 .. Len(body)
      BY <1>1, <2>1
    <3> QED BY <3>2, <3>3, Zenon
  <2>3. body[i] = "dot" => ~ D[i - 1] /\ i < Len(body)
    BY <1>1, <2>1, <2>2
  <2> QED BY <1>5, <2>1, <2>3
<1> QED BY <1>6 DEF D

IsLast(lines, i) == lines[i] = "dot" /\ \A j \in 1 .. (i - 1) : lines[j] # "dot"

(* The server makes the mail's body of the lines the client sends.         *)
LEMMA TakenIsMail ==
    ASSUME NEW body \in Seq({"text", "dot", "dotted"}), Smtp!Protected(body),
           NEW c, c.lines = Smtp!Content(body) \o <<"dot">>
    PROVE  Smtp!Taken(c).body = body
<1> DEFINE n == Len(body)
           text == Smtp!Content(body)
           lines == c.lines
           T == {"text", "dotted", "doubled", "dot"}
<1>1. /\ n \in Nat /\ text = [i \in 1 .. n |-> IF body[i] = "dot" THEN "doubled" ELSE "text"]
      /\ \A i \in 1 .. n : body[i] \in {"text", "dot"}
  <2>1. n \in Nat /\ \A i \in 1 .. n : body[i] \in {"text", "dot"}
    BY DEF Smtp!Protected
  <2>2. \A i \in 1 .. n : (IF Smtp!Doubled(body)[i] THEN "doubled" ELSE body[i])
                             = (IF body[i] = "dot" THEN "doubled" ELSE "text")
    <3> TAKE i \in 1 .. n
    <3>1. Smtp!Doubled(body)[i] <=> body[i] = "dot"
      BY DoubledIsDot
    <3>2. body[i] \in {"text", "dot"}
      BY <2>1
    <3> QED BY <3>1, <3>2
  <2>3. text = [i \in 1 .. n |-> IF body[i] = "dot" THEN "doubled" ELSE "text"]
    BY <2>2, Zenon DEF Smtp!Content
  <2> QED BY <2>1, <2>3
<1>2. /\ text \in Seq(T) /\ Len(text) = n
      /\ \A i \in 1 .. n : text[i] = IF body[i] = "dot" THEN "doubled" ELSE "text"
  <2> HIDE DEF text
  <2> QED BY <1>1
<1>3. /\ lines \in Seq(T) /\ Len(lines) = n + 1 /\ lines[n + 1] = "dot"
      /\ \A i \in 1 .. n : lines[i] = text[i]
  <2>0. lines = text \o <<"dot">>
    OBVIOUS
  <2> HIDE DEF text, lines, n
  <2>1. <<"dot">> \in Seq(T) /\ Len(<<"dot">>) = 1 /\ <<"dot">>[1] = "dot"
    OBVIOUS
  <2> DEFINE dot == <<"dot">>
  <2>2. dot \in Seq(T) /\ Len(dot) = 1 /\ dot[1] = "dot"
    BY <2>1
  <2>a. lines = text \o dot
    BY <2>0
  <2> HIDE DEF dot, T
  <2>3. /\ lines \in Seq(T) /\ Len(lines) = Len(text) + Len(dot)
        /\ \A i \in 1 .. Len(text) + Len(dot) :
              lines[i] = IF i <= Len(text) THEN text[i] ELSE dot[i - Len(text)]
    BY <1>2, <2>2, <2>a, ConcatProperties
  <2> QED BY <1>1, <1>2, <2>2, <2>3
<1> DEFINE end == CHOOSE i \in 1 .. Len(lines) : IsLast(lines, i)
<1> HIDE DEF text, lines
<1>4. \A i \in 1 .. Len(lines) : IsLast(lines, i) <=> i = n + 1
  <2>1. \A i \in 1 .. n : lines[i] # "dot"
    BY <1>1, <1>2, <1>3
  <2>2. \A i \in 1 .. Len(lines) : i = n + 1 \/ (i \in 1 .. n)
    BY <1>1, <1>3
  <2>3. \A i \in 1 .. Len(lines) : IsLast(lines, i) => i = n + 1
    BY <2>1, <2>2 DEF IsLast
  <2>4. IsLast(lines, n + 1)
    <3>1. n + 1 - 1 = n
      BY <1>1
    <3> QED BY <1>3, <2>1, <3>1 DEF IsLast
  <2> QED BY <2>3, <2>4
<1>5. end = n + 1
  <2>1. n + 1 \in 1 .. Len(lines)
    BY <1>1, <1>3
  <2> QED BY <1>4, <2>1
<1>6. Smtp!Taken(c).body = [i \in 1 .. (end - 1) |-> Smtp!Unstuffed(lines[i])]
  BY DEF Smtp!Taken, lines, IsLast
<1> HIDE DEF end
<1>7. end - 1 = n
  BY <1>1, <1>5
<1>8. \A i \in 1 .. n : Smtp!Unstuffed(lines[i]) = body[i]
  BY <1>1, <1>2, <1>3 DEF Smtp!Unstuffed
<1>9. Smtp!Taken(c).body = [i \in 1 .. n |-> body[i]]
  BY <1>6, <1>7, <1>8, Zenon
<1>10. body = [i \in 1 .. n |-> body[i]]
  OBVIOUS
<1> QED BY <1>9, <1>10, Zenon

(* Before a mail is sent nothing is under way.                              *)
LEMMA SmtpStarts == Smtp!Init => SmtpInv
<1> SUFFICES ASSUME Smtp!Init PROVE SmtpInv
  OBVIOUS
<1>1. smtpSettings \in MailSettings
  <2>1. /\ (CHOOSE u \in UserNames : TRUE) \in UserNames
        /\ (CHOOSE p \in Passwords : TRUE) \in Passwords
    BY SmtpAssumption
  <2>2. smtpSettings = [userName |-> CHOOSE u \in UserNames : TRUE,
                        password |-> CHOOSE p \in Passwords : TRUE,
                        connectionType |-> "Plain"]
    BY DEF Smtp!Init
  <2>3. "Plain" \in Smtp!Kinds
    BY DEF Smtp!Kinds
  <2> QED BY <2>1, <2>2, <2>3 DEF MailSettings
<1>2. mailServer \in [offers : BOOLEAN, login : {<<>>}, rcpts : {<<>>}, mails : {<<>>}]
  BY DEF Smtp!Init
<1>3. <<>> \in Seq(Users) /\ <<>> \in Seq(Chunks)
  BY EmptySeq
<1> QED BY <1>1, <1>2, <1>3 DEF SmtpInv, MailTypes, Unsent, Smtp!Init

(* A conversation in progress, as it begins and as it ends.                *)
LEMMA IdleIsUnsent ==
    ASSUME SmtpInv
    PROVE  /\ session.state = "idle" => Unsent
           /\ session.state # "idle" => Sending
           /\ Smtp!TakenAsAsked /\ Smtp!SuccessIsReal
<1>1. Sending => session.state # "idle"
  BY DEF Sending, Sessions, MailStates
<1>2. Unsent => session.state = "idle" /\ Smtp!TakenAsAsked /\ Smtp!SuccessIsReal
  BY DEF Unsent, Smtp!TakenAsAsked, Smtp!SuccessIsReal
<1> QED BY <1>1, <1>2 DEF SmtpInv, Sending

(* The same mail, under the same login, is what the server took.           *)
LEMMA TakenStays ==
    ASSUME Smtp!TakenAsAsked, session.state # "idle", session'.mail = session.mail,
           session'.login = session.login, mailServer'.mails = mailServer.mails
    PROVE  Smtp!TakenAsAsked'
BY DEF Smtp!TakenAsAsked

(* What leaves the mail, its state and the server keeps MailProgress.       *)
LEMMA SameProgress ==
    ASSUME MailProgress, session'.state = session.state, session'.mail = session.mail,
           session'.login = session.login, session'.todo = session.todo,
           UNCHANGED <<toServer, toClient, mailServer>>
    PROVE  MailProgress'
<1>1. Wanted' = Wanted
  BY DEF Wanted
<1>2. Given' = Given
  BY DEF Given, Pending
<1>3. Understood' <=> Understood
  BY DEF Understood
<1> QED BY <1>1, <1>2, <1>3 DEF MailProgress

(* Setters that run during a conversation keep SmtpInv.                     *)
LEMMA MailSet ==
    ASSUME SmtpInv, \/ \E u \in UserNames : Smtp!SetUserName(u)
                    \/ \E p \in Passwords : Smtp!SetPassword(p)
                    \/ \E k \in Smtp!Kinds : Smtp!SetConnectionType(k)
    PROVE  SmtpInv'
<1>1. ASSUME \/ \E u \in UserNames : Smtp!SetUserName(u)
             \/ \E p \in Passwords : Smtp!SetPassword(p)
      PROVE  SmtpInv'
  <2>1. /\ smtpSettings' \in MailSettings
        /\ smtpSettings'.connectionType = smtpSettings.connectionType
        /\ UNCHANGED <<session, toServer, toClient, mailServer>>
    <3>1. smtpSettings \in MailSettings
      BY DEF SmtpInv, MailTypes
    <3> QED BY <1>1, <3>1 DEF Smtp!SetUserName, Smtp!SetPassword, MailSettings
  <2>2. MailTypes' /\ smtpSettings'.connectionType = smtpSettings.connectionType
    BY <2>1 DEF SmtpInv, MailTypes
  <2>3. Unsent => Unsent'
    BY <2>1 DEF Unsent
  <2>4. Sending => Sending'
    <3>1. CastIsRight => CastIsRight'
      BY <2>1, <2>2 DEF CastIsRight
    <3>2. OneCommand => OneCommand'
      BY <2>1 DEF OneCommand, IsSent, Understood
    <3>3. MailProgress => MailProgress'
      BY <2>1, SameProgress
    <3>4. Smtp!TakenAsAsked => Smtp!TakenAsAsked'
      BY <2>1 DEF Smtp!TakenAsAsked
    <3>5. Smtp!SuccessIsReal => Smtp!SuccessIsReal'
      BY <2>1 DEF Smtp!SuccessIsReal
    <3> QED BY <2>1, <3>1, <3>2, <3>3, <3>4, <3>5 DEF Sending
  <2> QED BY <2>2, <2>3, <2>4 DEF SmtpInv
<1>2. ASSUME NEW k \in Smtp!Kinds, Smtp!SetConnectionType(k) PROVE SmtpInv'
  <2>1. /\ smtpSettings' = [smtpSettings EXCEPT !.connectionType = k]
        /\ UNCHANGED <<toServer, toClient, mailServer>>
        /\ session' = IF session.state = "idle" THEN session
                      ELSE [session EXCEPT !.changed = TRUE]
    BY <1>2 DEF Smtp!SetConnectionType
  <2>2. MailTypes'
    BY <2>1 DEF SmtpInv, MailTypes, MailSettings
  <2>3. CASE session.state = "idle"
    BY <2>1, <2>2, <2>3, IdleIsUnsent DEF SmtpInv, Unsent
  <2>4. CASE session.state # "idle"
    <3>1. Sending /\ session \in Sessions
      BY <2>4, IdleIsUnsent DEF Sending
    <3>2. /\ session' \in Sessions /\ session'.changed
          /\ session'.state = session.state /\ session'.mail = session.mail
          /\ session'.login = session.login /\ session'.todo = session.todo
          /\ session'.open = session.open /\ session'.result = session.result
          /\ session'.badCast = session.badCast
      BY <2>1, <2>4, <3>1 DEF Sessions
    <3>3. CastIsRight'
      BY <3>2 DEF CastIsRight
    <3>4. session'.open => OneCommand' /\ MailProgress'
      <4>1. OneCommand => OneCommand'
        BY <2>1, <3>2 DEF OneCommand, IsSent, Understood
      <4>2. MailProgress => MailProgress'
        BY <2>1, <3>2, SameProgress
      <4> QED BY <3>1, <3>2, <4>1, <4>2 DEF Sending
    <3>5. Smtp!TakenAsAsked'
      BY <2>1, <2>4, <3>1, <3>2, TakenStays DEF Sending
    <3>6. Smtp!SuccessIsReal'
      BY <2>1, <2>4, <3>1, <3>2 DEF Sending, Smtp!SuccessIsReal
    <3> QED BY <2>2, <3>2, <3>3, <3>4, <3>5, <3>6 DEF SmtpInv, Sending
  <2> QED BY <2>3, <2>4
<1> QED BY <1>1, <1>2

(* So does the beginning of a conversation ...                              *)
LEMMA MailBegins ==
    ASSUME SmtpInv, NEW mail \in Mails, Smtp!SendTextMail(mail)
    PROVE  SmtpInv'
<1> DEFINE todo == Smtp!Recipients(mail)
           login == <<smtpSettings.userName, smtpSettings.password>>
<1>1. /\ Unsent /\ todo \in Seq(Users)
      /\ login \in Smtp!Logins /\ smtpSettings.connectionType \in Smtp!Kinds
  <2>1. smtpSettings \in MailSettings
    BY DEF SmtpInv, MailTypes
  <2> QED BY <2>1, IdleIsUnsent, RecipientsType DEF Smtp!SendTextMail, Smtp!Logins, MailSettings
<1> HIDE DEF todo
<1>2. /\ session' = [state |-> "Opening", mail |-> mail, login |-> login,
                     socket |-> smtpSettings.connectionType, todo |-> todo, open |-> TRUE,
                     result |-> FALSE, changed |-> FALSE, badCast |-> FALSE]
      /\ UNCHANGED <<smtpSettings, toServer, toClient, mailServer>>
  BY DEF Smtp!SendTextMail, todo
<1> HIDE DEF login
<1>3. /\ session' \in Sessions /\ session'.state = "Opening" /\ session'.mail = mail
      /\ session'.todo = todo /\ session'.socket = smtpSettings.connectionType
      /\ ~ session'.result /\ ~ session'.badCast
  BY <1>1, <1>2 DEF Sessions, MailStates
<1>4. MailTypes'
  BY <1>2 DEF SmtpInv, MailTypes
<1>5. mailServer'.mails = <<>> /\ mailServer'.rcpts = <<>> /\ toServer' = <<>>
  BY <1>1, <1>2 DEF Unsent
<1>6. CastIsRight'
  BY <1>2, <1>3 DEF CastIsRight
<1>7. OneCommand'
  BY <1>3, <1>5 DEF OneCommand, Understood, Smtp!Expected
<1>8. MailProgress'
  <2>1. Wanted' = todo
    BY <1>3 DEF Wanted, todo
  <2> QED BY <1>3, <1>5, <2>1 DEF MailProgress
<1>9. Smtp!TakenAsAsked' /\ Smtp!SuccessIsReal'
  BY <1>3, <1>5 DEF Smtp!TakenAsAsked, Smtp!SuccessIsReal
<1> QED BY <1>3, <1>4, <1>6, <1>7, <1>8, <1>9 DEF SmtpInv, Sending

(* ... and connecting: the cast is wrong only after a change.               *)
LEMMA MailConnects == ASSUME SmtpInv, Smtp!Connect PROVE SmtpInv'
<1> DEFINE bad == session.socket = "Plain" /\ smtpSettings.connectionType = "Ssl"
           greeting == [code |-> 220, starttls |-> FALSE]
<1>1. Sending /\ session \in Sessions /\ session.state = "Opening"
  BY IdleIsUnsent DEF Smtp!Connect, Sending
<1>2. /\ session' = [session EXCEPT !.state = "Init", !.badCast = bad]
      /\ toClient' = IF session'.badCast THEN <<>> ELSE <<greeting>>
      /\ UNCHANGED <<smtpSettings, toServer, mailServer>>
  BY DEF Smtp!Connect
<1>3. bad => session.changed
  BY <1>1 DEF Sending, CastIsRight
<1>4. bad \in BOOLEAN /\ greeting \in Chunks
  BY DEF Chunks
<1> HIDE DEF bad, greeting
<1>5. /\ session' \in Sessions /\ session'.state = "Init" /\ session'.mail = session.mail
      /\ session'.login = session.login /\ session'.todo = session.todo
      /\ session'.socket = session.socket /\ session'.changed = session.changed
      /\ session'.open = session.open /\ session'.result = session.result
      /\ session'.badCast = bad
  BY <1>1, <1>2, <1>4 DEF Sessions, MailStates
<1>6. MailTypes' /\ (toClient' # <<>> => Len(toClient') = 1)
  <2>1. toClient' = <<>> \/ toClient' = <<greeting>>
    BY <1>2
  <2>2. toClient' \in Seq(Chunks) /\ (toClient' # <<>> => Len(toClient') = 1)
    <3>1. <<greeting>> \in Seq(Chunks) /\ Len(<<greeting>>) = 1
      BY <1>4
    <3>2. <<>> \in Seq(Chunks)
      BY EmptySeq
    <3> QED BY <2>1, <3>1, <3>2
  <2> QED BY <1>2, <2>2 DEF SmtpInv, MailTypes
<1>7. CastIsRight'
  BY <1>1, <1>2, <1>5 DEF Sending, CastIsRight
<1>8. session'.open => OneCommand' /\ MailProgress'
  <2> SUFFICES ASSUME session'.open PROVE OneCommand' /\ MailProgress'
    OBVIOUS
  <2>1. OneCommand /\ MailProgress
    BY <1>1, <1>5 DEF Sending
  <2>2. toServer' = <<>>
    BY <1>1, <1>2, <2>1 DEF OneCommand, IsSent
  <2>3. OneCommand'
    BY <1>5, <1>6, <2>2 DEF OneCommand, Understood
  <2>4. Wanted' = Wanted
    BY <1>5 DEF Wanted
  <2> QED BY <1>1, <1>2, <1>5, <2>1, <2>2, <2>3, <2>4 DEF MailProgress
<1>9. Smtp!TakenAsAsked'
  BY <1>1, <1>2, <1>5, TakenStays DEF Sending
<1>10. Smtp!SuccessIsReal'
  BY <1>1, <1>2, <1>3, <1>5 DEF Sending, Smtp!SuccessIsReal
<1> QED BY <1>5, <1>6, <1>7, <1>8, <1>9, <1>10 DEF SmtpInv, Sending

(* What reading leaves of the chunks.                                      *)
LEMMA ReadsChunks ==
    ASSUME toClient \in Seq(Chunks), NEW n \in 1 .. Len(toClient),
           toClient' = SubSeq(toClient, n + 1, Len(toClient))
    PROVE  /\ toClient' \in Seq(Chunks)
           /\ Len(toClient) \in {1, 2} /\ toClient' # <<>>
                => n = 1 /\ Len(toClient) = 2 /\ toClient'[1] = toClient[2]
<1>1. n \in Nat /\ Len(toClient) \in Nat /\ n + 1 \in 1 .. Len(toClient) + 1
  OBVIOUS
<1> DEFINE t == SubSeq(toClient, n + 1, Len(toClient))
<1>2. /\ t \in Seq(Chunks) /\ Len(t) = Len(toClient) - n
      /\ \A i \in 1 .. Len(toClient) - n : t[i] = toClient[n + i]
  BY <1>1
<1> HIDE DEF t
<1>3. t = <<>> \/ Len(t) > 0
  BY <1>2, EmptySeq
<1>4. toClient' = t
  BY DEF t
<1>5. ASSUME Len(toClient) \in {1, 2}, t # <<>>
      PROVE  n = 1 /\ Len(toClient) = 2 /\ t[1] = toClient[2]
  <2>1. n = 1 /\ Len(toClient) = 2
    <3>1. Len(toClient) - n > 0
      BY <1>2, <1>3, <1>5
    <3>2. Len(toClient) = 1 \/ Len(toClient) = 2
      BY <1>5
    <3> QED BY <1>1, <3>1, <3>2
  <2>2. t[1] = toClient[1 + 1]
    BY <1>2, <2>1
  <2> QED BY <2>1, <2>2
<1> QED BY <1>2, <1>4, <1>5

(* What is known when the client has read the answer it waited for.         *)
LEMMA ReadsAnswer ==
    ASSUME SmtpInv, NEW n, NEW st, NEW code, Smtp!Reads(n, st, code),
           <<st, code>> \in Smtp!Expected
    PROVE  /\ Sending /\ OneCommand /\ MailProgress /\ Understood /\ toServer = <<>>
           /\ session.state = st /\ st \in MailStates /\ session.open
           /\ n \in 1 .. Len(toClient)
           /\ toClient' \in Seq(Chunks) /\ UNCHANGED <<smtpSettings, mailServer>>
           /\ toClient' # <<>> =>
                 \/ toClient'[1].code = 0
                 \/ /\ st = "Auth" /\ toClient'[1].code = 250
                    /\ n = 1 /\ ~ toClient[1].starttls
<1>1. /\ session.state = st /\ toClient[1].code = code /\ n \in 1 .. Len(toClient)
      /\ session.state # "idle" /\ session.open
      /\ toClient' = SubSeq(toClient, n + 1, Len(toClient))
      /\ UNCHANGED <<smtpSettings, mailServer>>
  BY DEF Smtp!Reads, Smtp!Running
<1>2. Sending
  BY <1>1, IdleIsUnsent
<1>3. OneCommand /\ MailProgress /\ st \in MailStates
  BY <1>1, <1>2 DEF Sending, Sessions
<1>4. toClient \in Seq(Chunks) /\ toClient # <<>>
  BY <1>1 DEF SmtpInv, MailTypes
<1>5. Understood
  BY <1>1, <1>4 DEF Understood
<1>6. toServer = <<>> /\ Len(toClient) \in {1, 2}
  BY <1>3, <1>5 DEF OneCommand
<1>7. /\ toClient' \in Seq(Chunks)
      /\ toClient' # <<>> => n = 1 /\ Len(toClient) = 2 /\ toClient'[1] = toClient[2]
  BY <1>1, <1>4, <1>6, ReadsChunks
<1>8. toClient' # <<>> => \/ toClient'[1].code = 0
                          \/ /\ st = "Auth" /\ toClient'[1].code = 250
                             /\ n = 1 /\ ~ toClient[1].starttls
  BY <1>1, <1>3, <1>5, <1>7 DEF OneCommand
<1> QED BY <1>1, <1>2, <1>3, <1>5, <1>6, <1>7, <1>8

(* A step that goes on with the session, to state next.                    *)
GoesOn(next, todo) ==
    session' = [session EXCEPT !.state = next, !.todo = todo]

(* What is left as it was when the session goes on.                         *)
LEMMA SessionGoesOn ==
    ASSUME session \in Sessions, NEW next \in MailStates, NEW todo \in Seq(Users),
           GoesOn(next, todo)
    PROVE  /\ session' \in Sessions /\ session'.state = next /\ session'.todo = todo
           /\ session'.mail = session.mail /\ session'.login = session.login
           /\ session'.socket = session.socket /\ session'.open = session.open
           /\ session'.result = session.result /\ session'.changed = session.changed
           /\ session'.badCast = session.badCast
BY DEF Sessions, GoesOn

(* An answer has been read, and command c is sent next.                    *)
LEMMA ClientSays ==
    ASSUME SmtpInv, NEW n, NEW st, NEW code, Smtp!Reads(n, st, code),
           <<st, code>> \in Smtp!Expected,
           NEW c, toServer' = Append(toServer, c), IsSent(c)',
           NEW next \in MailStates, NEW todo \in Seq(Users), GoesOn(next, todo),
           next \notin {"Init", "Encrypting"},
           next = "Tls" => session.changed \/ session.socket = "StartTls",
           st = "Auth" => next \in {"Tls", "User"} /\ (next = "Tls" => n # 1 \/ toClient[1].starttls)
    PROVE  /\ toServer' = <<c>> /\ ~ Understood' /\ Wanted' = Wanted
           /\ MailProgress' => SmtpInv'
<1>1. /\ Sending /\ OneCommand /\ MailProgress /\ Understood /\ toServer = <<>>
      /\ session.state = st /\ session.open
      /\ toClient' \in Seq(Chunks) /\ UNCHANGED <<smtpSettings, mailServer>>
      /\ toClient' # <<>> =>
            \/ toClient'[1].code = 0
            \/ st = "Auth" /\ toClient'[1].code = 250 /\ n = 1 /\ ~ toClient[1].starttls
  BY ReadsAnswer
<1>2. session \in Sessions
  BY <1>1 DEF Sending
<1>3. /\ session' \in Sessions /\ session'.state = next /\ session'.todo = todo
      /\ session'.mail = session.mail /\ session'.login = session.login
      /\ session'.socket = session.socket /\ session'.open = session.open
      /\ session'.result = session.result /\ session'.changed = session.changed
      /\ session'.badCast = session.badCast
  BY <1>2, SessionGoesOn
<1>4. toServer' = <<c>> /\ toServer'[1] = c
  BY <1>1
<1>5. ~ Understood'
  <2>1. ASSUME toClient' # <<>>, <<next, toClient'[1].code>> \in Smtp!Expected PROVE FALSE
    BY <1>1, <2>1 DEF Smtp!Expected
  <2> QED BY <1>3, <2>1 DEF Understood
<1>6. Wanted' = Wanted
  BY <1>3 DEF Wanted
<1>7. OneCommand'
  BY <1>3, <1>4, <1>5 DEF OneCommand
<1>8. CastIsRight' /\ MailTypes'
  BY <1>1, <1>3 DEF CastIsRight, Sending, SmtpInv, MailTypes
<1>9. Smtp!TakenAsAsked'
  <2>1. Smtp!TakenAsAsked /\ session.state # "idle"
    BY <1>1, <1>2 DEF Sending, Sessions, MailStates
  <2> QED BY <1>1, <1>3, <2>1, TakenStays
<1>10. Smtp!SuccessIsReal'
  <2>1. Smtp!SuccessIsReal /\ session.state # "idle"
    BY <1>1, <1>2 DEF Sending, Sessions, MailStates
  <2> QED BY <1>1, <1>3, <2>1 DEF Smtp!SuccessIsReal
<1> QED BY <1>3, <1>4, <1>5, <1>6, <1>7, <1>8, <1>9, <1>10 DEF SmtpInv, Sending

(* Most commands say nothing else.                                         *)
LEMMA ClientSays1 ==
    ASSUME SmtpInv, NEW n, NEW st, NEW code, Smtp!Reads(n, st, code),
           <<st, code>> \in Smtp!Expected,
           NEW c, NEW next \in MailStates, Smtp!Says(c, next),
           next \notin {"Init", "Encrypting"},
           next = "Tls" => session.changed \/ session.socket = "StartTls",
           st = "Auth" => next \in {"Tls", "User"} /\ (next = "Tls" => n # 1 \/ toClient[1].starttls)
    PROVE  /\ session'.state = next /\ session'.todo = session.todo
           /\ session'.login = session.login /\ session'.mail = session.mail
           /\ IsSent(c)' =>
                 /\ toServer' = <<c>> /\ ~ Understood' /\ Wanted' = Wanted
                 /\ MailProgress' => SmtpInv'
<1>1. Sending /\ session \in Sessions
  BY ReadsAnswer DEF Sending
<1>2. PICK todo : todo = session.todo /\ todo \in Seq(Users)
  BY <1>1 DEF Sessions
<1>3. session' = [session EXCEPT !.state = next] /\ toServer' = Append(toServer, c)
  BY DEF Smtp!Says
<1>4. GoesOn(next, todo)
  BY <1>1, <1>2, <1>3 DEF GoesOn, Sessions
<1>5. /\ session'.state = next /\ session'.todo = session.todo
      /\ session'.login = session.login /\ session'.mail = session.mail
  BY <1>1, <1>2, <1>4, SessionGoesOn
<1>6. IsSent(c)' =>
         /\ toServer' = <<c>> /\ ~ Understood' /\ Wanted' = Wanted
         /\ MailProgress' => SmtpInv'
  BY <1>2, <1>3, <1>4, ClientSays
<1> QED BY <1>5, <1>6

(* Before the recipients, nothing of the mail is with the server.          *)
Early == {"Init", "Auth", "Tls", "Encrypting", "User", "Pass", "Mail"}

(* One command after another, before there are recipients.                  *)
LEMMA EarlySays ==
    ASSUME SmtpInv, NEW n, NEW st, NEW code, Smtp!Reads(n, st, code),
           <<st, code>> \in Smtp!Expected,
           NEW c, NEW next \in Early \cap MailStates, Smtp!Says(c, next), st \in Early,
           IsSent(c)', next \notin {"Init", "Encrypting"},
           next = "Tls" => session.changed \/ session.socket = "StartTls",
           st = "Auth" => next \in {"Tls", "User"} /\ (next = "Tls" => n # 1 \/ toClient[1].starttls)
    PROVE  SmtpInv'
<1>1. MailProgress /\ session.state = st /\ UNCHANGED mailServer
  BY ReadsAnswer
<1>2. /\ session'.state = next /\ session'.todo = session.todo
      /\ toServer' = <<c>> /\ ~ Understood' /\ Wanted' = Wanted
      /\ MailProgress' => SmtpInv'
  BY ClientSays1
<1>3. MailProgress'
  BY <1>1, <1>2 DEF MailProgress, Early
<1> QED BY <1>2, <1>3

(* The steps of the client, one by one: the greeting ...                    *)
LEMMA MailGreeted ==
    ASSUME SmtpInv, NEW n, Smtp!Greeted(n) PROVE SmtpInv'
<1>1. PICK c : c = [name |-> "EHLO"]
  OBVIOUS
<1>2. Smtp!Reads(n, "Init", 220) /\ Smtp!Says(c, "Auth")
  BY <1>1 DEF Smtp!Greeted, Smtp!Says1
<1>3. <<"Init", 220>> \in Smtp!Expected /\ "Auth" \in Early \cap MailStates
  BY DEF Smtp!Expected, Early, MailStates
<1>4. IsSent(c)'
  BY <1>1, <1>2, <1>3, ClientSays1 DEF IsSent
<1> QED BY <1>2, <1>3, <1>4, EarlySays DEF Early

(* ... the answer to EHLO ...                                               *)
LEMMA MailWelcomed ==
    ASSUME SmtpInv, NEW n, Smtp!Welcomed(n) PROVE SmtpInv'
<1>1. Smtp!Reads(n, "Auth", 250) /\ <<"Auth", 250>> \in Smtp!Expected
  BY DEF Smtp!Expected, Smtp!Welcomed
<1>2. {"Tls", "User"} \subseteq Early \cap MailStates /\ "Auth" \in Early
  BY DEF Early, MailStates
<1>3. CASE (\E i \in 1 .. n : toClient[i].starttls) /\ smtpSettings.connectionType = "StartTls"
  <2>1. PICK c : c = [name |-> "STARTTLS"]
    OBVIOUS
  <2>2. Smtp!Says(c, "Tls")
    BY <1>3, <2>1 DEF Smtp!Welcomed, Smtp!Says1
  <2>3. session.changed \/ session.socket = "StartTls"
    BY <1>1, <1>3, ReadsAnswer DEF Sending, CastIsRight
  <2>4. n # 1 \/ toClient[1].starttls
    BY <1>3
  <2>a. "Tls" \in MailStates
    BY <1>2
  <2>b. session'.state = "Tls"
    BY <1>1, <2>a, <2>2, <2>3, <2>4, ClientSays1
  <2>5. IsSent(c)'
    BY <2>1, <2>b DEF IsSent
  <2> QED BY <1>1, <1>2, <2>2, <2>3, <2>4, <2>5, EarlySays
<1>4. CASE ~ ((\E i \in 1 .. n : toClient[i].starttls)
                /\ smtpSettings.connectionType = "StartTls")
  <2>1. PICK c : c = [name |-> "AUTH"]
    OBVIOUS
  <2>2. Smtp!Says(c, "User")
    BY <1>4, <2>1 DEF Smtp!Welcomed, Smtp!Says1
  <2>5. IsSent(c)'
    BY <1>1, <1>2, <2>1, <2>2, ClientSays1 DEF IsSent
  <2> QED BY <1>1, <1>2, <2>2, <2>5, EarlySays
<1> QED BY <1>3, <1>4

(* ... the login and the sender ...                                         *)
LEMMA MailLogsIn ==
    ASSUME SmtpInv, NEW n, Smtp!LogIn(n) PROVE SmtpInv'
<1>0. {"User", "Pass", "Mail", "Rcpt"} \subseteq MailStates
      /\ {"User", "Pass", "Mail"} \subseteq Early
  BY DEF Early, MailStates
<1>1. CASE Smtp!Reads(n, "User", 334) /\ Smtp!Says1("USER", "Pass")
  <2>1. PICK c : c = [name |-> "USER"]
    OBVIOUS
  <2>2. Smtp!Says(c, "Pass") /\ <<"User", 334>> \in Smtp!Expected
    BY <1>1, <2>1 DEF Smtp!Says1, Smtp!Expected
  <2>3. IsSent(c)'
    <3>1. "Pass" \in MailStates
      BY <1>0
    <3>2. session'.state = "Pass"
      BY <1>1, <2>2, <3>1, ClientSays1
    <3> QED BY <2>1, <3>2 DEF IsSent
  <2> QED BY <1>0, <1>1, <2>2, <2>3, EarlySays
<1>2. CASE /\ Smtp!Reads(n, "Pass", 334)
           /\ Smtp!Says([name |-> "PASS", login |-> session.login], "Mail")
  <2>1. PICK c : c = [name |-> "PASS", login |-> session.login]
    OBVIOUS
  <2>2. Smtp!Says(c, "Mail") /\ <<"Pass", 334>> \in Smtp!Expected
    BY <1>2, <2>1 DEF Smtp!Expected
  <2>3. IsSent(c)'
    <3>1. "Mail" \in MailStates
      BY <1>0
    <3>2. session'.state = "Mail" /\ session'.login = session.login
      BY <1>2, <2>2, <3>1, ClientSays1
    <3> QED BY <2>1, <3>2 DEF IsSent
  <2> QED BY <1>0, <1>2, <2>2, <2>3, EarlySays
<1>3. CASE Smtp!Reads(n, "Mail", 235) /\ Smtp!Says1("MAIL", "Rcpt")
  <2>1. PICK c : c = [name |-> "MAIL"]
    OBVIOUS
  <2>2. Smtp!Says(c, "Rcpt") /\ <<"Mail", 235>> \in Smtp!Expected
    BY <1>3, <2>1 DEF Smtp!Says1, Smtp!Expected
  <2>3. /\ session'.state = "Rcpt" /\ session'.todo = session.todo
        /\ session'.login = session.login
        /\ IsSent(c)' => /\ toServer' = <<c>> /\ ~ Understood' /\ Wanted' = Wanted
                         /\ MailProgress' => SmtpInv'
    BY <1>0, <1>3, <2>2, ClientSays1
  <2>4. IsSent(c)'
    BY <2>1, <2>3 DEF IsSent
  <2>5. /\ MailProgress /\ session.state = "Mail" /\ Understood /\ UNCHANGED mailServer
        /\ Sending
    BY <1>3, <2>2, ReadsAnswer
  <2>6. Given' = <<>>
    BY <2>1, <2>3, <2>4, <2>5 DEF Given, Pending, MailProgress
  <2>7. Wanted \in Seq(Users)
    BY <2>5, RecipientsType DEF Wanted, Sending, Sessions
  <2>8. <<>> \o Wanted = Wanted
    BY <2>7, ConcatEmptySeq
  <2>9. MailProgress'
    BY <2>3, <2>4, <2>5, <2>6, <2>8 DEF MailProgress
  <2> QED BY <2>3, <2>4, <2>9
<1> QED BY <1>1, <1>2, <1>3 DEF Smtp!LogIn

(* A recipient that is told.                                               *)
LEMMA OneGiven ==
    ASSUME NEW S, NEW s \in Seq(S), NEW t \in Seq(S), t # <<>>
    PROVE  /\ t[1] \in S /\ Tail(t) \in Seq(S)
           /\ Append(s, t[1]) \o Tail(t) = s \o t
<1> DEFINE a == Append(s, t[1])
           b == Tail(t)
           u == a \o b
           v == s \o t
<1>1. t[1] \in S /\ Len(t) \in Nat /\ Len(t) > 0 /\ Len(s) \in Nat
  BY EmptySeq
<1>2. /\ b \in Seq(S) /\ Len(b) = Len(t) - 1
      /\ \A i \in 1 .. Len(t) - 1 : b[i] = t[i + 1]
  BY <1>1
<1>3. /\ a \in Seq(S) /\ Len(a) = Len(s) + 1 /\ a[Len(s) + 1] = t[1]
      /\ \A i \in 1 .. Len(s) : a[i] = s[i]
  BY <1>1, AppendProperties
<1>4. /\ v \in Seq(S) /\ Len(v) = Len(s) + Len(t)
      /\ \A i \in 1 .. Len(s) + Len(t) : v[i] = IF i <= Len(s) THEN s[i] ELSE t[i - Len(s)]
  BY ConcatProperties
<1> HIDE DEF a, b, v
<1>5. /\ u \in Seq(S) /\ Len(u) = Len(a) + Len(b)
      /\ \A i \in 1 .. Len(a) + Len(b) : u[i] = IF i <= Len(a) THEN a[i] ELSE b[i - Len(a)]
  BY <1>2, <1>3, ConcatProperties
<1> HIDE DEF u
<1>6. Len(u) = Len(v)
  BY <1>1, <1>2, <1>3, <1>4, <1>5
<1>7. ASSUME NEW i \in 1 .. Len(u) PROVE u[i] = v[i]
  <2>1. CASE i <= Len(s)
    <3>1. u[i] = a[i]
      BY <1>1, <1>2, <1>3, <1>5, <2>1
    <3> QED BY <1>1, <1>3, <1>4, <1>6, <2>1, <3>1
  <2>2. CASE i = Len(s) + 1
    <3>1. u[i] = a[i] /\ a[i] = t[1]
      BY <1>1, <1>2, <1>3, <1>5, <2>2
    <3>2. i - Len(s) = 1
      BY <1>1, <2>2
    <3> QED BY <1>1, <1>4, <1>6, <2>2, <3>1, <3>2
  <2>3. CASE i > Len(s) + 1
    <3>1. u[i] = b[i - Len(a)] /\ i - Len(a) \in 1 .. Len(t) - 1
      BY <1>1, <1>2, <1>3, <1>5, <2>3
    <3>2. i - Len(a) + 1 = i - Len(s)
      BY <1>1, <1>3
    <3>3. b[i - Len(a)] = t[i - Len(s)]
      BY <1>2, <3>1, <3>2
    <3> QED BY <1>1, <1>4, <1>6, <2>3, <3>1, <3>3
  <2> QED BY <1>1, <2>1, <2>2, <2>3
<1>8. u = v
  BY <1>4, <1>5, <1>6, <1>7, SeqEqual
<1> QED BY <1>1, <1>2, <1>8 DEF a, b, u, v

(* ... the recipients ...                                                   *)
LEMMA MailTellsRecipients ==
    ASSUME SmtpInv, NEW n, Smtp!Envelope(n) PROVE SmtpInv'
<1>0. {"Rcpt", "Data", "Body"} \subseteq MailStates
  BY DEF MailStates
<1>e. <<"Rcpt", 250>> \in Smtp!Expected /\ <<"Data", 250>> \in Smtp!Expected
  BY DEF Smtp!Expected
<1>r. ASSUME NEW st \in {"Rcpt", "Data"}, Smtp!Reads(n, st, 250)
      PROVE  /\ MailProgress /\ session.state = st /\ Understood /\ UNCHANGED mailServer
             /\ toServer = <<>> /\ session \in Sessions /\ SmtpInv /\ MailTypes
             /\ mailServer.rcpts \in Seq(Users) /\ session.todo \in Seq(Users)
             /\ mailServer.rcpts \o session.todo = Wanted
  <2>1. /\ MailProgress /\ session.state = st /\ Understood /\ UNCHANGED mailServer
        /\ toServer = <<>> /\ session \in Sessions
    BY <1>e, <1>r, ReadsAnswer DEF Sending
  <2>2. Given = mailServer.rcpts
    BY <2>1 DEF Given, Pending
  <2> QED BY <2>1, <2>2 DEF SmtpInv, MailTypes, MailProgress, Sessions
<1>1. CASE /\ Smtp!Reads(n, "Rcpt", 250) /\ session.todo # <<>>
           /\ toServer' = Append(toServer, [name |-> "RCPT", to |-> session.todo[1]])
           /\ session' = [session EXCEPT !.todo = Tail(@),
                              !.state = IF Tail(session.todo) = <<>> THEN "Data"
                                        ELSE "Rcpt"]
  <2>1. PICK todo, todo2, to : todo = session.todo /\ todo2 = Tail(todo) /\ to = todo[1]
    OBVIOUS
  <2>2. PICK next \in {"Rcpt", "Data"} : next = IF todo2 = <<>> THEN "Data" ELSE "Rcpt"
    OBVIOUS
  <2>3. PICK c : c = [name |-> "RCPT", to |-> to]
    OBVIOUS
  <2>4. PICK got : got = mailServer.rcpts
    OBVIOUS
  <2>5. /\ got \in Seq(Users) /\ todo \in Seq(Users) /\ todo # <<>> /\ got \o todo = Wanted
        /\ session \in Sessions /\ MailProgress /\ session.state = "Rcpt" /\ Understood
        /\ UNCHANGED mailServer
    BY <1>1, <1>r, <2>1, <2>4
  <2>6. to \in Users /\ todo2 \in Seq(Users) /\ Append(got, to) \o todo2 = Wanted
    <3>1. got \in Seq(Users) /\ todo \in Seq(Users) /\ todo # <<>>
      BY <2>5
    <3>2. todo[1] \in Users /\ Tail(todo) \in Seq(Users)
          /\ Append(got, todo[1]) \o Tail(todo) = got \o todo
      BY ONLY <3>1, OneGiven
    <3> QED BY <2>1, <2>5, <3>2, Zenon
  <2>7. GoesOn(next, todo2) /\ next \in MailStates
    <3>1. session' = [session EXCEPT !.todo = todo2, !.state = next]
      BY <1>1, <2>1, <2>2
    <3> QED BY <1>0, <2>5, <2>6, <3>1 DEF GoesOn, Sessions
  <2>8. /\ session'.state = next /\ session'.todo = todo2 /\ session'.login = session.login
    BY <2>5, <2>6, <2>7, SessionGoesOn
  <2>9. IsSent(c)'
    BY <2>3, <2>6, <2>8 DEF IsSent
  <2>10. toServer' = Append(toServer, c)
    BY <1>1, <2>1, <2>3
  <2>11. /\ toServer' = <<c>> /\ ~ Understood' /\ Wanted' = Wanted
         /\ MailProgress' => SmtpInv'
    <3>1. next \notin {"Init", "Encrypting", "Tls"}
      BY <2>2
    <3>2. Smtp!Reads(n, "Rcpt", 250) /\ <<"Rcpt", 250>> \in Smtp!Expected
      BY <1>1, <1>e
    <3>3. "Rcpt" # "Auth" /\ (next = "Tls" => session.changed \/ session.socket = "StartTls")
      BY <3>1
    <3>4. next \notin {"Init", "Encrypting"}
      BY <3>1
    <3> QED BY ONLY SmtpInv, <2>6, <2>7, <2>9, <2>10, <3>2, <3>3, <3>4, ClientSays
  <2>12. Given' = Append(got, to)
    BY <2>3, <2>4, <2>5, <2>11 DEF Given, Pending
  <2>13. MailProgress'
    BY <2>2, <2>5, <2>6, <2>8, <2>11, <2>12 DEF MailProgress
  <2> QED BY <2>11, <2>13
<1>2. CASE \/ Smtp!Reads(n, "Rcpt", 250) /\ session.todo = <<>> /\ Smtp!Says1("DATA", "Body")
           \/ Smtp!Reads(n, "Data", 250) /\ Smtp!Says1("DATA", "Body")
  <2>1. PICK st \in {"Rcpt", "Data"} :
            Smtp!Reads(n, st, 250) /\ (st = "Rcpt" => session.todo = <<>>)
    BY <1>2
  <2>2. PICK c : c = [name |-> "DATA"]
    OBVIOUS
  <2>3. Smtp!Says(c, "Body") /\ <<st, 250>> \in Smtp!Expected
    BY <1>2, <1>e, <2>2 DEF Smtp!Says1
  <2>4. /\ session'.state = "Body" /\ session'.login = session.login
        /\ IsSent(c)' => /\ toServer' = <<c>> /\ ~ Understood' /\ Wanted' = Wanted
                         /\ MailProgress' => SmtpInv'
    BY <1>0, <2>1, <2>3, ClientSays1
  <2>5. IsSent(c)'
    BY <2>2, <2>4 DEF IsSent
  <2>6. /\ MailProgress /\ session.state = st /\ UNCHANGED mailServer
        /\ mailServer.rcpts \in Seq(Users) /\ mailServer.rcpts \o session.todo = Wanted
    BY <2>1, <1>r
  <2>7. session.todo = <<>>
    BY <2>1, <2>6 DEF MailProgress
  <2>8. mailServer.rcpts = Wanted
    BY <2>6, <2>7, ConcatEmptySeq
  <2>9. MailProgress'
    BY <2>4, <2>5, <2>6, <2>8 DEF MailProgress
  <2> QED BY <2>4, <2>5, <2>9
<1> QED BY <1>1, <1>2 DEF Smtp!Envelope

(* ... the body ...                                                         *)
LEMMA MailSendsBody ==
    ASSUME SmtpInv, NEW n, Smtp!Body(n) PROVE SmtpInv'
<1>0. "Quit" \in MailStates /\ "Close" \in MailStates
  BY DEF MailStates
<1>1. CASE /\ Smtp!Reads(n, "Body", 354)
           /\ Smtp!Says([name |-> "CONTENT",
                         lines |-> Smtp!Content(session.mail.body) \o <<"dot">>], "Quit")
  <2>1. PICK lines : lines = Smtp!Content(session.mail.body) \o <<"dot">>
    OBVIOUS
  <2>2. PICK c : c = [name |-> "CONTENT", lines |-> lines]
    OBVIOUS
  <2>3. Smtp!Says(c, "Quit") /\ <<"Body", 354>> \in Smtp!Expected
    BY <1>1, <2>1, <2>2 DEF Smtp!Expected
  <2>4. /\ session'.state = "Quit" /\ session'.login = session.login
        /\ session'.mail = session.mail
        /\ IsSent(c)' => /\ toServer' = <<c>> /\ ~ Understood' /\ Wanted' = Wanted
                         /\ MailProgress' => SmtpInv'
    BY <1>0, <1>1, <2>3, ClientSays1
  <2>5. IsSent(c)'
    BY <2>1, <2>2, <2>4 DEF IsSent
  <2>6. MailProgress /\ session.state = "Body" /\ UNCHANGED mailServer
    BY <1>1, <2>3, ReadsAnswer
  <2>7. MailProgress'
    BY <2>4, <2>5, <2>6 DEF MailProgress
  <2> QED BY <2>4, <2>5, <2>7
<1>2. CASE Smtp!Reads(n, "Quit", 250) /\ Smtp!Says1("QUIT", "Close")
  <2>2. PICK c : c = [name |-> "QUIT"]
    OBVIOUS
  <2>3. Smtp!Says(c, "Close") /\ <<"Quit", 250>> \in Smtp!Expected
    BY <1>2, <2>2 DEF Smtp!Expected, Smtp!Says1
  <2>4. /\ session'.state = "Close"
        /\ IsSent(c)' => (MailProgress' => SmtpInv')
    BY <1>0, <1>2, <2>3, ClientSays1
  <2>5. IsSent(c)'
    BY <2>2, <2>4 DEF IsSent
  <2>6. MailProgress /\ session.state = "Quit" /\ Understood /\ UNCHANGED mailServer
    BY <1>2, <2>3, ReadsAnswer
  <2>7. MailProgress'
    BY <2>4, <2>6 DEF MailProgress
  <2> QED BY <2>4, <2>5, <2>7
<1> QED BY <1>1, <1>2 DEF Smtp!Body

(* ... the answer to STARTTLS ...                                           *)
LEMMA MailEncrypts ==
    ASSUME SmtpInv, NEW n, Smtp!StartClientEncryption(n) PROVE SmtpInv'
<1>1. Smtp!Reads(n, "Tls", 220) /\ <<"Tls", 220>> \in Smtp!Expected
  BY DEF Smtp!StartClientEncryption, Smtp!Expected
<1>2. /\ Sending /\ OneCommand /\ MailProgress /\ Understood /\ toServer = <<>>
      /\ session.state = "Tls" /\ session.open
      /\ toClient' \in Seq(Chunks) /\ UNCHANGED <<smtpSettings, mailServer>>
      /\ toClient' # <<>> => toClient'[1].code = 0
  BY <1>1, ReadsAnswer
<1>3. session \in Sessions
  BY <1>2 DEF Sending
<1>4. /\ toServer' = toServer
      /\ session' = [session EXCEPT !.state = "Encrypting",
                         !.badCast = session.socket = "Plain"]
  BY DEF Smtp!StartClientEncryption
<1>5. /\ session' \in Sessions /\ session'.state = "Encrypting"
      /\ session'.mail = session.mail
      /\ session'.login = session.login /\ session'.todo = session.todo
      /\ session'.open = session.open /\ session'.result = session.result
      /\ session'.changed = session.changed /\ session'.socket = session.socket
      /\ session'.badCast <=> session.socket = "Plain"
  BY <1>3, <1>4 DEF Sessions, MailStates
<1>6. ~ Understood'
  <2>1. <<"Encrypting", 0>> \notin Smtp!Expected
    BY DEF Smtp!Expected
  <2> QED BY <1>2, <1>5, <2>1 DEF Understood
<1>7. OneCommand'
  BY <1>2, <1>4, <1>5, <1>6 DEF OneCommand
<1>8. MailProgress'
  <2>1. Wanted' = Wanted
    BY <1>5 DEF Wanted
  <2> QED BY <1>2, <1>4, <1>5, <1>6, <2>1 DEF MailProgress
<1>9. CastIsRight' /\ MailTypes'
  BY <1>2, <1>5 DEF CastIsRight, Sending, SmtpInv, MailTypes
<1>10. Smtp!TakenAsAsked'
  <2>1. Smtp!TakenAsAsked /\ session.state # "idle"
    BY <1>2 DEF Sending
  <2> QED BY <1>2, <1>5, <2>1, TakenStays
<1>11. Smtp!SuccessIsReal'
  <2>1. Smtp!SuccessIsReal /\ session.state # "idle"
    BY <1>2 DEF Sending
  <2>2. session.socket = "Plain" => session.changed
    BY <1>2 DEF Sending, CastIsRight
  <2> QED BY <1>2, <1>5, <2>1, <2>2 DEF Smtp!SuccessIsReal
<1> QED BY <1>5, <1>7, <1>8, <1>9, <1>10, <1>11 DEF SmtpInv, Sending

(* ... and the end of the handshake.                                        *)
LEMMA MailIsEncrypted == ASSUME SmtpInv, Smtp!Encrypted PROVE SmtpInv'
<1>1. /\ session.state = "Encrypting" /\ session.open
      /\ toServer' = Append(toServer, [name |-> "EHLO"])
      /\ session' = [session EXCEPT !.state = "Auth"]
      /\ UNCHANGED <<smtpSettings, toClient, mailServer>>
  BY DEF Smtp!Encrypted, Smtp!Running, Smtp!Says1, Smtp!Says
<1>2. /\ Sending /\ OneCommand /\ MailProgress /\ session \in Sessions
  BY <1>1, IdleIsUnsent DEF Sending
<1>3. toServer = <<>>
  BY <1>1, <1>2 DEF OneCommand, IsSent
<1>4. PICK c : c = [name |-> "EHLO"]
  OBVIOUS
<1>5. toServer' = <<c>> /\ toServer' # <<>> /\ toServer'[1] = c
  BY <1>1, <1>3, <1>4
<1>6. /\ session' \in Sessions /\ session'.state = "Auth"
      /\ session'.mail = session.mail
      /\ session'.login = session.login /\ session'.todo = session.todo
      /\ session'.open = session.open /\ session'.result = session.result
      /\ session'.changed = session.changed /\ session'.socket = session.socket
      /\ session'.badCast = session.badCast
  BY <1>1, <1>2 DEF Sessions, MailStates
<1>7. ~ Understood'
  <2>1. toClient # <<>> => toClient[1].code # 250
    BY <1>1, <1>2 DEF OneCommand
  <2> QED BY <1>1, <1>6, <2>1 DEF Understood, Smtp!Expected
<1>8. OneCommand'
  <2>1. IsSent(c)'
    BY <1>4, <1>6 DEF IsSent
  <2> QED BY <1>5, <1>6, <1>7, <2>1 DEF OneCommand
<1>9. MailProgress'
  <2>1. Wanted' = Wanted
    BY <1>6 DEF Wanted
  <2> QED BY <1>1, <1>2, <1>6, <1>7, <2>1 DEF MailProgress
<1>10. CastIsRight' /\ MailTypes'
  BY <1>1, <1>2, <1>6 DEF CastIsRight, Sending, SmtpInv, MailTypes
<1>11. Smtp!TakenAsAsked'
  <2>1. Smtp!TakenAsAsked /\ session.state # "idle"
    BY <1>1, <1>2 DEF Sending
  <2> QED BY <1>1, <1>6, <2>1, TakenStays
<1>12. Smtp!SuccessIsReal'
  <2>1. Smtp!SuccessIsReal /\ session.state # "idle"
    BY <1>1, <1>2 DEF Sending
  <2> QED BY <1>1, <1>6, <2>1 DEF Smtp!SuccessIsReal
<1> QED BY <1>6, <1>8, <1>9, <1>10, <1>11, <1>12 DEF SmtpInv, Sending

(* The end of the conversation.                                            *)
LEMMA MailEnds ==
    ASSUME SmtpInv, Smtp!Unknown \/ Smtp!Error \/ \E n \in 1 .. Len(toClient) : Smtp!Success(n)
    PROVE  SmtpInv'
<1>1. Sending /\ session \in Sessions /\ session.state # "idle" /\ session.open
  BY IdleIsUnsent DEF Sending, Smtp!Unknown, Smtp!Error, Smtp!Success, Smtp!Running
<1>2. UNCHANGED <<smtpSettings, mailServer>>
  BY DEF Smtp!Unknown, Smtp!Error, Smtp!Success
<1>3. toClient' \in Seq(Chunks)
  <2>1. toClient \in Seq(Chunks)
    BY DEF SmtpInv, MailTypes
  <2>2. ASSUME NEW n \in 1 .. Len(toClient), Smtp!Success(n) PROVE toClient' \in Seq(Chunks)
    BY <2>1, <2>2, ReadsChunks DEF Smtp!Success
  <2>3. CASE Smtp!Unknown \/ Smtp!Error
    BY <2>1, <2>3 DEF Smtp!Unknown, Smtp!Error
  <2> QED BY <2>2, <2>3
<1>4. \/ session' = [session EXCEPT !.state = "Close", !.open = FALSE]
      \/ session' = [session EXCEPT !.open = FALSE]
      \/ session' = [session EXCEPT !.result = TRUE, !.open = FALSE]
         /\ session.state = "Close"
  BY DEF Smtp!Unknown, Smtp!Error, Smtp!Success
<1>5. /\ session' \in Sessions /\ ~ session'.open /\ session'.state \in {session.state, "Close"}
      /\ session'.mail = session.mail /\ session'.login = session.login
      /\ session'.changed = session.changed /\ session'.socket = session.socket
      /\ session'.badCast = session.badCast
      /\ session'.result => session.result \/ session.state = "Close"
  <2>1. CASE session' = [session EXCEPT !.state = "Close", !.open = FALSE]
    BY <1>1, <2>1 DEF Sessions, MailStates
  <2>2. CASE session' = [session EXCEPT !.open = FALSE]
    BY <1>1, <2>2 DEF Sessions, MailStates
  <2>3. CASE session' = [session EXCEPT !.result = TRUE, !.open = FALSE]
             /\ session.state = "Close"
    BY <1>1, <2>3 DEF Sessions, MailStates
  <2> QED BY <1>4, <2>1, <2>2, <2>3
<1>6. CastIsRight' /\ MailTypes'
  BY <1>1, <1>2, <1>3, <1>5 DEF CastIsRight, Sending, SmtpInv, MailTypes
<1>7. Smtp!TakenAsAsked'
  BY <1>1, <1>2, <1>5, TakenStays DEF Sending
<1>8. Smtp!SuccessIsReal'
  <2>1. session.state = "Close" => mailServer.mails # <<>>
    BY <1>1 DEF Sending, MailProgress
  <2> QED BY <1>1, <1>2, <1>5, <2>1 DEF Sending, Smtp!SuccessIsReal
<1> QED BY <1>5, <1>6, <1>7, <1>8 DEF SmtpInv, Sending

(* The server answers the command under way.                               *)
LEMMA OneIsUnderWay ==
    ASSUME SmtpInv, Smtp!ServerAccepts \/ Smtp!ServerRefuses, NEW c, c = Head(toServer)
    PROVE  /\ Sending /\ session \in Sessions /\ session.open /\ session.state # "idle"
           /\ OneCommand /\ MailProgress /\ IsSent(c) /\ ~ Understood
           /\ toServer = <<c>> /\ toServer' = <<>>
           /\ UNCHANGED <<smtpSettings, session>>
<1>1. /\ session.state # "idle" /\ session.open /\ toServer # <<>> /\ toServer' = Tail(toServer)
      /\ UNCHANGED <<smtpSettings, session>>
  BY DEF Smtp!ServerAccepts, Smtp!ServerRefuses, Smtp!Running
<1>2. Sending /\ session \in Sessions /\ OneCommand /\ MailProgress
  BY <1>1, IdleIsUnsent DEF Sending
<1>3. PICK d : d = toServer[1]
  OBVIOUS
<1>4. IsSent(d) /\ toServer = <<d>> /\ ~ Understood
  BY <1>1, <1>2, <1>3 DEF OneCommand
<1>5. c = d /\ toServer' = <<>>
  BY <1>1, <1>4
<1> QED BY <1>1, <1>2, <1>4, <1>5

(* The server refuses a command ...                                         *)
LEMMA MailRefused == ASSUME SmtpInv, Smtp!ServerRefuses PROVE SmtpInv'
<1>1. PICK c : c = Head(toServer)
  OBVIOUS
<1>2. /\ Sending /\ session \in Sessions /\ session.open /\ session.state # "idle"
      /\ OneCommand /\ MailProgress /\ IsSent(c) /\ ~ Understood
      /\ toServer = <<c>> /\ toServer' = <<>>
      /\ UNCHANGED <<smtpSettings, session>>
  BY <1>1, OneIsUnderWay
<1>3. PICK no : no = [code |-> 500, starttls |-> FALSE]
  OBVIOUS
<1>4. toClient' = Append(toClient, no) /\ mailServer' = mailServer /\ toClient \in Seq(Chunks)
  BY <1>3 DEF Smtp!ServerRefuses, SmtpInv, MailTypes
<1>5. no \in Chunks /\ no.code = 500
  BY <1>3 DEF Chunks
<1>6. /\ toClient' \in Seq(Chunks) /\ toClient' # <<>>
      /\ toClient = <<>> => toClient'[1] = no
      /\ toClient # <<>> => toClient'[1] = toClient[1]
  BY <1>4, <1>5
<1>7. ~ Understood'
  <2>1. \A st : <<st, 500>> \notin Smtp!Expected
    BY DEF Smtp!Expected
  <2> QED BY <1>2, <1>5, <1>6, <2>1 DEF Understood
<1>8. OneCommand'
  <2>1. session.state # "Encrypting"
    BY <1>2 DEF IsSent
  <2> QED BY <1>2, <1>7, <2>1 DEF OneCommand
<1>9. MailProgress'
  <2>1. Wanted' = Wanted
    BY <1>2 DEF Wanted
  <2> QED BY <1>2, <1>4, <1>7, <2>1 DEF MailProgress
<1>10. CastIsRight' /\ MailTypes'
  BY <1>2, <1>4, <1>6 DEF CastIsRight, Sending, SmtpInv, MailTypes
<1>11. Smtp!TakenAsAsked' /\ Smtp!SuccessIsReal'
  BY <1>2, <1>4, TakenStays DEF Sending, Smtp!SuccessIsReal
<1> QED BY <1>2, <1>8, <1>9, <1>10, <1>11 DEF SmtpInv, Sending

(* What the server does with a command.                                    *)
LEMMA CommandTaken ==
    ASSUME SmtpInv, Smtp!ServerAccepts, NEW c, c = Head(toServer), NEW taken,
           taken = Smtp!Taken(c)
    PROVE  /\ mailServer'.rcpts = IF c.name = "RCPT" THEN Append(mailServer.rcpts, c.to)
                                  ELSE mailServer.rcpts
           /\ mailServer'.login = IF c.name = "PASS" THEN c.login ELSE mailServer.login
           /\ mailServer'.mails = IF c.name = "CONTENT" THEN Append(mailServer.mails, taken)
                                  ELSE mailServer.mails
           /\ mailServer' \in [offers : BOOLEAN, login : {mailServer'.login},
                    rcpts : {mailServer'.rcpts}, mails : {mailServer'.mails}]
           /\ \E answer \in Smtp!Replies(c.name) : toClient' = toClient \o answer
<1>1. /\ mailServer' = CASE c.name = "RCPT" ->
                            [mailServer EXCEPT !.rcpts = Append(@, c.to)]
                        [] c.name = "PASS" ->
                            [mailServer EXCEPT !.login = c.login]
                        [] c.name = "CONTENT" ->
                            [mailServer EXCEPT !.mails = Append(@, taken)]
                        [] OTHER -> mailServer
      /\ \E answer \in Smtp!Replies(c.name) : toClient' = toClient \o answer
  BY DEF Smtp!ServerAccepts
<1>2. mailServer \in [offers : BOOLEAN, login : {mailServer.login}, rcpts : Seq(Users),
                       mails : {mailServer.mails}]
  BY DEF SmtpInv, MailTypes
<1>3. CASE c.name = "RCPT"
  <2>1. mailServer' = [mailServer EXCEPT !.rcpts = Append(@, c.to)]
    BY <1>1, <1>3
  <2> QED BY <1>1, <1>2, <1>3, <2>1
<1>4. CASE c.name = "PASS"
  <2>1. mailServer' = [mailServer EXCEPT !.login = c.login]
    BY <1>1, <1>4
  <2> QED BY <1>1, <1>2, <1>4, <2>1
<1>5. CASE c.name = "CONTENT"
  <2>1. mailServer' = [mailServer EXCEPT !.mails = Append(@, taken)]
    BY <1>1, <1>5
  <2> QED BY <1>1, <1>2, <1>5, <2>1
<1>6. CASE c.name \notin {"RCPT", "PASS", "CONTENT"}
  <2>1. mailServer' = mailServer
    BY <1>1, <1>6
  <2> QED BY <1>1, <1>2, <1>6, <2>1
<1> QED BY <1>3, <1>4, <1>5, <1>6

(* ... or accepts it.                                                       *)
LEMMA MailAccepted == ASSUME SmtpInv, Smtp!ServerAccepts PROVE SmtpInv'
<1>1. PICK c, taken : c = Head(toServer) /\ taken = Smtp!Taken(c)
  OBVIOUS
<1>2. /\ Sending /\ session \in Sessions /\ session.open /\ session.state # "idle"
      /\ OneCommand /\ MailProgress /\ IsSent(c) /\ ~ Understood
      /\ toServer = <<c>> /\ toServer' = <<>>
      /\ UNCHANGED <<smtpSettings, session>>
  BY <1>1, OneIsUnderWay
<1>3. /\ mailServer'.rcpts = IF c.name = "RCPT" THEN Append(mailServer.rcpts, c.to)
                             ELSE mailServer.rcpts
      /\ mailServer'.login = IF c.name = "PASS" THEN c.login ELSE mailServer.login
      /\ mailServer'.mails = IF c.name = "CONTENT" THEN Append(mailServer.mails, taken)
                             ELSE mailServer.mails
      /\ mailServer' \in [offers : BOOLEAN, login : {mailServer'.login},
                    rcpts : {mailServer'.rcpts}, mails : {mailServer'.mails}]
      /\ \E answer \in Smtp!Replies(c.name) : toClient' = toClient \o answer
  BY <1>1, CommandTaken
<1>4. /\ toClient \in Seq(Chunks) /\ mailServer.rcpts \in Seq(Users)
      /\ mailServer.offers \in BOOLEAN
  BY DEF SmtpInv, MailTypes
(* The command that is under way, by the state.                            *)
<1>5. /\ c.name \in DOMAIN Smtp!CodeFor
      /\ c.name = "RCPT" => session.state \in {"Rcpt", "Data"} /\ c.to \in Users
      /\ c.name = "PASS" => session.state = "Mail" /\ c.login = session.login
      /\ session.state = "Mail" => c.name = "PASS"
      /\ c.name = "CONTENT" =>
            session.state = "Quit"
            /\ c.lines = Smtp!Content(session.mail.body) \o <<"dot">>
      /\ session.state = "Quit" => c.name = "CONTENT"
      /\ c.name = "EHLO" => session.state = "Auth"
      /\ session.state # "Encrypting"
  BY <1>2 DEF IsSent, Smtp!CodeFor
<1>6. Wanted' = Wanted
  BY <1>2 DEF Wanted
(* The answer is behind what the client does not understand, if anything.  *)
<1>7. PICK answer \in Smtp!Replies(c.name) : toClient' = toClient \o answer
  BY <1>3
<1>8. /\ answer \in Seq(Chunks) /\ answer # <<>> /\ Len(answer) \in {1, 2}
      /\ Len(answer) = 2 => /\ ~ answer[1].starttls
                            /\ \/ answer[2].code = 0
                               \/ c.name = "EHLO" /\ answer[2].code = 250
  BY <1>4, <1>5, RepliesShape
<1>9. /\ toClient' \in Seq(Chunks)
      /\ toClient = <<>> => toClient' = answer
      /\ toClient # <<>> => toClient' # <<>> /\ toClient'[1] = toClient[1]
  <2>1. Len(toClient) \in Nat /\ (toClient # <<>> => 1 \in 1 .. Len(toClient))
    BY <1>4, EmptySeq
  <2>2. PICK t : t = toClient \o answer
    OBVIOUS
  <2>3. /\ t \in Seq(Chunks) /\ Len(t) = Len(toClient) + Len(answer)
        /\ \A i \in 1 .. Len(toClient) + Len(answer) :
              t[i] = IF i <= Len(toClient) THEN toClient[i] ELSE answer[i - Len(toClient)]
    BY <1>4, <1>8, <2>2, ConcatProperties
  <2>4. toClient # <<>> => t # <<>> /\ t[1] = toClient[1]
    BY <1>8, <2>1, <2>3
  <2>5. toClient = <<>> => t = answer
    BY <1>8, <2>2, ConcatEmptySeq
  <2> QED BY <1>7, <2>2, <2>3, <2>4, <2>5
<1>10. Understood' => toClient = <<>> /\ toClient' = answer
  BY <1>2, <1>9 DEF Understood
<1>11. OneCommand'
  BY <1>2, <1>5, <1>8, <1>10 DEF OneCommand
<1>12. MailProgress'
  <2> DEFINE st == session.state
  <2>1. st \in Early => mailServer'.rcpts = <<>> /\ session'.todo = Wanted'
    BY <1>2, <1>3, <1>5, <1>6 DEF MailProgress, Early
  <2>2. st \in {"Rcpt", "Data"} => Given' \o session'.todo = Wanted'
    <3>1. Given' = mailServer'.rcpts
      BY <1>2 DEF Given, Pending
    <3>2. mailServer'.rcpts = Given
      BY <1>2, <1>3 DEF Given, Pending
    <3> QED BY <1>2, <1>6, <3>1, <3>2 DEF MailProgress
  <2>3. st = "Body" => mailServer'.rcpts = Wanted'
    BY <1>2, <1>3, <1>5, <1>6 DEF MailProgress
  <2>4. st \in {"Mail", "Rcpt", "Data", "Body", "Quit"} => mailServer'.login = session'.login
    BY <1>2, <1>3, <1>5 DEF MailProgress
  <2>5. st \notin {"Quit", "Close"} => mailServer'.mails = <<>>
    BY <1>2, <1>3, <1>5 DEF MailProgress
  <2>6. st = "Quit" => mailServer'.mails # <<>>
    <3>1. CASE st = "Quit"
      <4>1. mailServer'.mails = Append(<<>>, taken)
        BY <1>2, <1>3, <1>5, <3>1 DEF MailProgress
      <4> QED BY <4>1
    <3> QED BY <3>1
  <2>7. st = "Close" => mailServer'.mails # <<>>
    BY <1>2, <1>3, <1>5 DEF MailProgress
  <2>8. st = "Data" => session'.todo = <<>>
    BY <1>2 DEF MailProgress
  <2>9. session' = session /\ toServer' = <<>>
    BY <1>2
  <2>10. st # "Opening"
    BY <1>2 DEF IsSent
  <2> QED BY <2>1, <2>2, <2>3, <2>4, <2>5, <2>6, <2>7, <2>8, <2>9, <2>10 DEF MailProgress, Early
<1>13. CastIsRight'
  BY <1>2 DEF CastIsRight, Sending
<1>14. MailTypes'
  <2>1. mailServer'.rcpts \in Seq(Users)
    BY <1>3, <1>4, <1>5
  <2> QED BY <1>2, <1>3, <1>9, <2>1 DEF SmtpInv, MailTypes
<1>15. Smtp!TakenAsAsked'
  <2>1. CASE c.name # "CONTENT"
    BY <1>2, <1>3, <2>1, TakenStays DEF Sending
  <2>2. CASE c.name = "CONTENT"
    <3>1. mailServer'.mails = <<taken>>
      <4>1. mailServer.mails = <<>>
        BY <1>2, <1>5, <2>2 DEF MailProgress
      <4> QED BY <1>3, <2>2, <4>1
    <3>2. /\ taken.rcpts = Smtp!Recipients(session.mail) /\ taken.login = session.login
          /\ Smtp!Protected(session.mail.body) => taken.body = session.mail.body
      <4>1. taken.rcpts = mailServer.rcpts /\ taken.login = mailServer.login
        BY <1>1 DEF Smtp!Taken
      <4>2. mailServer.rcpts = Wanted /\ mailServer.login = session.login
        BY <1>2, <1>5, <2>2 DEF MailProgress
      <4>3. session.mail.body \in Seq({"text", "dot", "dotted"})
        BY <1>2, SmtpAssumption DEF Sessions
      <4>4. Smtp!Protected(session.mail.body) => taken.body = session.mail.body
        <5>1. PICK body : body = session.mail.body
          OBVIOUS
        <5>2. Smtp!Protected(body) => Smtp!Taken(c).body = body
          BY <1>5, <2>2, <4>3, <5>1, TakenIsMail
        <5> QED BY <1>1, <5>1, <5>2
      <4> QED BY <4>1, <4>2, <4>4 DEF Wanted
    <3>3. Len(mailServer'.mails) = 1 /\ mailServer'.mails[1] = taken
      BY <3>1
    <3> QED BY <1>2, <3>2, <3>3 DEF Smtp!TakenAsAsked
  <2> QED BY <2>1, <2>2
<1>16. Smtp!SuccessIsReal'
  <2>1. mailServer.mails # <<>> => mailServer'.mails # <<>>
    BY <1>2, <1>3, <1>5 DEF MailProgress
  <2> QED BY <1>2, <2>1 DEF Sending, Smtp!SuccessIsReal
<1> QED BY <1>2, <1>11, <1>12, <1>13, <1>14, <1>15, <1>16 DEF SmtpInv, Sending

(* Every step of a mail keeps SmtpInv: one step of the proof per action.    *)
LEMMA SmtpSteps == SmtpInv /\ [Smtp!Next]_smtpVars => SmtpInv'
<1> SUFFICES ASSUME SmtpInv, [Smtp!Next]_smtpVars PROVE SmtpInv'
  OBVIOUS
<1>1. CASE \/ \E u \in UserNames : Smtp!SetUserName(u)
           \/ \E p \in Passwords : Smtp!SetPassword(p)
           \/ \E k \in Smtp!Kinds : Smtp!SetConnectionType(k)
  BY <1>1, MailSet
<1>2. ASSUME NEW mail \in Mails, Smtp!SendTextMail(mail) PROVE SmtpInv'
  BY <1>2, MailBegins
<1>9. CASE Smtp!Connect
  BY <1>9, MailConnects
<1>3. CASE Smtp!ReadyRead
  <2>1. ASSUME NEW n \in 1 .. Len(toClient),
               \/ Smtp!Greeted(n) \/ Smtp!Welcomed(n) \/ Smtp!StartClientEncryption(n)
               \/ Smtp!LogIn(n) \/ Smtp!Envelope(n) \/ Smtp!Body(n)
        PROVE  SmtpInv'
    BY <2>1, MailGreeted, MailWelcomed, MailEncrypts, MailLogsIn, MailTellsRecipients,
       MailSendsBody
  <2>2. CASE Smtp!Unknown \/ \E n \in 1 .. Len(toClient) : Smtp!Success(n)
    BY <2>2, MailEnds
  <2> QED BY <1>3, <2>1, <2>2 DEF Smtp!ReadyRead
<1>4. CASE Smtp!Encrypted
  BY <1>4, MailIsEncrypted
<1>5. CASE Smtp!Error
  BY <1>5, MailEnds
<1>6. CASE Smtp!ServerAccepts
  BY <1>6, MailAccepted
<1>7. CASE Smtp!ServerRefuses
  BY <1>7, MailRefused
<1>8. CASE UNCHANGED smtpVars
  <2>1. UNCHANGED <<smtpSettings, session, toServer, toClient, mailServer>>
    BY <1>8 DEF smtpVars
  <2>2. MailTypes' /\ (Unsent => Unsent')
    BY <2>1 DEF SmtpInv, MailTypes, Unsent
  <2>3. Sending => Sending'
    <3>1. MailProgress => MailProgress'
      BY <2>1, SameProgress
    <3>2. OneCommand => OneCommand'
      BY <2>1 DEF OneCommand, IsSent, Understood
    <3>3. CastIsRight => CastIsRight'
      BY <2>1 DEF CastIsRight
    <3>4. Smtp!TakenAsAsked => Smtp!TakenAsAsked'
      BY <2>1 DEF Smtp!TakenAsAsked
    <3>5. Smtp!SuccessIsReal => Smtp!SuccessIsReal'
      BY <2>1 DEF Smtp!SuccessIsReal
    <3> QED BY <2>1, <3>1, <3>2, <3>3, <3>4, <3>5 DEF Sending
  <2> QED BY <2>2, <2>3 DEF SmtpInv
<1> QED BY <1>1, <1>2, <1>3, <1>4, <1>5, <1>6, <1>7, <1>8, <1>9 DEF Smtp!Next

(* smtpclient.cpp: however the replies of the server are cut in chunks,    *)
(* whatever is set meanwhile, and whenever the connection breaks, the      *)
(* server takes a mail at most once, for exactly its recipients, under the *)
(* login it was sent with and, where the doubling of dots protects it,     *)
(* with its body; and success is reported only for a mail that was taken.  *)
THEOREM MailsAlwaysSent == ServicesSpec => []MailsAreSent
<1> DEFINE Inv == part = "smtp" => SmtpInv
<1>1. ServicesInit => Inv
  BY SmtpStarts DEF ServicesInit
<1>2. Inv /\ [ServicesNext]_servicesVars => Inv'
  BY SmtpSteps, StepsOfServices
<1>3. Inv => MailsAreSent
  BY IdleIsUnsent DEF MailsAreSent
<1> QED BY <1>1, <1>2, <1>3, PTL DEF ServicesSpec

-----------------------------------------------------------------------------
(* Settings: values set one by one, whatever their order.                  *)
(* A fold over a set, of which the first element is whichever CHOOSE takes. *)
FirstOf(d) == CHOOSE k \in d : TRUE
Folded(f, d, s, x, g, vs) ==
    IF d = {} THEN s
    ELSE Groups!Set(f[d \ {FirstOf(d)}], x, g, FirstOf(d), vs[FirstOf(d)])
IsFold(f, s, x, g, ks, vs) == f = [d \in SUBSET ks |-> Folded(f, d, s, x, g, vs)]
Fold(s, x, g, ks, vs) == CHOOSE f : IsFold(f, s, x, g, ks, vs)

(* SetAll is the fold of Set over its keys.                                 *)
LEMMA SetAllIsFold ==
    ASSUME NEW s, NEW x, NEW g, NEW ks, NEW vs
    PROVE  Groups!SetAll(s, x, g, ks, vs) = Fold(s, x, g, ks, vs)[ks]
BY DEF Groups!SetAll, Groups!FoldSet, Groups!MapThenFoldSet, Fold, IsFold, Folded, FirstOf

(* The first element of a set is in it.                                     *)
LEMMA FirstOfIsIn == ASSUME NEW d, d # {} PROVE FirstOf(d) \in d
BY DEF FirstOf

(* Less than all of a finite set is a smaller set.                         *)
LEMMA LessIsSmaller ==
    ASSUME NEW ks, IsFiniteSet(ks), NEW d \in SUBSET ks, d # {}
    PROVE  /\ FirstOf(d) \in d /\ d \ {FirstOf(d)} \in SUBSET ks
           /\ Cardinality(d \ {FirstOf(d)}) \in Nat
           /\ Cardinality(d) = Cardinality(d \ {FirstOf(d)}) + 1
<1>1. IsFiniteSet(d)
  BY FS_Subset
<1>2. FirstOf(d) \in d
  BY FirstOfIsIn
<1> DEFINE r == d \ {FirstOf(d)}
<1>3. r \in SUBSET ks /\ IsFiniteSet(r)
  BY FS_Subset
<1>4. Cardinality(r) \in Nat /\ Cardinality(d) \in Nat
  BY <1>1, <1>3, FS_CardinalityType
<1>5. Cardinality(r) = Cardinality(d) - 1
  BY <1>1, <1>2, FS_RemoveElement
<1> QED BY <1>2, <1>3, <1>4, <1>5

(* Over a finite set the fold has the values its recursion names.           *)
LEMMA FoldExists ==
    ASSUME NEW s, NEW x, NEW g, NEW ks, NEW vs, IsFiniteSet(ks)
    PROVE  IsFold(Fold(s, x, g, ks, vs), s, x, g, ks, vs)
<1> DEFINE Step(f, d) == Folded(f, d, s, x, g, vs)
           Upto(f, n) == \A d \in SUBSET ks : Cardinality(d) <= n => f[d] = Step(f, d)
           T == {n \in Nat : \E f : Upto(f, n)}
<1>1. \A d \in SUBSET ks : IsFiniteSet(d) /\ Cardinality(d) \in Nat
  BY FS_Subset, FS_CardinalityType
<1>2. 0 \in T
  <2> DEFINE f == [d \in SUBSET ks |-> s]
  <2>1. \A d \in SUBSET ks : Cardinality(d) <= 0 => d = {}
    BY <1>1, FS_EmptySet
  <2>2. \A d \in SUBSET ks : Cardinality(d) <= 0 => f[d] = Step(f, d)
    BY <2>1 DEF Folded
  <2> QED BY <2>2
<1>3. ASSUME NEW n \in Nat, n \in T PROVE n + 1 \in T
  <2>1. PICK f : Upto(f, n)
    BY <1>3
  <2> DEFINE h == [d \in SUBSET ks |-> Step(f, d)]
  <2>2. ASSUME NEW d \in SUBSET ks, Cardinality(d) <= n + 1 PROVE h[d] = Step(h, d)
    <3>1. CASE d = {}
      BY <3>1 DEF Folded
    <3>2. CASE d # {}
      <4> DEFINE r == d \ {FirstOf(d)}
      <4>1. r \in SUBSET ks /\ Cardinality(r) <= n
        BY <2>2, <3>2, LessIsSmaller
      <4>2. h[r] = f[r]
        BY <2>1, <4>1
      <4> QED BY <3>2, <4>2 DEF Folded
    <3> QED BY <3>1, <3>2
  <2>3. Upto(h, n + 1)
    BY <2>2
  <2> HIDE DEF Upto
  <2> QED BY <2>3
<1>4. Cardinality(ks) \in T
  <2> HIDE DEF T
  <2> QED BY <1>2, <1>3, SetInduction, FS_CardinalityType
<1>5. PICK f : Upto(f, Cardinality(ks))
  BY <1>4
<1> DEFINE h == [d \in SUBSET ks |-> f[d]]
<1>6. ASSUME NEW d \in SUBSET ks PROVE h[d] = Step(h, d)
  <2>1. f[d] = Step(f, d)
    BY <1>1, <1>5, FS_Subset
  <2>2. CASE d = {}
    BY <2>1, <2>2 DEF Folded
  <2>3. CASE d # {}
    <3>1. d \ {FirstOf(d)} \in SUBSET ks
      OBVIOUS
    <3> QED BY <2>1, <2>3, <3>1 DEF Folded
  <2> QED BY <2>2, <2>3
<1>7. IsFold(h, s, x, g, ks, vs)
  BY <1>6 DEF IsFold
<1> HIDE DEF h
<1> QED BY <1>7 DEF Fold

(* What holds of no key set and of one more key set, holds of all set.     *)
LEMMA SetAllKeeps ==
    ASSUME NEW s, NEW x, NEW g, NEW ks, NEW vs, IsFiniteSet(ks), NEW T,
           <<{}, s>> \in T,
           \A d \in SUBSET ks, k \in ks : \A t :
              k \notin d /\ <<d, t>> \in T => <<d \cup {k}, Groups!Set(t, x, g, k, vs[k])>> \in T
    PROVE  <<ks, Groups!SetAll(s, x, g, ks, vs)>> \in T
<1> DEFINE f == Fold(s, x, g, ks, vs)
           N == {n \in Nat : \A d \in SUBSET ks : Cardinality(d) = n => <<d, f[d]>> \in T}
<1>0. IsFold(f, s, x, g, ks, vs)
  BY FoldExists
<1> HIDE DEF f
<1>1. \A d \in SUBSET ks : f[d] = Folded(f, d, s, x, g, vs)
  BY <1>0 DEF IsFold
<1>2. \A d \in SUBSET ks : IsFiniteSet(d) /\ Cardinality(d) \in Nat
  BY FS_Subset, FS_CardinalityType
<1>3. 0 \in N
  <2>1. \A d \in SUBSET ks : Cardinality(d) = 0 => d = {}
    BY <1>2, FS_EmptySet
  <2>2. f[{}] = s
    BY <1>1 DEF Folded
  <2> QED BY <2>1, <2>2
<1>4. ASSUME NEW n \in Nat, n \in N PROVE n + 1 \in N
  <2> SUFFICES ASSUME NEW d \in SUBSET ks, Cardinality(d) = n + 1 PROVE <<d, f[d]>> \in T
    OBVIOUS
  <2>1. d # {}
    BY FS_EmptySet
  <2> DEFINE k == FirstOf(d)
             r == d \ {k}
  <2>2. k \in d /\ r \in SUBSET ks /\ Cardinality(r) = n
    <3>1. k \in d /\ r \in SUBSET ks /\ Cardinality(r) \in Nat
          /\ Cardinality(d) = Cardinality(r) + 1
      BY <2>1, LessIsSmaller
    <3> QED BY <3>1
  <2>3. <<r, f[r]>> \in T
    BY <1>4, <2>2
  <2>4. f[d] = Groups!Set(f[r], x, g, k, vs[k])
    BY <1>1, <2>1 DEF Folded
  <2>5. r \cup {k} = d /\ k \in ks /\ k \notin r
    BY <2>2
  <2> HIDE DEF k, r
  <2>6. <<r \cup {k}, Groups!Set(f[r], x, g, k, vs[k])>> \in T
    BY <2>2, <2>3, <2>5
  <2> QED BY <2>4, <2>5, <2>6
<1>5. Cardinality(ks) \in N
  <2> HIDE DEF N
  <2> QED BY <1>3, <1>4, SetInduction, FS_CardinalityType
<1>6. <<ks, f[ks]>> \in T
  BY <1>5
<1> QED BY <1>6, SetAllIsFold DEF f

SettingsValues == Values \cup {Null}
Stored == [Groups!Storages -> [Groups!Groups -> [Keys -> SettingsValues]]]
SaidValues == [Groups!Groups -> [Keys -> SettingsValues]]
SettingsStates ==
    [own : Stored, names : [Groups!Groups -> SUBSET Keys], exists : SUBSET Groups!Storages,
     groupNames : SUBSET {"sub"}, file : Stored,
     told : SaidValues,
     quiet : SUBSET (Groups!Groups \X Keys), dangling : BOOLEAN]

Changed(f, x, g, k, v) == [f EXCEPT ![x][g][k] = v]
ChangedAt(f, g, k, v) == [f EXCEPT ![g][k] = v]

(* One stored value changed, and no other.                                  *)
LEMMA ChangedIs ==
    ASSUME NEW f \in Stored, NEW x \in Groups!Storages, NEW g \in Groups!Groups, NEW k \in Keys,
           NEW v \in SettingsValues
    PROVE  /\ Changed(f, x, g, k, v) \in Stored
           /\ \A y \in Groups!Storages, h \in Groups!Groups, l \in Keys :
                 Changed(f, x, g, k, v)[y][h][l] = IF y = x /\ h = g /\ l = k THEN v ELSE f[y][h][l]
BY DEF Changed, Stored

(* One told value changed, and no other.                                    *)
LEMMA ChangedAtIs ==
    ASSUME NEW f \in SaidValues, NEW g \in Groups!Groups, NEW k \in Keys,
           NEW v \in SettingsValues
    PROVE  /\ ChangedAt(f, g, k, v) \in SaidValues
           /\ \A h \in Groups!Groups, l \in Keys :
                 ChangedAt(f, g, k, v)[h][l] = IF h = g /\ l = k THEN v ELSE f[h][l]
BY DEF ChangedAt, SaidValues

(* A change of global values leaves the local ones.                         *)
LEMMA ChangedElsewhere ==
    ASSUME NEW f \in Stored, NEW g, NEW k, NEW v
    PROVE  Changed(f, "global", g, k, v)["local"] = f["local"]
<1> DEFINE R == [Groups!Groups -> [Keys -> SettingsValues]]
<1>1. f \in [Groups!Storages -> R] /\ "local" \in Groups!Storages /\ "local" # "global"
  BY DEF Stored, Groups!Storages
<1> HIDE DEF R
<1> QED BY <1>1 DEF Changed

(* What a change of a local value does, part by part ...                   *)
LEMMA LocalSets ==
    ASSUME NEW s \in SettingsStates, NEW g \in Groups!Groups, NEW k \in Keys,
           NEW v \in SettingsValues, s.own["local"][g][k] # v,
           NEW t, t = Groups!Set(s, "local", g, k, v)
    PROVE  /\ t.exists = s.exists /\ t.groupNames = s.groupNames /\ t.dangling = s.dangling
           /\ t.own = Changed(s.own, "local", g, k, v)
           /\ IF v # Null /\ s.own["global"][g][k] = v
                THEN /\ t.file = s.file /\ t.told = s.told
                     /\ t.quiet = s.quiet \cup {<<g, k>>}
                     /\ t.names = [s.names EXCEPT ![g] = @ \cup {k}]
                ELSE /\ t.file = Changed(s.file, "local", g, k, v)
                     /\ t.told = ChangedAt(s.told, g, k, v)
                     /\ t.quiet = s.quiet \ {<<g, k>>}
                     /\ t.names = [s.names EXCEPT ![g] =
                           IF v # Null THEN @ \cup {k}
                           ELSE (@ \ {k}) \cup {l \in Keys : s.own["global"][g][l] # Null}]
           /\ t = [own |-> t.own, names |-> t.names, exists |-> t.exists, groupNames |-> t.groupNames,
                   file |-> t.file, told |-> t.told, quiet |-> t.quiet, dangling |-> t.dangling]
<1>1. CASE v # Null /\ s.own["global"][g][k] = v
  BY <1>1 DEF Groups!Set, Groups!SetLocal, SettingsStates, Changed
<1>2. CASE ~ (v # Null /\ s.own["global"][g][k] = v)
  BY <1>2 DEF Groups!Set, Groups!SetLocal, Groups!Save, Groups!Named, SettingsStates, Changed, ChangedAt
<1> QED BY <1>1, <1>2

(* ... and what one of a global value does.                                *)
LEMMA GlobalSets ==
    ASSUME NEW s \in SettingsStates, NEW g \in Groups!Groups, NEW k \in Keys,
           NEW v \in SettingsValues, s.own["global"][g][k] # v,
           NEW t, t = Groups!Set(s, "global", g, k, v)
    PROVE  /\ t.exists = s.exists /\ t.groupNames = s.groupNames /\ t.dangling = s.dangling
           /\ t.quiet = s.quiet
           /\ t.own = Changed(s.own, "global", g, k, v)
           /\ t.file = Changed(s.file, "global", g, k, v)
           /\ IF g = "sub" /\ "local" \notin s.exists THEN t.names = s.names /\ t.told = s.told
              ELSE /\ t.told = IF s.own["local"][g][k] # Null THEN s.told
                               ELSE ChangedAt(s.told, g, k, v)
                   /\ t.names = [s.names EXCEPT ![g] =
                         IF v # Null THEN @ \cup {k}
                         ELSE IF s.own["local"][g][k] # Null THEN @ ELSE @ \ {k}]
           /\ t = [own |-> t.own, names |-> t.names, exists |-> t.exists, groupNames |-> t.groupNames,
                   file |-> t.file, told |-> t.told, quiet |-> t.quiet, dangling |-> t.dangling]
<1> DEFINE u == [s EXCEPT !.own = Changed(s.own, "global", g, k, v),
                          !.file = Changed(s.file, "global", g, k, v)]
<1>1. t = Groups!FollowGlobal(u, g, k, v)
  BY DEF Groups!Set, Groups!SetGlobal, Groups!Save, SettingsStates, Changed
<1>2. u.own["local"][g][k] = s.own["local"][g][k]
  BY DEF SettingsStates, Changed, Stored, Groups!Storages
<1>3. u \in [own : {u.own}, names : {s.names}, exists : {s.exists}, groupNames : {s.groupNames},
             file : {u.file}, told : {s.told}, quiet : {s.quiet}, dangling : {s.dangling}]
  BY DEF SettingsStates
<1>4. /\ u.own = Changed(s.own, "global", g, k, v) /\ u.file = Changed(s.file, "global", g, k, v)
  BY DEF SettingsStates
<1>5. u.exists = s.exists
  BY DEF SettingsStates
<1> HIDE DEF u
<1>6. CASE g = "sub" /\ "local" \notin s.exists
  BY <1>1, <1>2, <1>3, <1>4, <1>6 DEF Groups!FollowGlobal
<1>7. CASE ~ (g = "sub" /\ "local" \notin s.exists)
  <2>1. CASE s.own["local"][g][k] # Null
    <3>1. t = [u EXCEPT !.names[g] = IF v = Null THEN @ ELSE @ \cup {k}]
      BY <1>1, <1>2, <1>5, <1>7, <2>1 DEF Groups!FollowGlobal
    <3> QED BY <1>3, <1>4, <1>7, <2>1, <3>1
  <2>2. CASE s.own["local"][g][k] = Null
    <3>1. t = [u EXCEPT !.names[g] = IF v = Null THEN @ \ {k} ELSE @ \cup {k},
                        !.told[g][k] = v]
      BY <1>1, <1>2, <1>5, <1>7, <2>2 DEF Groups!FollowGlobal
    <3> DEFINE n == [s.names EXCEPT ![g] = IF v = Null THEN @ \ {k} ELSE @ \cup {k}]
               r == ChangedAt(s.told, g, k, v)
    <3>2. u.names = s.names /\ u.told = s.told
      BY <1>3
    <3>3. t = [u EXCEPT !.names = n, !.told = r]
      BY <3>1, <3>2 DEF ChangedAt
    <3>4. n = [s.names EXCEPT ![g] =
                  IF v # Null THEN @ \cup {k}
                  ELSE IF s.own["local"][g][k] # Null THEN @ ELSE @ \ {k}]
      BY <2>2
    <3> HIDE DEF n, r
    <3>5. /\ t.names = n /\ t.told = r /\ t.own = u.own /\ t.file = u.file
          /\ t.exists = s.exists /\ t.groupNames = s.groupNames /\ t.dangling = s.dangling
          /\ t.quiet = s.quiet
          /\ t = [own |-> t.own, names |-> t.names, exists |-> t.exists, groupNames |-> t.groupNames,
                  file |-> t.file, told |-> t.told, quiet |-> t.quiet, dangling |-> t.dangling]
      BY <1>3, <3>3
    <3> QED BY <1>4, <1>7, <2>2, <3>4, <3>5 DEF r
  <2> QED BY <2>1, <2>2
<1> QED BY <1>6, <1>7

LinkedIn(s, g) == g = "main" \/ ("local" \in s.exists /\ ~ s.dangling)
NamedAt(s, g) == s.names[g] = {k \in Keys : Groups!Value(s, g, k) # Null}
QuietAt(s, g) == \A k \in Keys : <<g, k>> \in s.quiet => s.own["local"][g][k] # Null
ToldAt(s, g) ==
    \A k \in Keys : <<g, k>> \notin s.quiet =>
       \/ s.told[g][k] = Groups!Value(s, g, k)
       \/ s.told[g][k] = Null /\ s.own["local"][g][k] = Null
KeptAt(s, g) ==
    \A k \in Keys : <<g, k>> \notin s.quiet => s.file["local"][g][k] = s.own["local"][g][k]
NoneOwnAt(s, g) == \A k \in Keys : s.own["local"][g][k] = Null
OwnNamed(s) == \A k \in Keys : s.own["local"]["sub"][k] # Null => k \in s.names["sub"]
Present(g, s) == g = "main" \/ "local" \in s.exists

(* What holds of the settings also while files are read: groups that are   *)
(* linked know their names, and told their values; a group that is not     *)
(* there has no values, and one left over still names its own.             *)
GroupsAgree(s) ==
    /\ s \in SettingsStates
    /\ \A g \in Groups!Groups : QuietAt(s, g) /\ (LinkedIn(s, g) => NamedAt(s, g) /\ ToldAt(s, g))
    /\ "local" \notin s.exists => NoneOwnAt(s, "sub") /\ ~ s.dangling
    /\ ~ s.dangling => s.groupNames = IF s.exists = {} THEN {} ELSE {"sub"}
    /\ "local" \in s.exists => (s.dangling <=> "global" \notin s.exists)
    /\ s.dangling => OwnNamed(s)

(* A change of one value leaves all that, and everything else.             *)
OnlyChanges(s, t, x, g, k, v) ==
    /\ t.exists = s.exists /\ t.groupNames = s.groupNames /\ t.dangling = s.dangling
    /\ \A y \in Groups!Storages, h \in Groups!Groups, l \in Keys :
          t.own[y][h][l] = IF y = x /\ h = g /\ l = k THEN v ELSE s.own[y][h][l]
    /\ x = "global" => t.quiet = s.quiet /\ t.file["local"] = s.file["local"]
    /\ \A h \in Groups!Groups, l \in Keys : h # g \/ l # k =>
          /\ <<h, l>> \in t.quiet <=> <<h, l>> \in s.quiet
          /\ t.file["local"][h][l] = s.file["local"][h][l]
    /\ x = "local" =>
          \/ t = s
          \/ /\ s.own["local"][g][k] # v /\ v # Null
             /\ <<g, k>> \in t.quiet /\ t.file = s.file
          \/ /\ s.own["local"][g][k] # v
             /\ <<g, k>> \notin t.quiet /\ t.file["local"][g][k] = v

(* The two groups.                                                          *)
LEMMA NamesOfGroups == "main" \in Groups!Groups /\ "sub" \in Groups!Groups
                         /\ "local" \in Groups!Storages /\ "global" \in Groups!Storages
BY DEF Groups!Groups, Groups!Storages

(* A new value of the local storage keeps the groups together ...           *)
LEMMA LocalKeeps ==
    ASSUME NEW s, GroupsAgree(s), NEW g \in Groups!Groups, NEW k \in Keys,
           NEW v \in SettingsValues, Present(g, s), s.own["local"][g][k] # v,
           NEW t, t = Groups!Set(s, "local", g, k, v)
    PROVE  GroupsAgree(t) /\ OnlyChanges(s, t, "local", g, k, v)
<1>1. s \in SettingsStates
  BY DEF GroupsAgree
<1>2. /\ t.exists = s.exists /\ t.groupNames = s.groupNames /\ t.dangling = s.dangling
      /\ t.own = Changed(s.own, "local", g, k, v)
      /\ IF v # Null /\ s.own["global"][g][k] = v
           THEN /\ t.file = s.file /\ t.told = s.told
                /\ t.quiet = s.quiet \cup {<<g, k>>}
                /\ t.names = [s.names EXCEPT ![g] = @ \cup {k}]
           ELSE /\ t.file = Changed(s.file, "local", g, k, v)
                /\ t.told = ChangedAt(s.told, g, k, v)
                /\ t.quiet = s.quiet \ {<<g, k>>}
                /\ t.names = [s.names EXCEPT ![g] =
                      IF v # Null THEN @ \cup {k}
                      ELSE (@ \ {k}) \cup {l \in Keys : s.own["global"][g][l] # Null}]
      /\ t = [own |-> t.own, names |-> t.names, exists |-> t.exists, groupNames |-> t.groupNames,
              file |-> t.file, told |-> t.told, quiet |-> t.quiet, dangling |-> t.dangling]
  BY <1>1, LocalSets
<1>3. /\ s.own \in Stored /\ s.file \in Stored /\ s.names \in [Groups!Groups -> SUBSET Keys]
      /\ s.told \in SaidValues
      /\ s.quiet \in SUBSET (Groups!Groups \X Keys)
  BY <1>1 DEF SettingsStates
<1>4. "local" \in Groups!Storages /\ "global" \in Groups!Storages /\ "local" # "global"
  BY DEF Groups!Storages
<1>5. /\ t.own \in Stored
      /\ \A y \in Groups!Storages, h \in Groups!Groups, l \in Keys :
            t.own[y][h][l] = IF y = "local" /\ h = g /\ l = k THEN v ELSE s.own[y][h][l]
  <2> DEFINE f == s.own
  <2>1. f \in Stored
    BY <1>3
  <2> HIDE DEF f
  <2>2. /\ Changed(f, "local", g, k, v) \in Stored
        /\ \A y \in Groups!Storages, h \in Groups!Groups, l \in Keys :
              Changed(f, "local", g, k, v)[y][h][l]
                = IF y = "local" /\ h = g /\ l = k THEN v ELSE f[y][h][l]
    BY <1>4, <2>1, ChangedIs
  <2>3. t.own = Changed(f, "local", g, k, v)
    BY <1>2 DEF f
  <2> QED BY <2>2, <2>3 DEF f
<1>6. /\ t.told \in SaidValues
      /\ \A h \in Groups!Groups, l \in Keys :
            t.told[h][l] = IF h = g /\ l = k /\ ~ (v # Null /\ s.own["global"][g][k] = v) THEN v
                           ELSE s.told[h][l]
  <2> DEFINE f == s.told
  <2>1. f \in SaidValues
    BY <1>3
  <2> HIDE DEF f
  <2>2. /\ ChangedAt(f, g, k, v) \in SaidValues
        /\ \A h \in Groups!Groups, l \in Keys :
              ChangedAt(f, g, k, v)[h][l] = IF h = g /\ l = k THEN v ELSE f[h][l]
    BY <2>1, ChangedAtIs
  <2>3. CASE ~ (v # Null /\ s.own["global"][g][k] = v)
    <3>1. t.told = ChangedAt(f, g, k, v)
      BY <1>2, <2>3 DEF f
    <3> QED BY <2>2, <2>3, <3>1 DEF f
  <2>4. CASE ~ (~ (v # Null /\ s.own["global"][g][k] = v))
    <3>1. t.told = s.told
      BY <1>2, <2>4
    <3> QED BY <1>3, <2>4, <3>1
  <2> QED BY <2>3, <2>4
<1>7. /\ t.file \in Stored
      /\ \A h \in Groups!Groups, l \in Keys :
            t.file["local"][h][l] =
               IF h = g /\ l = k /\ ~ (v # Null /\ s.own["global"][g][k] = v) THEN v
               ELSE s.file["local"][h][l]
  BY <1>2, <1>3, <1>4, ChangedIs
<1>8. /\ t.names \in [Groups!Groups -> SUBSET Keys]
      /\ \A h \in Groups!Groups : h # g => t.names[h] = s.names[h]
      /\ t.names[g] = IF v # Null THEN s.names[g] \cup {k}
                      ELSE (s.names[g] \ {k}) \cup {l \in Keys : s.own["global"][g][l] # Null}
  <2>1. CASE v # Null
    <3>1. t.names = [s.names EXCEPT ![g] = @ \cup {k}]
      BY <1>2, <2>1
    <3> QED BY <1>3, <2>1, <3>1
  <2>2. CASE v = Null
    <3>1. t.names = [s.names EXCEPT ![g] =
                        (@ \ {k}) \cup {l \in Keys : s.own["global"][g][l] # Null}]
      BY <1>2, <2>2
    <3> QED BY <1>3, <2>2, <3>1
  <2> QED BY <2>1, <2>2
<1>9. /\ t.quiet \in SUBSET (Groups!Groups \X Keys)
      /\ \A h \in Groups!Groups, l \in Keys : h # g \/ l # k => (<<h, l>> \in t.quiet <=> <<h, l>> \in s.quiet)
      /\ <<g, k>> \in t.quiet <=> (v # Null /\ s.own["global"][g][k] = v)
  BY <1>2, <1>3
<1>10. t \in SettingsStates
  BY <1>1, <1>2, <1>5, <1>6, <1>7, <1>8, <1>9 DEF SettingsStates
<1>11. \A h \in Groups!Groups, l \in Keys :
          Groups!Value(t, h, l) = IF h = g /\ l = k /\ v # Null THEN v
                                  ELSE IF h = g /\ l = k THEN s.own["global"][h][l]
                                  ELSE Groups!Value(s, h, l)
  BY <1>4, <1>5 DEF Groups!Value
<1>12. \A h \in Groups!Groups : QuietAt(t, h)
  <2>1. \A h \in Groups!Groups : QuietAt(s, h)
    BY DEF GroupsAgree
  <2> QED BY <1>4, <1>5, <1>9, <2>1 DEF QuietAt
<1>13. ASSUME NEW h \in Groups!Groups, LinkedIn(t, h) PROVE NamedAt(t, h) /\ ToldAt(t, h)
  <2>1. LinkedIn(s, h)
    BY <1>2, <1>13 DEF LinkedIn
  <2>2. NamedAt(s, h) /\ ToldAt(s, h)
    BY <2>1 DEF GroupsAgree
  <2>3. CASE h # g
    <3>1. NamedAt(t, h)
      BY <1>8, <1>11, <2>2, <2>3 DEF NamedAt
    <3>2. ToldAt(t, h)
      BY <1>4, <1>5, <1>6, <1>9, <1>11, <2>2, <2>3 DEF ToldAt
    <3> QED BY <3>1, <3>2
  <2>4. CASE h = g
    <3>1. NamedAt(t, h)
      <4>1. \A l \in Keys : l \in s.names[g] <=> Groups!Value(s, g, l) # Null
        BY <2>2, <2>4 DEF NamedAt
      <4>2. \A l \in Keys : s.own["global"][g][l] # Null => Groups!Value(s, g, l) # Null
        BY DEF Groups!Value
      <4>3. \A l \in Keys : l \in t.names[g] <=> Groups!Value(t, g, l) # Null
        BY <1>8, <1>11, <4>1, <4>2
      <4> QED BY <1>8, <2>4, <4>3 DEF NamedAt
    <3>2. ToldAt(t, h)
      BY <1>4, <1>5, <1>6, <1>9, <1>11, <2>2, <2>4 DEF ToldAt
    <3> QED BY <3>1, <3>2
  <2> QED BY <2>3, <2>4
<1>14. "local" \notin t.exists => NoneOwnAt(t, "sub") /\ ~ t.dangling
  <2>1. "local" \notin s.exists => NoneOwnAt(s, "sub") /\ ~ s.dangling
    BY DEF GroupsAgree
  <2>2. "local" \notin s.exists => g # "sub"
    BY DEF Present
  <2>3. "sub" \in Groups!Groups
    BY DEF Groups!Groups
  <2> QED BY <1>2, <1>4, <1>5, <2>1, <2>2, <2>3 DEF NoneOwnAt
<1>17. t.dangling => OwnNamed(t)
  <2>1. t.dangling => OwnNamed(s)
    BY <1>2 DEF GroupsAgree
  <2> QED BY <1>4, <1>5, <1>8, <2>1, NamesOfGroups DEF OwnNamed
<1>15. GroupsAgree(t)
  BY <1>2, <1>10, <1>12, <1>13, <1>14, <1>17 DEF GroupsAgree
<1>16. OnlyChanges(s, t, "local", g, k, v)
  BY <1>2, <1>4, <1>5, <1>7, <1>9 DEF OnlyChanges
<1> QED BY <1>15, <1>16

(* ... as does one of the global storage, which a local group may follow.   *)
LEMMA GlobalKeeps ==
    ASSUME NEW s, GroupsAgree(s), NEW g \in Groups!Groups, NEW k \in Keys,
           NEW v \in SettingsValues, g = "sub" => ~ s.dangling, s.own["global"][g][k] # v,
           NEW t, t = Groups!Set(s, "global", g, k, v)
    PROVE  GroupsAgree(t) /\ OnlyChanges(s, t, "global", g, k, v)
<1>1. s \in SettingsStates
  BY DEF GroupsAgree
<1>2. /\ t.exists = s.exists /\ t.groupNames = s.groupNames /\ t.dangling = s.dangling
      /\ t.quiet = s.quiet
      /\ t.own = Changed(s.own, "global", g, k, v)
      /\ t.file = Changed(s.file, "global", g, k, v)
      /\ IF g = "sub" /\ "local" \notin s.exists THEN t.names = s.names /\ t.told = s.told
         ELSE /\ t.told = IF s.own["local"][g][k] # Null THEN s.told
                          ELSE ChangedAt(s.told, g, k, v)
              /\ t.names = [s.names EXCEPT ![g] =
                    IF v # Null THEN @ \cup {k}
                    ELSE IF s.own["local"][g][k] # Null THEN @ ELSE @ \ {k}]
      /\ t = [own |-> t.own, names |-> t.names, exists |-> t.exists, groupNames |-> t.groupNames,
              file |-> t.file, told |-> t.told, quiet |-> t.quiet, dangling |-> t.dangling]
  BY <1>1, GlobalSets
<1>3. /\ s.own \in Stored /\ s.file \in Stored /\ s.names \in [Groups!Groups -> SUBSET Keys]
      /\ s.told \in SaidValues
      /\ s.quiet \in SUBSET (Groups!Groups \X Keys)
  BY <1>1 DEF SettingsStates
<1>4. "local" \in Groups!Storages /\ "global" \in Groups!Storages /\ "local" # "global"
  BY DEF Groups!Storages
<1>5. /\ t.own \in Stored
      /\ \A y \in Groups!Storages, h \in Groups!Groups, l \in Keys :
            t.own[y][h][l] = IF y = "global" /\ h = g /\ l = k THEN v ELSE s.own[y][h][l]
  <2> DEFINE f == s.own
  <2>1. f \in Stored
    BY <1>3
  <2> HIDE DEF f
  <2>2. /\ Changed(f, "global", g, k, v) \in Stored
        /\ \A y \in Groups!Storages, h \in Groups!Groups, l \in Keys :
              Changed(f, "global", g, k, v)[y][h][l]
                = IF y = "global" /\ h = g /\ l = k THEN v ELSE f[y][h][l]
    BY <1>4, <2>1, ChangedIs
  <2>3. t.own = Changed(f, "global", g, k, v)
    BY <1>2 DEF f
  <2> QED BY <2>2, <2>3 DEF f
<1> DEFINE followed == ~ (g = "sub" /\ "local" \notin s.exists)
           told == followed /\ s.own["local"][g][k] = Null
<1>6. /\ t.told \in SaidValues
      /\ \A h \in Groups!Groups, l \in Keys :
            t.told[h][l] = IF h = g /\ l = k /\ told THEN v ELSE s.told[h][l]
  <2> DEFINE f == s.told
  <2>1. f \in SaidValues
    BY <1>3
  <2> HIDE DEF f
  <2>2. /\ ChangedAt(f, g, k, v) \in SaidValues
        /\ \A h \in Groups!Groups, l \in Keys :
              ChangedAt(f, g, k, v)[h][l] = IF h = g /\ l = k THEN v ELSE f[h][l]
    BY <2>1, ChangedAtIs
  <2>3. CASE told
    <3>1. t.told = ChangedAt(f, g, k, v)
      BY <1>2, <2>3 DEF f
    <3> QED BY <2>2, <2>3, <3>1 DEF f
  <2>4. CASE ~ (told)
    <3>1. t.told = s.told
      BY <1>2, <2>4
    <3> QED BY <1>3, <2>4, <3>1
  <2> QED BY <2>3, <2>4
<1>7. t.file \in Stored /\ t.file["local"] = s.file["local"]
  <2>1. t.file = Changed(s.file, "global", g, k, v)
    BY <1>2
  <2>2. Changed(s.file, "global", g, k, v) \in Stored
    BY <1>3, <1>4, ChangedIs
  <2>3. Changed(s.file, "global", g, k, v)["local"] = s.file["local"]
    BY <1>3, ChangedElsewhere
  <2> QED BY <2>1, <2>2, <2>3
<1>8. /\ t.names \in [Groups!Groups -> SUBSET Keys]
      /\ \A h \in Groups!Groups : h # g => t.names[h] = s.names[h]
      /\ followed => t.names[g] = IF v # Null THEN s.names[g] \cup {k}
                                  ELSE IF s.own["local"][g][k] # Null THEN s.names[g]
                                  ELSE s.names[g] \ {k}
  <2>1. CASE followed
    <3>1. t.names = [s.names EXCEPT ![g] =
                        IF v # Null THEN @ \cup {k}
                        ELSE IF s.own["local"][g][k] # Null THEN @ ELSE @ \ {k}]
      BY <1>2, <2>1
    <3> DEFINE n == IF v # Null THEN s.names[g] \cup {k}
                    ELSE IF s.own["local"][g][k] # Null THEN s.names[g] ELSE s.names[g] \ {k}
    <3>2. t.names = [s.names EXCEPT ![g] = n]
      BY <3>1
    <3>3. n \in SUBSET Keys
      BY <1>3
    <3> HIDE DEF n
    <3>4. t.names \in [Groups!Groups -> SUBSET Keys] /\ t.names[g] = n
          /\ \A h \in Groups!Groups : h # g => t.names[h] = s.names[h]
      BY <1>3, <3>2, <3>3
    <3> QED BY <3>4 DEF n
  <2>2. CASE ~ followed
    BY <1>2, <1>3, <2>2
  <2> QED BY <2>1, <2>2
<1>10. t \in SettingsStates
  BY <1>1, <1>2, <1>3, <1>5, <1>6, <1>7, <1>8 DEF SettingsStates
<1>11. \A h \in Groups!Groups, l \in Keys :
          Groups!Value(t, h, l) = IF h = g /\ l = k /\ s.own["local"][g][k] = Null THEN v
                                  ELSE Groups!Value(s, h, l)
  BY <1>4, <1>5 DEF Groups!Value
<1>12. \A h \in Groups!Groups : QuietAt(t, h)
  <2>1. \A h \in Groups!Groups : QuietAt(s, h)
    BY DEF GroupsAgree
  <2> QED BY <1>2, <1>4, <1>5, <2>1 DEF QuietAt
<1>13. ASSUME NEW h \in Groups!Groups, LinkedIn(t, h) PROVE NamedAt(t, h) /\ ToldAt(t, h)
  <2>1. LinkedIn(s, h)
    BY <1>2, <1>13 DEF LinkedIn
  <2>2. NamedAt(s, h) /\ ToldAt(s, h)
    BY <2>1 DEF GroupsAgree
  <2>3. CASE h # g
    <3>1. NamedAt(t, h)
      BY <1>8, <1>11, <2>2, <2>3 DEF NamedAt
    <3>2. ToldAt(t, h)
      BY <1>2, <1>4, <1>5, <1>6, <1>11, <2>2, <2>3 DEF ToldAt
    <3> QED BY <3>1, <3>2
  <2>4. CASE h = g
    <3>0. followed
      BY <2>1, <2>4 DEF LinkedIn
    <3>1. NamedAt(t, h)
      <4>1. \A l \in Keys : l \in s.names[g] <=> Groups!Value(s, g, l) # Null
        BY <2>2, <2>4 DEF NamedAt
      <4>2. \A l \in Keys : s.own["local"][g][l] # Null => Groups!Value(s, g, l) # Null
        BY DEF Groups!Value
      <4>3. \A l \in Keys : l \in t.names[g] <=> Groups!Value(t, g, l) # Null
        BY <1>8, <1>11, <3>0, <4>1, <4>2
      <4> QED BY <1>8, <2>4, <4>3 DEF NamedAt
    <3>2. ToldAt(t, h)
      BY <1>2, <1>4, <1>5, <1>6, <1>11, <2>2, <2>4, <3>0 DEF ToldAt
    <3> QED BY <3>1, <3>2
  <2> QED BY <2>3, <2>4
<1>14. "local" \notin t.exists => NoneOwnAt(t, "sub") /\ ~ t.dangling
  <2>1. "local" \notin s.exists => NoneOwnAt(s, "sub") /\ ~ s.dangling
    BY DEF GroupsAgree
  <2>3. "sub" \in Groups!Groups
    BY DEF Groups!Groups
  <2> QED BY <1>2, <1>4, <1>5, <2>1, <2>3 DEF NoneOwnAt
<1>17. t.dangling => OwnNamed(t)
  <2>1. t.dangling => OwnNamed(s)
    BY <1>2 DEF GroupsAgree
  <2> QED BY <1>2, <1>4, <1>5, <1>8, <2>1, NamesOfGroups DEF OwnNamed
<1>15. GroupsAgree(t)
  BY <1>2, <1>10, <1>12, <1>13, <1>14, <1>17 DEF GroupsAgree
<1>16. OnlyChanges(s, t, "global", g, k, v)
  BY <1>2, <1>4, <1>5, <1>7 DEF OnlyChanges
<1> QED BY <1>15, <1>16

(* Settings set a value of a group that is there.                          *)
Settable(s, x, g) ==
    g = "main" \/ (IF x = "local" THEN "local" \in s.exists ELSE ~ s.dangling)

(* So setting a value does, new or not.                                     *)
LEMMA SetKeeps ==
    ASSUME NEW s, GroupsAgree(s), NEW x \in Groups!Storages, NEW g \in Groups!Groups, NEW k \in Keys,
           NEW v \in SettingsValues, Settable(s, x, g), NEW t, t = Groups!Set(s, x, g, k, v)
    PROVE  GroupsAgree(t) /\ OnlyChanges(s, t, x, g, k, v)
<1>1. CASE s.own[x][g][k] = v
  <2>1. t = s
    BY <1>1 DEF Groups!Set, Groups!SetLocal, Groups!SetGlobal, Groups!Storages
  <2> QED BY <1>1, <2>1 DEF OnlyChanges
<1>2. CASE s.own[x][g][k] # v /\ x = "local"
  BY <1>2, LocalKeeps DEF Settable, Present
<1>3. CASE s.own[x][g][k] # v /\ x = "global"
  BY <1>3, GlobalKeeps DEF Settable
<1> QED BY <1>1, <1>2, <1>3 DEF Groups!Storages

(* A change of several values changes each of them in one of these ways.   *)
KeyChanges(s, t, g, k, v) ==
    \/ /\ s.own["local"][g][k] = v /\ t.file["local"][g][k] = s.file["local"][g][k]
       /\ <<g, k>> \in t.quiet <=> <<g, k>> \in s.quiet
    \/ v # Null /\ <<g, k>> \in t.quiet
    \/ <<g, k>> \notin t.quiet /\ t.file["local"][g][k] = v
AllChange(s, t, x, g, ks, vs) ==
    /\ t.exists = s.exists /\ t.groupNames = s.groupNames /\ t.dangling = s.dangling
    /\ \A y \in Groups!Storages, h \in Groups!Groups, l \in Keys :
          t.own[y][h][l] = IF y = x /\ h = g /\ l \in ks THEN vs[l] ELSE s.own[y][h][l]
    /\ x = "global" => t.quiet = s.quiet /\ t.file["local"] = s.file["local"]
    /\ \A h \in Groups!Groups, l \in Keys : h # g \/ l \notin ks =>
          /\ <<h, l>> \in t.quiet <=> <<h, l>> \in s.quiet
          /\ t.file["local"][h][l] = s.file["local"][h][l]
    /\ x = "local" => \A l \in ks : KeyChanges(s, t, g, l, vs[l])

(* Values set one by one: one more key.                                     *)
LEMMA OneMoreChanges ==
    ASSUME NEW s, NEW t, NEW u, NEW x \in Groups!Storages, NEW g \in Groups!Groups,
           NEW d \in SUBSET Keys, NEW vs, NEW k \in Keys, k \notin d,
           AllChange(s, t, x, g, d, vs), OnlyChanges(t, u, x, g, k, vs[k])
    PROVE  AllChange(s, u, x, g, d \cup {k}, vs)
<1>1. u.exists = s.exists /\ u.groupNames = s.groupNames /\ u.dangling = s.dangling
  BY DEF AllChange, OnlyChanges
<1>2. /\ \A y \in Groups!Storages, h \in Groups!Groups, l \in Keys :
            t.own[y][h][l] = IF y = x /\ h = g /\ l \in d THEN vs[l] ELSE s.own[y][h][l]
      /\ \A y \in Groups!Storages, h \in Groups!Groups, l \in Keys :
            u.own[y][h][l] = IF y = x /\ h = g /\ l = k THEN vs[k] ELSE t.own[y][h][l]
  BY DEF AllChange, OnlyChanges
<1>3. \A y \in Groups!Storages, h \in Groups!Groups, l \in Keys :
         u.own[y][h][l] = IF y = x /\ h = g /\ l \in d \cup {k} THEN vs[l] ELSE s.own[y][h][l]
  BY <1>2
<1>4. x = "global" => u.quiet = s.quiet /\ u.file["local"] = s.file["local"]
  BY DEF AllChange, OnlyChanges
<1>5. /\ \A h \in Groups!Groups, l \in Keys : h # g \/ l \notin d =>
            /\ <<h, l>> \in t.quiet <=> <<h, l>> \in s.quiet
            /\ t.file["local"][h][l] = s.file["local"][h][l]
      /\ \A h \in Groups!Groups, l \in Keys : h # g \/ l # k =>
            /\ <<h, l>> \in u.quiet <=> <<h, l>> \in t.quiet
            /\ u.file["local"][h][l] = t.file["local"][h][l]
  BY DEF AllChange, OnlyChanges
<1>6. \A h \in Groups!Groups, l \in Keys : h # g \/ l \notin d \cup {k} =>
         /\ <<h, l>> \in u.quiet <=> <<h, l>> \in s.quiet
         /\ u.file["local"][h][l] = s.file["local"][h][l]
  BY <1>5
<1>7. ASSUME x = "local", NEW l \in d \cup {k} PROVE KeyChanges(s, u, g, l, vs[l])
  <2>1. CASE l # k
    <3>1. KeyChanges(s, t, g, l, vs[l])
      BY <1>7, <2>1 DEF AllChange
    <3>2. /\ <<g, l>> \in u.quiet <=> <<g, l>> \in t.quiet
          /\ u.file["local"][g][l] = t.file["local"][g][l]
      BY <1>5, <1>7, <2>1
    <3> QED BY <3>1, <3>2 DEF KeyChanges
  <2>2. CASE l = k
    <3>1. /\ <<g, k>> \in t.quiet <=> <<g, k>> \in s.quiet
          /\ t.file["local"][g][k] = s.file["local"][g][k]
      BY <1>5
    <3>2. "local" \in Groups!Storages
      BY DEF Groups!Storages
    <3>3. u.own["local"][g][k] = vs[k] /\ t.own["local"][g][k] = s.own["local"][g][k]
      BY <1>2, <1>7, <3>2
    <3>4. \/ u = t
          \/ vs[k] # Null /\ <<g, k>> \in u.quiet
          \/ <<g, k>> \notin u.quiet /\ u.file["local"][g][k] = vs[k]
      BY <1>7 DEF OnlyChanges
    <3> QED BY <2>2, <3>1, <3>3, <3>4 DEF KeyChanges
  <2> QED BY <2>1, <2>2
<1> QED BY <1>1, <1>3, <1>4, <1>6, <1>7 DEF AllChange

(* Setting the values of a set of keys, in whatever order, keeps groups together. *)
LEMMA AllKeeps ==
    ASSUME NEW s, GroupsAgree(s), NEW x \in Groups!Storages, NEW g \in Groups!Groups,
           Settable(s, x, g), NEW ks \in SUBSET Keys, NEW vs, \A k \in ks : vs[k] \in SettingsValues
    PROVE  /\ GroupsAgree(Groups!SetAll(s, x, g, ks, vs))
           /\ AllChange(s, Groups!SetAll(s, x, g, ks, vs), x, g, ks, vs)
<1> DEFINE T == {p \in (SUBSET ks) \X SettingsStates :
                    GroupsAgree(p[2]) /\ AllChange(s, p[2], x, g, p[1], vs)}
<1>1. IsFiniteSet(ks)
  BY SettingsAssumption, FS_Subset
<1>2. <<{}, s>> \in T
  <2>1. AllChange(s, s, x, g, {}, vs)
    BY DEF AllChange
  <2> QED BY <2>1 DEF GroupsAgree
<1>3. ASSUME NEW d \in SUBSET ks, NEW k \in ks, NEW t, k \notin d, <<d, t>> \in T
      PROVE  <<d \cup {k}, Groups!Set(t, x, g, k, vs[k])>> \in T
  <2> DEFINE u == Groups!Set(t, x, g, k, vs[k])
  <2>1. GroupsAgree(t) /\ AllChange(s, t, x, g, d, vs)
    BY <1>3
  <2>2. Settable(t, x, g)
    BY <2>1 DEF Settable, AllChange
  <2>3. GroupsAgree(u) /\ OnlyChanges(t, u, x, g, k, vs[k])
    BY <2>1, <2>2, SetKeeps
  <2> HIDE DEF u
  <2>4. AllChange(s, u, x, g, d \cup {k}, vs)
    BY <1>3, <2>1, <2>3, OneMoreChanges
  <2>5. u \in SettingsStates /\ d \cup {k} \in SUBSET ks
    BY <2>3 DEF GroupsAgree
  <2>6. <<d \cup {k}, u>> \in T
    BY <2>3, <2>4, <2>5
  <2> QED BY <2>6 DEF u
<1> HIDE DEF T
<1>4. <<ks, Groups!SetAll(s, x, g, ks, vs)>> \in T
  BY <1>1, <1>2, <1>3, SetAllKeeps
<1> QED BY <1>4 DEF T

(* What is in the file of the local storage, once it is read.              *)
FilesAgree(s) ==
    /\ KeptAt(s, "main")
    /\ LinkedIn(s, "sub") => KeptAt(s, "sub")
    /\ "local" \notin s.exists => \A k \in Keys : s.file["local"]["sub"][k] = Null
(* An operation on groups that leaves what local values depend on.         *)
SameLocal(s, t) ==
    /\ \A g \in Groups!Groups, k \in Keys : t.own["local"][g][k] = s.own["local"][g][k]
    /\ t.file["local"] = s.file["local"] /\ t.quiet = s.quiet

(* What leaves local values leaves what depends on them.                    *)
LEMMA SameLocalKeeps ==
    ASSUME NEW s, NEW t, SameLocal(s, t)
    PROVE  \A g \in Groups!Groups : /\ KeptAt(s, g) => KeptAt(t, g)
                                    /\ QuietAt(s, g) => QuietAt(t, g)
                                    /\ NoneOwnAt(s, g) => NoneOwnAt(t, g)
BY DEF SameLocal, KeptAt, QuietAt, NoneOwnAt

(* The operations on groups: a global one is added ...                      *)
LEMMA GlobalGroupAdded ==
    ASSUME NEW s, GroupsAgree(s), ~ s.dangling, NEW t, t = Groups!AddGlobalGroup(s)
    PROVE  /\ GroupsAgree(t) /\ SameLocal(s, t) /\ ~ t.dangling /\ "global" \in t.exists
           /\ "local" \in t.exists <=> "local" \in s.exists
<1>1. s \in SettingsStates
  BY DEF GroupsAgree
<1>2. /\ t.own = s.own /\ t.names = s.names /\ t.file = s.file /\ t.told = s.told
      /\ t.quiet = s.quiet /\ t.dangling = s.dangling
      /\ t.exists = s.exists \cup {"global"} /\ t.groupNames = s.groupNames \cup {"sub"}
      /\ t \in SettingsStates
  BY <1>1 DEF Groups!AddGlobalGroup, SettingsStates, Groups!Storages
<1>3. s.groupNames \in SUBSET {"sub"}
  BY <1>1 DEF SettingsStates
<1>4. "local" \in t.exists <=> "local" \in s.exists
  BY <1>2
<1>5. \A g \in Groups!Groups : /\ QuietAt(s, g) => QuietAt(t, g)
                               /\ NamedAt(s, g) => NamedAt(t, g)
                               /\ ToldAt(s, g) => ToldAt(t, g)
                               /\ NoneOwnAt(s, g) => NoneOwnAt(t, g)
                               /\ LinkedIn(t, g) <=> LinkedIn(s, g)
  BY <1>2, <1>4 DEF QuietAt, NamedAt, ToldAt, NoneOwnAt, LinkedIn, Groups!Value
<1>6. GroupsAgree(t)
  BY <1>2, <1>3, <1>4, <1>5, NamesOfGroups DEF GroupsAgree
<1>7. SameLocal(s, t)
  BY <1>2 DEF SameLocal
<1> QED BY <1>2, <1>4, <1>6, <1>7

(* ... a local one is added, with the global one it follows ...             *)
LEMMA LocalGroupAdded ==
    ASSUME NEW s, GroupsAgree(s), ~ s.dangling, NEW t, t = Groups!AddLocalGroup(s)
    PROVE  /\ GroupsAgree(t) /\ SameLocal(s, t) /\ ~ t.dangling /\ "local" \in t.exists
           /\ FilesAgree(s) => FilesAgree(t)
<1>1. CASE "local" \in s.exists
  <2>1. t = s
    BY <1>1 DEF Groups!AddLocalGroup
  <2> QED BY <1>1, <2>1 DEF SameLocal
<1>2. CASE "local" \notin s.exists
  <2> DEFINE u == Groups!AddGlobalGroup(s)
  <2>1. /\ GroupsAgree(u) /\ SameLocal(s, u) /\ ~ u.dangling /\ "global" \in u.exists
        /\ "local" \in u.exists <=> "local" \in s.exists
    BY GlobalGroupAdded
  <2>2. /\ u.own = s.own /\ u.file = s.file /\ s \in SettingsStates
    BY DEF Groups!AddGlobalGroup, GroupsAgree, SettingsStates
  <2>3. t = [u EXCEPT !.exists = @ \cup {"local"},
                      !.names["sub"] = {k \in Keys : s.own["global"]["sub"][k] # Null},
                      !.told["sub"] = s.own["global"]["sub"]]
    BY <1>2 DEF Groups!AddLocalGroup, Groups!Named
  <2>4. u \in SettingsStates
    BY <2>1 DEF GroupsAgree
  <2>5. /\ u.names \in [Groups!Groups -> SUBSET Keys] /\ u.told \in SaidValues
        /\ u.own \in Stored /\ u.groupNames \in SUBSET {"sub"} /\ u.exists \in SUBSET Groups!Storages
    BY <2>4 DEF SettingsStates
  <2> HIDE DEF u
  <2>6. /\ t.own = u.own /\ t.file = u.file /\ t.quiet = u.quiet /\ t.dangling = u.dangling
        /\ t.exists = u.exists \cup {"local"} /\ t.groupNames = u.groupNames
        /\ t.names = [u.names EXCEPT !["sub"] = {k \in Keys : s.own["global"]["sub"][k] # Null}]
        /\ t.told = [u.told EXCEPT !["sub"] = s.own["global"]["sub"]]
        /\ t = [own |-> t.own, names |-> t.names, exists |-> t.exists, groupNames |-> t.groupNames,
                file |-> t.file, told |-> t.told, quiet |-> t.quiet, dangling |-> t.dangling]
    BY <2>3, <2>4 DEF SettingsStates
  <2>7. /\ t.names \in [Groups!Groups -> SUBSET Keys] /\ t.names["main"] = u.names["main"]
        /\ t.names["sub"] = {k \in Keys : u.own["global"]["sub"][k] # Null}
    BY <2>2, <2>5, <2>6, NamesOfGroups
  <2>8. s.own["global"]["sub"] \in [Keys -> SettingsValues]
    BY <2>2, <2>5, NamesOfGroups DEF Stored
  <2>9. /\ t.told \in SaidValues /\ t.told["main"] = u.told["main"]
        /\ t.told["sub"] = u.own["global"]["sub"]
    BY <2>2, <2>5, <2>6, <2>8, NamesOfGroups DEF SaidValues
  <2>10. t \in SettingsStates
    BY <2>4, <2>5, <2>6, <2>7, <2>9, NamesOfGroups DEF SettingsStates
  <2>11. NoneOwnAt(u, "sub")
    BY <1>2, <2>1 DEF GroupsAgree
  <2>12. \A g \in Groups!Groups : QuietAt(t, g)
    BY <2>1, <2>6 DEF GroupsAgree, QuietAt
  <2>13. NamedAt(t, "main") /\ ToldAt(t, "main")
    <3>1. NamedAt(u, "main") /\ ToldAt(u, "main")
      BY <2>1, NamesOfGroups DEF GroupsAgree, LinkedIn
    <3>2. \A k \in Keys : Groups!Value(t, "main", k) = Groups!Value(u, "main", k)
      BY <2>6 DEF Groups!Value
    <3>3. NamedAt(t, "main")
      BY <2>7, <3>1, <3>2 DEF NamedAt
    <3>4. ToldAt(t, "main")
      BY <2>6, <2>9, <3>1, <3>2 DEF ToldAt
    <3> QED BY <3>3, <3>4
  <2>14. NamedAt(t, "sub") /\ ToldAt(t, "sub")
    <3>1. \A k \in Keys : Groups!Value(t, "sub", k) = u.own["global"]["sub"][k]
      BY <2>6, <2>11 DEF Groups!Value, NoneOwnAt
    <3> QED BY <2>7, <2>9, <3>1 DEF NamedAt, ToldAt
  <2>15. GroupsAgree(t)
    <3>1. \A g \in Groups!Groups : NamedAt(t, g) /\ ToldAt(t, g)
      BY <2>13, <2>14 DEF Groups!Groups
    <3>2. u.groupNames = {"sub"}
      BY <2>1 DEF GroupsAgree
    <3> QED BY <2>1, <2>6, <2>10, <2>12, <3>1, <3>2 DEF GroupsAgree
  <2>16. SameLocal(s, t)
    BY <2>1, <2>6 DEF SameLocal
  <2>17. ASSUME FilesAgree(s) PROVE FilesAgree(t)
    <3>1. KeptAt(t, "main")
      BY <2>16, <2>17, SameLocalKeeps, NamesOfGroups DEF FilesAgree
    <3>2. \A k \in Keys : s.file["local"]["sub"][k] = Null
      BY <1>2, <2>17 DEF FilesAgree
    <3>3. KeptAt(t, "sub")
      BY <2>2, <2>6, <2>11, <3>2 DEF KeptAt, NoneOwnAt
    <3> QED BY <2>6, <3>1, <3>3 DEF FilesAgree
  <2> QED BY <2>1, <2>6, <2>15, <2>16, <2>17
<1> QED BY <1>1, <1>2

(* ... a global one is deleted ...                                          *)
LEMMA GlobalGroupDeleted ==
    ASSUME NEW s, GroupsAgree(s), ~ s.dangling, NEW t, t = Groups!DeleteGlobalGroup(s)
    PROVE  /\ GroupsAgree(t) /\ SameLocal(s, t)
           /\ "local" \in t.exists => "local" \in s.exists
           /\ FilesAgree(s) => FilesAgree(t)
<1>1. CASE "global" \notin s.exists
  <2>1. t = s
    BY <1>1 DEF Groups!DeleteGlobalGroup
  <2> QED BY <2>1 DEF SameLocal
<1>2. CASE "global" \in s.exists
  <2> DEFINE u == Groups!SetAll(s, "global", "sub", Keys, Groups!NoValues)
  <2>1. \A k \in Keys : Groups!NoValues[k] = Null /\ Groups!NoValues[k] \in SettingsValues
    BY DEF Groups!NoValues, SettingsValues
  <2>2. GroupsAgree(u) /\ AllChange(s, u, "global", "sub", Keys, Groups!NoValues)
    <3>1. Settable(s, "global", "sub")
      BY DEF Settable
    <3>2. Keys \in SUBSET Keys
      OBVIOUS
    <3> QED BY <2>1, <3>1, <3>2, AllKeeps, NamesOfGroups
  <2>3. t = IF "local" \in u.exists /\ u.names["sub"] # {}
              THEN [u EXCEPT !.exists = {"local"}, !.dangling = TRUE]
              ELSE [u EXCEPT !.exists = {}, !.groupNames = {}]
    BY <1>2 DEF Groups!DeleteGlobalGroup
  <2> HIDE DEF u
  <2>4. u \in SettingsStates
    BY <2>2 DEF GroupsAgree
  <2>5. /\ t.own = u.own /\ t.names = u.names /\ t.file = u.file /\ t.told = u.told
        /\ t.quiet = u.quiet /\ t \in SettingsStates
        /\ \/ "local" \in u.exists /\ u.names["sub"] # {} /\ t.exists = {"local"} /\ t.dangling
           \/ /\ ~ ("local" \in u.exists /\ u.names["sub"] # {})
              /\ t.exists = {} /\ t.groupNames = {} /\ t.dangling = u.dangling
    <3>1. CASE "local" \in u.exists /\ u.names["sub"] # {}
      <4>1. t = [u EXCEPT !.exists = {"local"}, !.dangling = TRUE]
        BY <2>3, <3>1
      <4>2. {"local"} \in SUBSET Groups!Storages
        BY NamesOfGroups
      <4> QED BY <2>4, <3>1, <4>1, <4>2 DEF SettingsStates
    <3>2. CASE ~ ("local" \in u.exists /\ u.names["sub"] # {})
      <4>1. t = [u EXCEPT !.exists = {}, !.groupNames = {}]
        BY <2>3, <3>2
      <4> QED BY <2>4, <3>2, <4>1 DEF SettingsStates
    <3> QED BY <3>1, <3>2
  <2>6. /\ u.exists = s.exists /\ ~ u.dangling /\ u.quiet = s.quiet
        /\ u.file["local"] = s.file["local"]
        /\ \A g \in Groups!Groups, k \in Keys : u.own["local"][g][k] = s.own["local"][g][k]
    BY <2>2, NamesOfGroups DEF AllChange
  <2>7. SameLocal(s, t)
    BY <2>5, <2>6 DEF SameLocal
  <2>8. ASSUME "local" \notin t.exists PROVE NoneOwnAt(t, "sub")
    <3>1. CASE "local" \notin u.exists
      BY <2>2, <2>5, <3>1 DEF GroupsAgree, NoneOwnAt
    <3>2. CASE "local" \in u.exists
      <4>1. u.names["sub"] = {} /\ LinkedIn(u, "sub")
        BY <2>5, <2>6, <2>8, <3>2 DEF LinkedIn
      <4>2. NamedAt(u, "sub")
        BY <2>2, <4>1, NamesOfGroups DEF GroupsAgree
      <4> QED BY <2>5, <4>1, <4>2 DEF NamedAt, NoneOwnAt, Groups!Value
    <3> QED BY <3>1, <3>2
  <2>9. \A g \in Groups!Groups : /\ QuietAt(u, g) => QuietAt(t, g)
                                 /\ NamedAt(u, g) => NamedAt(t, g)
                                 /\ ToldAt(u, g) => ToldAt(t, g)
                                 /\ LinkedIn(t, g) => LinkedIn(u, g)
    <3> SUFFICES ASSUME NEW g \in Groups!Groups
                 PROVE  /\ QuietAt(u, g) => QuietAt(t, g)
                        /\ NamedAt(u, g) => NamedAt(t, g)
                        /\ ToldAt(u, g) => ToldAt(t, g)
                        /\ LinkedIn(t, g) => LinkedIn(u, g)
      OBVIOUS
    <3>1. \A k \in Keys : Groups!Value(t, g, k) = Groups!Value(u, g, k)
      BY <2>5 DEF Groups!Value
    <3>2. QuietAt(u, g) => QuietAt(t, g)
      BY <2>5 DEF QuietAt
    <3>3. NamedAt(u, g) => NamedAt(t, g)
      BY <2>5, <3>1 DEF NamedAt
    <3>4. ToldAt(u, g) => ToldAt(t, g)
      BY <2>5, <3>1 DEF ToldAt
    <3>5. LinkedIn(t, g) => LinkedIn(u, g)
      BY <2>5, <2>6 DEF LinkedIn
    <3> QED BY <3>2, <3>3, <3>4, <3>5
  <2>10. GroupsAgree(t)
    <3>1. t.dangling => OwnNamed(t)
      <4>1. t.dangling => NamedAt(u, "sub")
        BY <2>2, <2>5, <2>6, NamesOfGroups DEF GroupsAgree, LinkedIn
      <4> QED BY <2>5, <4>1 DEF OwnNamed, NamedAt, Groups!Value
    <3>2. t.exists = {} \/ (t.exists = {"local"} /\ t.dangling)
      BY <2>5
    <3> QED BY <2>2, <2>5, <2>6, <2>8, <2>9, <3>1, <3>2 DEF GroupsAgree
  <2>11. "local" \in t.exists => "local" \in s.exists
    BY <2>5, <2>6
  <2>12. ASSUME FilesAgree(s) PROVE FilesAgree(t)
    <3>1. KeptAt(t, "main")
      BY <2>7, <2>12, SameLocalKeeps, NamesOfGroups DEF FilesAgree
    <3>2. ~ LinkedIn(t, "sub")
      BY <2>5 DEF LinkedIn
    <3>3. ASSUME "local" \notin t.exists, NEW k \in Keys PROVE t.file["local"]["sub"][k] = Null
      <4>1. CASE "local" \notin s.exists
        BY <2>7, <2>12, <4>1 DEF FilesAgree, SameLocal
      <4>2. CASE "local" \in s.exists
        <5>1. KeptAt(s, "sub")
          BY <2>12, <4>2 DEF FilesAgree, LinkedIn
        <5>2. t.own["local"]["sub"][k] = Null
          BY <2>8, <3>3 DEF NoneOwnAt
        <5>3. <<"sub", k>> \notin t.quiet
          BY <2>10, <5>2, NamesOfGroups DEF GroupsAgree, QuietAt
        <5>4. KeptAt(t, "sub")
          BY <2>7, <5>1, SameLocalKeeps, NamesOfGroups
        <5> QED BY <5>2, <5>3, <5>4 DEF KeptAt
      <4> QED BY <4>1, <4>2
    <3> QED BY <3>1, <3>2, <3>3 DEF FilesAgree
  <2> QED BY <2>7, <2>10, <2>11, <2>12
<1> QED BY <1>1, <1>2

(* ... or a local one.                                                      *)
LEMMA LocalGroupDeleted ==
    ASSUME NEW s, GroupsAgree(s), FilesAgree(s), ~ s.dangling, NEW t, t = Groups!DeleteLocalGroup(s)
    PROVE  GroupsAgree(t) /\ FilesAgree(t)
<1>1. CASE "local" \notin s.exists
  <2>1. t = s
    BY <1>1 DEF Groups!DeleteLocalGroup
  <2> QED BY <2>1
<1>2. CASE "local" \in s.exists
  <2> DEFINE ks == s.names["sub"]
             u == Groups!SetAll(s, "local", "sub", ks, Groups!NoValues)
  <2>1. ks \in SUBSET Keys
    BY NamesOfGroups DEF GroupsAgree, SettingsStates
  <2>2. \A k \in Keys : Groups!NoValues[k] = Null /\ Groups!NoValues[k] \in SettingsValues
    BY DEF Groups!NoValues, SettingsValues
  <2>3. GroupsAgree(u) /\ AllChange(s, u, "local", "sub", ks, Groups!NoValues)
    <3>1. Settable(s, "local", "sub")
      BY <1>2 DEF Settable
    <3> HIDE DEF ks
    <3> QED BY <2>1, <2>2, <3>1, AllKeeps, NamesOfGroups
  <2>4. t = IF Groups!Named(u, "global", "sub") = {} THEN Groups!DeleteGlobalGroup(u)
            ELSE [u EXCEPT !.exists = {"global"}, !.names["sub"] = {}]
    <3>1. "global" \in u.exists
      BY <1>2, <2>3 DEF GroupsAgree, AllChange
    <3> QED BY <1>2, <3>1 DEF Groups!DeleteLocalGroup
  <2>5. \A k \in Keys : k \in ks <=> Groups!Value(s, "sub", k) # Null
    BY <1>2, NamesOfGroups DEF GroupsAgree, NamedAt, LinkedIn
  <2> HIDE DEF u, ks
  <2>6. /\ u.exists = s.exists /\ ~ u.dangling /\ LinkedIn(u, "sub") /\ u.groupNames = s.groupNames
    BY <1>2, <2>3 DEF AllChange, LinkedIn
  <2>7. NoneOwnAt(u, "sub")
    <3> SUFFICES ASSUME NEW k \in Keys PROVE u.own["local"]["sub"][k] = Null
      BY DEF NoneOwnAt
    <3>1. u.own["local"]["sub"][k] = IF k \in ks THEN Groups!NoValues[k] ELSE s.own["local"]["sub"][k]
      BY <2>3, NamesOfGroups DEF AllChange
    <3>2. k \notin ks => s.own["local"]["sub"][k] = Null
      BY <2>5 DEF Groups!Value
    <3> QED BY <2>2, <3>1, <3>2
  <2>8. \A k \in Keys : <<"sub", k>> \notin u.quiet
    BY <2>3, <2>7, NamesOfGroups DEF GroupsAgree, QuietAt, NoneOwnAt
  <2>9. \A k \in Keys : u.file["local"]["sub"][k] = Null
    <3> SUFFICES ASSUME NEW k \in Keys PROVE u.file["local"]["sub"][k] = Null
      OBVIOUS
    <3>1. KeptAt(s, "sub")
      BY <1>2 DEF FilesAgree, LinkedIn
    <3>2. CASE k \in ks
      <4>1. KeyChanges(s, u, "sub", k, Groups!NoValues[k])
        BY <2>3, <3>2 DEF AllChange
      <4> QED BY <2>2, <2>8, <3>1, <4>1 DEF KeyChanges, KeptAt
    <3>3. CASE k \notin ks
      <4>1. /\ <<"sub", k>> \in u.quiet <=> <<"sub", k>> \in s.quiet
            /\ u.file["local"]["sub"][k] = s.file["local"]["sub"][k]
        BY <2>3, <3>3, NamesOfGroups DEF AllChange
      <4>2. s.own["local"]["sub"][k] = Null
        BY <2>5, <3>3 DEF Groups!Value
      <4> QED BY <2>8, <3>1, <4>1, <4>2 DEF KeptAt
    <3> QED BY <3>2, <3>3
  <2>10. KeptAt(u, "main")
    <3>1. \A k \in Keys : /\ <<"main", k>> \in u.quiet <=> <<"main", k>> \in s.quiet
                          /\ u.file["local"]["main"][k] = s.file["local"]["main"][k]
                          /\ u.own["local"]["main"][k] = s.own["local"]["main"][k]
      BY <2>3, NamesOfGroups DEF AllChange
    <3> QED BY <3>1 DEF FilesAgree, KeptAt
  <2>11. FilesAgree(u)
    BY <2>6, <2>7, <2>8, <2>9, <2>10 DEF FilesAgree, KeptAt, NoneOwnAt
  <2>12. CASE Groups!Named(u, "global", "sub") = {}
    BY <2>3, <2>4, <2>6, <2>11, <2>12, GlobalGroupDeleted
  <2>13. CASE Groups!Named(u, "global", "sub") # {}
    <3>1. u \in SettingsStates
      BY <2>3 DEF GroupsAgree
    <3>2. /\ t.own = u.own /\ t.file = u.file /\ t.told = u.told
          /\ t.quiet = u.quiet /\ t.dangling = u.dangling /\ t.groupNames = u.groupNames
          /\ t.exists = {"global"} /\ t.names["main"] = u.names["main"]
          /\ t \in SettingsStates
      <4>1. t = [u EXCEPT !.exists = {"global"}, !.names["sub"] = {}]
        BY <2>4, <2>13
      <4>2. u.names \in [Groups!Groups -> SUBSET Keys]
        BY <3>1 DEF SettingsStates
      <4> DEFINE n == [u.names EXCEPT !["sub"] = {}]
      <4>3. n \in [Groups!Groups -> SUBSET Keys] /\ n["main"] = u.names["main"]
        BY <4>2, NamesOfGroups
      <4>4. t = [u EXCEPT !.exists = {"global"}, !.names = n]
        BY <4>1
      <4> HIDE DEF n
      <4>5. {"global"} \in SUBSET Groups!Storages
        BY NamesOfGroups
      <4> QED BY <3>1, <4>3, <4>4, <4>5 DEF SettingsStates
    <3>3. NamedAt(t, "main") /\ ToldAt(t, "main")
      <4>1. NamedAt(u, "main") /\ ToldAt(u, "main")
        BY <2>3, NamesOfGroups DEF GroupsAgree, LinkedIn
      <4> QED BY <3>2, <4>1 DEF NamedAt, ToldAt, Groups!Value
    <3>4. \A g \in Groups!Groups : QuietAt(t, g)
      BY <2>3, <3>2 DEF GroupsAgree, QuietAt
    <3>5. ~ LinkedIn(t, "sub") /\ NoneOwnAt(t, "sub")
      BY <2>7, <3>2 DEF LinkedIn, NoneOwnAt
    <3>6. u.groupNames = {"sub"}
      BY <1>2, <2>3, <2>6 DEF GroupsAgree
    <3>7. \A g \in Groups!Groups : LinkedIn(t, g) => NamedAt(t, g) /\ ToldAt(t, g)
      BY <3>3, <3>5 DEF Groups!Groups
    <3>8. GroupsAgree(t)
      BY <2>6, <3>2, <3>4, <3>5, <3>6, <3>7 DEF GroupsAgree
    <3>9. FilesAgree(t)
      BY <2>9, <2>10, <3>2, <3>5 DEF FilesAgree, KeptAt
    <3> QED BY <3>8, <3>9
  <2> QED BY <2>12, <2>13
<1> QED BY <1>1, <1>2

(* The values of a group read from the local file ...                       *)
LEMMA LocalFilled ==
    ASSUME NEW s, GroupsAgree(s), NEW g \in Groups!Groups, Present(g, s),
           NEW t, t = Groups!FillValues(s, "local", g)
    PROVE  /\ GroupsAgree(t) /\ (LinkedIn(s, g) => KeptAt(t, g))
           /\ t.exists = s.exists /\ t.dangling = s.dangling
           /\ \A h \in Groups!Groups : h # g => /\ KeptAt(s, h) => KeptAt(t, h)
                                                /\ t.file["local"][h] = s.file["local"][h]
<1> DEFINE vs == s.file["local"][g]
           ks == s.names[g] \cup {k \in Keys : vs[k] # Null}
<1>1. t = Groups!SetAll(s, "local", g, ks, vs)
  BY DEF Groups!FillValues, Groups!Named
<1>2. s \in SettingsStates
  BY DEF GroupsAgree
<1>3. ks \in SUBSET Keys /\ vs \in [Keys -> SettingsValues]
  BY <1>2, NamesOfGroups DEF SettingsStates, Stored
<1>4. Settable(s, "local", g)
  BY DEF Settable, Present
<1>5. GroupsAgree(t) /\ AllChange(s, t, "local", g, ks, vs)
  <2> HIDE DEF ks, vs
  <2>1. \A k \in ks : vs[k] \in SettingsValues
    BY <1>3
  <2> QED BY <1>1, <1>3, <1>4, <2>1, AllKeeps, NamesOfGroups
<1>6. LinkedIn(s, g) =>
         \A k \in Keys : k \in ks <=> Groups!Value(s, g, k) # Null \/ vs[k] # Null
  BY DEF GroupsAgree, NamedAt
<1>7. ASSUME LinkedIn(s, g) PROVE KeptAt(t, g)
  <2> SUFFICES ASSUME NEW k \in Keys, <<g, k>> \notin t.quiet
               PROVE  t.file["local"][g][k] = t.own["local"][g][k]
    BY DEF KeptAt
  <2>1. t.own["local"][g][k] = IF k \in ks THEN vs[k] ELSE s.own["local"][g][k]
    BY <1>5, NamesOfGroups DEF AllChange
  <2>2. CASE k \in ks
    <3>1. KeyChanges(s, t, g, k, vs[k])
      BY <1>5, <2>2 DEF AllChange
    <3> QED BY <2>1, <2>2, <3>1 DEF KeyChanges
  <2>3. CASE k \notin ks
    <3>1. t.file["local"][g][k] = vs[k]
      BY <1>5, <2>3 DEF AllChange
    <3>2. s.own["local"][g][k] = Null /\ vs[k] = Null
      BY <1>6, <1>7, <2>3 DEF Groups!Value
    <3> QED BY <2>1, <2>3, <3>1, <3>2
  <2> QED BY <2>2, <2>3
<1>8. ASSUME NEW h \in Groups!Groups, h # g
      PROVE  (KeptAt(s, h) => KeptAt(t, h)) /\ t.file["local"][h] = s.file["local"][h]
  <2>1. \A k \in Keys : /\ <<h, k>> \in t.quiet <=> <<h, k>> \in s.quiet
                        /\ t.file["local"][h][k] = s.file["local"][h][k]
                        /\ t.own["local"][h][k] = s.own["local"][h][k]
    BY <1>5, <1>8, NamesOfGroups DEF AllChange
  <2>2. KeptAt(s, h) => KeptAt(t, h)
    BY <2>1 DEF KeptAt
  <2>3. t.file["local"][h] \in [Keys -> SettingsValues] /\ s.file["local"][h] \in [Keys -> SettingsValues]
    BY <1>2, <1>5, NamesOfGroups DEF GroupsAgree, SettingsStates, Stored
  <2>4. t.file["local"][h] = s.file["local"][h]
    <3> DEFINE a == t.file["local"][h]
               c == s.file["local"][h]
    <3>1. \A k \in Keys : a[k] = c[k]
      BY <2>1
    <3>2. a \in [Keys -> SettingsValues] /\ c \in [Keys -> SettingsValues]
      BY <2>3
    <3> HIDE DEF a, c
    <3>3. a = c
      BY <3>1, <3>2
    <3> QED BY <3>3 DEF a, c
  <2> QED BY <2>2, <2>4
<1> QED BY <1>5, <1>7, <1>8 DEF AllChange

(* ... and from the global one.                                             *)
LEMMA GlobalFilled ==
    ASSUME NEW s, GroupsAgree(s), NEW g \in Groups!Groups, ~ s.dangling,
           NEW t, t = Groups!FillValues(s, "global", g)
    PROVE  GroupsAgree(t) /\ SameLocal(s, t) /\ t.exists = s.exists /\ ~ t.dangling
<1> DEFINE vs == s.file["global"][g]
           ks == {k \in Keys : s.own["global"][g][k] # Null} \cup {k \in Keys : vs[k] # Null}
<1>1. t = Groups!SetAll(s, "global", g, ks, vs)
  BY DEF Groups!FillValues, Groups!Named
<1>2. ks \in SUBSET Keys /\ vs \in [Keys -> SettingsValues]
  BY NamesOfGroups DEF GroupsAgree, SettingsStates, Stored
<1>3. Settable(s, "global", g)
  BY DEF Settable
<1>4. GroupsAgree(t) /\ AllChange(s, t, "global", g, ks, vs)
  <2> HIDE DEF ks, vs
  <2>1. \A k \in ks : vs[k] \in SettingsValues
    BY <1>2
  <2> QED BY <1>1, <1>2, <1>3, <2>1, AllKeeps, NamesOfGroups
<1>5. SameLocal(s, t)
  BY <1>4, NamesOfGroups DEF AllChange, SameLocal
<1> QED BY <1>4, <1>5 DEF AllChange

(* Files are read while no group is lost.                                  *)
LEMMA GlobalRead ==
    ASSUME NEW s, GroupsAgree(s), ~ s.dangling, NEW t, t = Groups!Fill(s, "global")
    PROVE  /\ GroupsAgree(t) /\ SameLocal(s, t)
           /\ "local" \in t.exists => "local" \in s.exists
           /\ FilesAgree(s) => FilesAgree(t)
<1> DEFINE a == Groups!FillValues(s, "global", "main")
           b == Groups!AddGlobalGroup(a)
<1>1. GroupsAgree(a) /\ SameLocal(s, a) /\ a.exists = s.exists /\ ~ a.dangling
  BY GlobalFilled, NamesOfGroups
<1>2. t = IF a.file["global"]["sub"] # Groups!NoValues THEN Groups!FillValues(b, "global", "sub")
          ELSE Groups!DeleteGlobalGroup(a)
  BY DEF Groups!Fill, Groups!DeleteGroup
<1> HIDE DEF a
<1>3. /\ GroupsAgree(b) /\ SameLocal(a, b) /\ ~ b.dangling
      /\ "local" \in b.exists <=> "local" \in a.exists
  BY <1>1, GlobalGroupAdded
<1> HIDE DEF b
<1>4. \A u : FilesAgree(s) /\ SameLocal(s, u) /\ ~ u.dangling
               /\ ("local" \in u.exists <=> "local" \in s.exists) => FilesAgree(u)
  <2> SUFFICES ASSUME NEW u, FilesAgree(s), SameLocal(s, u), ~ u.dangling,
                      "local" \in u.exists <=> "local" \in s.exists
               PROVE  FilesAgree(u)
    OBVIOUS
  <2>1. \A g \in Groups!Groups : KeptAt(s, g) => KeptAt(u, g)
    BY SameLocalKeeps
  <2>2. LinkedIn(u, "sub") => LinkedIn(s, "sub")
    BY DEF LinkedIn
  <2> QED BY <2>1, <2>2, NamesOfGroups DEF FilesAgree, SameLocal
<1>5. CASE a.file["global"]["sub"] # Groups!NoValues
  <2>1. t = Groups!FillValues(b, "global", "sub")
    BY <1>2, <1>5
  <2>2. GroupsAgree(t) /\ SameLocal(b, t) /\ t.exists = b.exists /\ ~ t.dangling
    BY <1>3, <2>1, GlobalFilled, NamesOfGroups
  <2>3. SameLocal(s, t)
    BY <1>1, <1>3, <2>2 DEF SameLocal
  <2> QED BY <1>1, <1>3, <1>4, <2>2, <2>3
<1>6. CASE a.file["global"]["sub"] = Groups!NoValues
  <2>1. t = Groups!DeleteGlobalGroup(a)
    BY <1>2, <1>6
  <2>2. /\ GroupsAgree(t) /\ SameLocal(a, t)
        /\ "local" \in t.exists => "local" \in a.exists
        /\ FilesAgree(a) => FilesAgree(t)
    BY <1>1, <2>1, GlobalGroupDeleted
  <2>3. SameLocal(s, t)
    BY <1>1, <2>2 DEF SameLocal
  <2> QED BY <1>1, <1>4, <2>2, <2>3
<1> QED BY <1>5, <1>6

(* The whole local file, with its group ...                                 *)
LEMMA LocalRead ==
    ASSUME NEW s, GroupsAgree(s), ~ s.dangling, "local" \in s.exists => KeptAt(s, "sub"),
           NEW t, t = Groups!Fill(s, "local")
    PROVE  GroupsAgree(t) /\ FilesAgree(t)
<1> DEFINE a == Groups!FillValues(s, "local", "main")
           b == Groups!AddLocalGroup(a)
<1>1. /\ GroupsAgree(a) /\ KeptAt(a, "main") /\ a.exists = s.exists /\ ~ a.dangling
      /\ KeptAt(s, "sub") => KeptAt(a, "sub")
  <2>1. LinkedIn(s, "main") /\ Present("main", s)
    BY DEF LinkedIn, Present
  <2> QED BY <2>1, LocalFilled, NamesOfGroups
<1>2. t = IF a.file["local"]["sub"] # Groups!NoValues THEN Groups!FillValues(b, "local", "sub")
          ELSE Groups!DeleteLocalGroup(a)
  BY DEF Groups!Fill, Groups!DeleteGroup
<1> HIDE DEF a
<1>3. GroupsAgree(b) /\ SameLocal(a, b) /\ ~ b.dangling /\ "local" \in b.exists
  BY <1>1, LocalGroupAdded
<1> HIDE DEF b
<1>4. CASE a.file["local"]["sub"] # Groups!NoValues
  <2>1. t = Groups!FillValues(b, "local", "sub")
    BY <1>2, <1>4
  <2>2. LinkedIn(b, "sub") /\ Present("sub", b)
    BY <1>3 DEF LinkedIn, Present
  <2>3. KeptAt(b, "main")
    BY <1>1, <1>3, SameLocalKeeps, NamesOfGroups
  <2>4. GroupsAgree(t) /\ KeptAt(t, "sub") /\ KeptAt(t, "main") /\ t.exists = b.exists
    BY <1>3, <2>1, <2>2, <2>3, LocalFilled, NamesOfGroups
  <2> QED BY <1>3, <2>4 DEF FilesAgree
<1>5. CASE a.file["local"]["sub"] = Groups!NoValues
  <2>1. t = Groups!DeleteLocalGroup(a)
    BY <1>2, <1>5
  <2>2. FilesAgree(a)
    BY <1>1, <1>5 DEF FilesAgree, LinkedIn, Groups!NoValues
  <2> QED BY <1>1, <2>1, <2>2, LocalGroupDeleted
<1> QED BY <1>4, <1>5

(* ... keep those of the main group as they are, ...                        *)
LEMMA SubFilled ==
    ASSUME NEW s, GroupsAgree(s), KeptAt(s, "main"), "local" \in s.exists,
           NEW t, t = Groups!FillValues(s, "local", "sub")
    PROVE  GroupsAgree(t) /\ KeptAt(t, "main") /\ t.exists = s.exists /\ t.dangling = s.dangling
<1>1. Present("sub", s)
  BY DEF Present
<1>2. "sub" \in Groups!Groups /\ "main" \in Groups!Groups
  BY NamesOfGroups
<1>3. /\ GroupsAgree(t) /\ t.exists = s.exists /\ t.dangling = s.dangling
      /\ \A h \in Groups!Groups : h # "sub" => (KeptAt(s, h) => KeptAt(t, h))
  BY <1>1, <1>2, LocalFilled
<1> QED BY <1>2, <1>3

(* ... also when the group was left over, which is filled or goes ...       *)
LEMMA LeftOverRead ==
    ASSUME NEW s, GroupsAgree(s), s.dangling, NEW t, t = Groups!Fill(s, "local")
    PROVE  GroupsAgree(t) /\ FilesAgree(t)
<1> DEFINE a == Groups!FillValues(s, "local", "main")
<1>1. GroupsAgree(a) /\ KeptAt(a, "main") /\ a.exists = s.exists /\ a.dangling = s.dangling
  <2>1. LinkedIn(s, "main") /\ Present("main", s)
    BY DEF LinkedIn, Present
  <2> QED BY <2>1, LocalFilled, NamesOfGroups
<1>2. "local" \in a.exists /\ "global" \notin a.exists /\ OwnNamed(a)
  BY <1>1 DEF GroupsAgree
<1>3. t = IF a.file["local"]["sub"] # Groups!NoValues THEN Groups!FillValues(a, "local", "sub")
          ELSE Groups!DeleteLocalGroup(a)
  <2> HIDE DEF a
  <2>1. Groups!AddLocalGroup(a) = a
    BY <1>2 DEF Groups!AddLocalGroup
  <2> QED BY <2>1 DEF Groups!Fill, Groups!DeleteGroup, a
<1> HIDE DEF a
<1>4. CASE a.file["local"]["sub"] # Groups!NoValues
  <2>1. t = Groups!FillValues(a, "local", "sub")
    BY <1>3, <1>4
  <2>2. GroupsAgree(t) /\ KeptAt(t, "main") /\ t.exists = a.exists /\ t.dangling = a.dangling
    BY <1>1, <1>2, <2>1, SubFilled
  <2> QED BY <1>1, <1>2, <2>2 DEF FilesAgree, LinkedIn
<1>5. CASE a.file["local"]["sub"] = Groups!NoValues
  <2> DEFINE ks == a.names["sub"]
             u == Groups!SetAll(a, "local", "sub", ks, Groups!NoValues)
  <2>1. ks \in SUBSET Keys
    BY <1>1, NamesOfGroups DEF GroupsAgree, SettingsStates
  <2>2. \A k \in Keys : Groups!NoValues[k] = Null /\ Groups!NoValues[k] \in SettingsValues
    BY DEF Groups!NoValues, SettingsValues
  <2>3. GroupsAgree(u) /\ AllChange(a, u, "local", "sub", ks, Groups!NoValues)
    <3>1. Settable(a, "local", "sub")
      BY <1>2 DEF Settable
    <3> HIDE DEF ks
    <3> QED BY <1>1, <2>1, <2>2, <3>1, AllKeeps, NamesOfGroups
  <2>4. t = Groups!DeleteLocalGroup(a)
    BY <1>3, <1>5
  <2>5. t = IF "global" \notin u.exists
              THEN [u EXCEPT !.exists = {}, !.names["sub"] = {}, !.groupNames = {},
                             !.dangling = FALSE]
            ELSE IF Groups!Named(u, "global", "sub") = {} THEN Groups!DeleteGlobalGroup(u)
            ELSE [u EXCEPT !.exists = {"global"}, !.names["sub"] = {}]
    BY <1>2, <2>4 DEF Groups!DeleteLocalGroup
  <2>6. \A k \in Keys : a.own["local"]["sub"][k] # Null => k \in ks
    BY <1>2 DEF OwnNamed
  <2> HIDE DEF u, ks
  <2>7. u.exists = a.exists /\ u.dangling = a.dangling /\ u \in SettingsStates
    BY <2>3 DEF AllChange, GroupsAgree
  <2>8. t = [u EXCEPT !.exists = {}, !.names["sub"] = {}, !.groupNames = {}, !.dangling = FALSE]
    BY <1>2, <2>5, <2>7
  <2>9. NoneOwnAt(u, "sub")
    <3> SUFFICES ASSUME NEW k \in Keys PROVE u.own["local"]["sub"][k] = Null
      BY DEF NoneOwnAt
    <3>1. u.own["local"]["sub"][k] = IF k \in ks THEN Groups!NoValues[k] ELSE a.own["local"]["sub"][k]
      BY <2>3, NamesOfGroups DEF AllChange
    <3> QED BY <2>2, <2>6, <3>1
  <2>10. \A k \in Keys : u.file["local"]["sub"][k] = Null
    <3> SUFFICES ASSUME NEW k \in Keys PROVE u.file["local"]["sub"][k] = Null
      OBVIOUS
    <3>1. a.file["local"]["sub"][k] = Null
      BY <1>5, <2>2
    <3>2. CASE k \in ks
      <4>1. KeyChanges(a, u, "sub", k, Groups!NoValues[k])
        BY <2>3, <3>2 DEF AllChange
      <4> QED BY <2>2, <3>1, <4>1 DEF KeyChanges
    <3>3. CASE k \notin ks
      BY <2>3, <3>1, <3>3, NamesOfGroups DEF AllChange
    <3> QED BY <3>2, <3>3
  <2>11. KeptAt(u, "main")
    <3>1. \A k \in Keys : /\ <<"main", k>> \in u.quiet <=> <<"main", k>> \in a.quiet
                          /\ u.file["local"]["main"][k] = a.file["local"]["main"][k]
                          /\ u.own["local"]["main"][k] = a.own["local"]["main"][k]
      BY <2>3, NamesOfGroups DEF AllChange
    <3> QED BY <1>1, <3>1 DEF KeptAt
  <2>12. /\ t.own = u.own /\ t.file = u.file /\ t.told = u.told /\ t.quiet = u.quiet
         /\ ~ t.dangling /\ t.groupNames = {} /\ t.exists = {}
         /\ t.names["main"] = u.names["main"] /\ t \in SettingsStates
    <3>1. u.names \in [Groups!Groups -> SUBSET Keys]
      BY <2>7 DEF SettingsStates
    <3> DEFINE n == [u.names EXCEPT !["sub"] = {}]
    <3>2. n \in [Groups!Groups -> SUBSET Keys] /\ n["main"] = u.names["main"]
      BY <3>1, NamesOfGroups
    <3>3. t = [u EXCEPT !.exists = {}, !.names = n, !.groupNames = {}, !.dangling = FALSE]
      BY <2>8
    <3> HIDE DEF n
    <3> QED BY <2>7, <3>2, <3>3 DEF SettingsStates
  <2>13. NamedAt(t, "main") /\ ToldAt(t, "main")
    <3>1. NamedAt(u, "main") /\ ToldAt(u, "main")
      BY <2>3, NamesOfGroups DEF GroupsAgree, LinkedIn
    <3> QED BY <2>12, <3>1 DEF NamedAt, ToldAt, Groups!Value
  <2>14. \A g \in Groups!Groups : QuietAt(t, g)
    BY <2>3, <2>12 DEF GroupsAgree, QuietAt
  <2>15. ~ LinkedIn(t, "sub") /\ NoneOwnAt(t, "sub")
    BY <2>9, <2>12 DEF LinkedIn, NoneOwnAt
  <2>16. \A g \in Groups!Groups : LinkedIn(t, g) => NamedAt(t, g) /\ ToldAt(t, g)
    BY <2>13, <2>15 DEF Groups!Groups
  <2>17. GroupsAgree(t)
    BY <2>12, <2>14, <2>15, <2>16 DEF GroupsAgree
  <2>18. FilesAgree(t)
    BY <2>10, <2>11, <2>12, <2>15 DEF FilesAgree, KeptAt
  <2> QED BY <2>17, <2>18
<1> QED BY <1>4, <1>5

(* ... and both files.                                                      *)
LEMMA SettingsRead ==
    ASSUME NEW s, GroupsAgree(s), ~ s.dangling, "local" \in s.exists => FilesAgree(s),
           NEW t, t = Groups!ReadSettings(s)
    PROVE  GroupsAgree(t) /\ FilesAgree(t)
<1> DEFINE u == Groups!Fill(s, "global")
<1>1. /\ GroupsAgree(u) /\ SameLocal(s, u)
      /\ "local" \in u.exists => "local" \in s.exists
      /\ FilesAgree(s) => FilesAgree(u)
  BY GlobalRead
<1>2. t = Groups!Fill(u, "local")
  BY DEF Groups!ReadSettings
<1> HIDE DEF u
<1>3. CASE u.dangling
  BY <1>1, <1>2, <1>3, LeftOverRead
<1>4. CASE ~ u.dangling
  <2>2. "local" \in u.exists => KeptAt(u, "sub")
    BY <1>1, <1>4 DEF FilesAgree, LinkedIn
  <2> QED BY <1>1, <1>2, <1>4, <2>2, LocalRead
<1> QED BY <1>3, <1>4

(* Settings agree after a start, whatever the files had.                    *)
LEMMA FreshAgrees ==
    ASSUME NEW file \in Stored, NEW t, t = Groups!ReadSettings(Groups!Fresh(file))
    PROVE  GroupsAgree(t) /\ FilesAgree(t)
<1> DEFINE s == Groups!Fresh(file)
<1>1. s = [own |-> Groups!Empty, names |-> [g \in Groups!Groups |-> {}], exists |-> {}, groupNames |-> {},
           file |-> file, told |-> Groups!Empty["local"], quiet |-> {}, dangling |-> FALSE]
  BY DEF Groups!Fresh
<1>2. /\ Groups!Empty \in Stored /\ Groups!Empty["local"] \in SaidValues
      /\ \A x \in Groups!Storages, g \in Groups!Groups, k \in Keys : Groups!Empty[x][g][k] = Null
  BY NamesOfGroups DEF Groups!Empty, Groups!NoValues, Stored, SaidValues, SettingsValues
<1>3. s \in SettingsStates
  BY <1>1, <1>2 DEF SettingsStates
<1>4. \A g \in Groups!Groups : QuietAt(s, g) /\ NamedAt(s, g) /\ ToldAt(s, g) /\ NoneOwnAt(s, g)
  BY <1>1, <1>2, NamesOfGroups DEF QuietAt, NamedAt, ToldAt, NoneOwnAt, Groups!Value
<1>5. s.exists = {} /\ s.groupNames = {} /\ ~ s.dangling
  BY <1>1
<1> HIDE DEF s
<1>6. GroupsAgree(s)
  BY <1>3, <1>4, <1>5, NamesOfGroups DEF GroupsAgree
<1>7. t = Groups!ReadSettings(s)
  BY DEF s
<1> QED BY <1>5, <1>6, <1>7, SettingsRead

(* The inductive invariant of the settings.                                *)
SettingsInv == GroupsAgree(settings) /\ FilesAgree(settings)

(* Storages without values.                                                 *)
LEMMA EmptyIsStored == Groups!Empty \in Stored
BY DEF Groups!Empty, Groups!NoValues, Stored, SettingsValues

(* The first start.                                                         *)
LEMMA SettingsStart == Groups!Init => SettingsInv
BY EmptyIsStored, FreshAgrees DEF Groups!Init, SettingsInv

(* Values that are set leave the files right.                              *)
LEMMA AllKeepFiles ==
    ASSUME NEW s, GroupsAgree(s), FilesAgree(s), NEW x \in Groups!Storages, NEW g \in Groups!Groups,
           Settable(s, x, g), NEW ks \in SUBSET Keys, NEW vs, \A k \in ks : vs[k] \in SettingsValues,
           x = "local" => LinkedIn(s, g),
           NEW t, t = Groups!SetAll(s, x, g, ks, vs)
    PROVE  GroupsAgree(t) /\ FilesAgree(t)
<1>1. GroupsAgree(t) /\ AllChange(s, t, x, g, ks, vs)
  BY AllKeeps
<1>2. t.exists = s.exists /\ (LinkedIn(t, "sub") <=> LinkedIn(s, "sub"))
  BY <1>1 DEF AllChange, LinkedIn
<1>3. CASE x = "global"
  <2>1. SameLocal(s, t)
    BY <1>1, <1>3, NamesOfGroups DEF AllChange, SameLocal
  <2>2. \A h \in Groups!Groups : KeptAt(s, h) => KeptAt(t, h)
    BY <2>1, SameLocalKeeps
  <2> QED BY <1>1, <1>2, <2>1, <2>2, NamesOfGroups DEF FilesAgree, SameLocal
<1>4. CASE x = "local"
  <2>1. ASSUME NEW h \in Groups!Groups, KeptAt(s, h) PROVE KeptAt(t, h)
    <3> SUFFICES ASSUME NEW k \in Keys, <<h, k>> \notin t.quiet
                 PROVE  t.file["local"][h][k] = t.own["local"][h][k]
      BY DEF KeptAt
    <3>1. t.own["local"][h][k] = IF h = g /\ k \in ks THEN vs[k] ELSE s.own["local"][h][k]
      BY <1>1, <1>4, NamesOfGroups DEF AllChange
    <3>2. CASE h = g /\ k \in ks
      <4>1. KeyChanges(s, t, g, k, vs[k])
        BY <1>1, <1>4, <3>2 DEF AllChange
      <4> QED BY <2>1, <3>1, <3>2, <4>1 DEF KeyChanges, KeptAt
    <3>3. CASE ~ (h = g /\ k \in ks)
      <4>1. /\ <<h, k>> \in t.quiet <=> <<h, k>> \in s.quiet
            /\ t.file["local"][h][k] = s.file["local"][h][k]
        BY <1>1, <3>3 DEF AllChange
      <4> QED BY <2>1, <3>1, <3>3, <4>1 DEF KeptAt
    <3> QED BY <3>2, <3>3
  <2>2. ASSUME "local" \notin t.exists, NEW k \in Keys PROVE t.file["local"]["sub"][k] = Null
    <3>1. g # "sub"
      BY <1>2, <1>4, <2>2 DEF LinkedIn
    <3>2. t.file["local"]["sub"][k] = s.file["local"]["sub"][k]
      BY <1>1, <3>1, NamesOfGroups DEF AllChange
    <3> QED BY <1>2, <2>2, <3>2 DEF FilesAgree
  <2> QED BY <1>1, <1>2, <2>1, <2>2, NamesOfGroups DEF FilesAgree
<1> QED BY <1>3, <1>4 DEF Groups!Storages

(* Values that are set leave the files right.                               *)
LEMMA SetKeepsFiles ==
    ASSUME NEW s, GroupsAgree(s), FilesAgree(s), NEW x \in Groups!Storages, NEW g \in Groups!Groups,
           NEW k \in Keys, NEW v \in SettingsValues, LinkedIn(s, g),
           NEW t, t = Groups!Set(s, x, g, k, v)
    PROVE  GroupsAgree(t) /\ FilesAgree(t)
<1>1. Settable(s, x, g)
  BY DEF Settable, LinkedIn
<1>2. GroupsAgree(t) /\ OnlyChanges(s, t, x, g, k, v)
  BY <1>1, SetKeeps
<1>3. t.exists = s.exists /\ (LinkedIn(t, "sub") <=> LinkedIn(s, "sub"))
  BY <1>2 DEF OnlyChanges, LinkedIn
<1>4. ASSUME NEW h \in Groups!Groups, KeptAt(s, h) PROVE KeptAt(t, h)
  <2> SUFFICES ASSUME NEW l \in Keys, <<h, l>> \notin t.quiet
               PROVE  t.file["local"][h][l] = t.own["local"][h][l]
    BY DEF KeptAt
  <2>1. t.own["local"][h][l] = IF x = "local" /\ h = g /\ l = k THEN v ELSE s.own["local"][h][l]
    BY <1>2, NamesOfGroups DEF OnlyChanges
  <2>2. CASE x = "global"
    <3>1. t.quiet = s.quiet /\ t.file["local"] = s.file["local"]
      BY <1>2, <2>2 DEF OnlyChanges
    <3> QED BY <1>4, <2>1, <2>2, <3>1 DEF KeptAt
  <2>3. CASE x = "local" /\ h = g /\ l = k
    <3>1. \/ t = s
          \/ <<g, k>> \in t.quiet
          \/ <<g, k>> \notin t.quiet /\ t.file["local"][g][k] = v
      BY <1>2, <2>3 DEF OnlyChanges
    <3> QED BY <1>4, <2>1, <2>3, <3>1 DEF KeptAt
  <2>4. CASE x = "local" /\ ~ (h = g /\ l = k)
    <3>1. /\ <<h, l>> \in t.quiet <=> <<h, l>> \in s.quiet
          /\ t.file["local"][h][l] = s.file["local"][h][l]
      BY <1>2, <2>4 DEF OnlyChanges
    <3> QED BY <1>4, <2>1, <2>4, <3>1 DEF KeptAt
  <2> QED BY <2>2, <2>3, <2>4 DEF Groups!Storages
<1>5. ASSUME "local" \notin t.exists, NEW l \in Keys PROVE t.file["local"]["sub"][l] = Null
  <2>1. g # "sub"
    BY <1>3, <1>5 DEF LinkedIn
  <2>2. t.file["local"]["sub"][l] = s.file["local"]["sub"][l]
    BY <1>2, <2>1, NamesOfGroups DEF OnlyChanges
  <2> QED BY <1>3, <1>5, <2>2 DEF FilesAgree
<1> QED BY <1>2, <1>3, <1>4, <1>5, NamesOfGroups DEF FilesAgree

(* Every step of the settings keeps SettingsInv: one step of the proof per action. *)
LEMMA SettingsSteps == SettingsInv /\ [Groups!Next]_settings => SettingsInv'
<1> SUFFICES ASSUME SettingsInv, [Groups!Next]_settings PROVE SettingsInv'
  OBVIOUS
<1> DEFINE s == settings
<1>1. GroupsAgree(s) /\ FilesAgree(s) /\ s \in SettingsStates
  BY DEF SettingsInv, GroupsAgree
<1> SUFFICES ASSUME NEW t, t = settings' PROVE GroupsAgree(t) /\ FilesAgree(t)
  BY DEF SettingsInv
<1>2. \A g \in Groups!Groups : Groups!Usable(g) <=> LinkedIn(s, g)
  BY DEF Groups!Usable, LinkedIn
<1>3. Values \subseteq SettingsValues /\ Null \in SettingsValues
  BY DEF SettingsValues
<1>4. CASE Groups!SetValue
  <2>1. PICK x \in Groups!Storages, g \in Groups!Groups, k \in Keys, v \in SettingsValues :
           Groups!Usable(g) /\ settings' = Groups!Set(settings, x, g, k, v)
    BY <1>4 DEF Groups!SetValue, SettingsValues
  <2> QED BY <1>1, <1>2, <2>1, SetKeepsFiles
<1>5. CASE Groups!ValueOrDefault
  <2>1. PICK x \in Groups!Storages, g \in Groups!Groups, k \in Keys, v \in Values :
           Groups!Usable(g) /\ settings' = Groups!Set(settings, x, g, k, v)
    BY <1>5 DEF Groups!ValueOrDefault
  <2> QED BY <1>1, <1>2, <1>3, <2>1, SetKeepsFiles
<1>6. CASE Groups!Group
  BY <1>1, <1>6, LocalGroupAdded DEF Groups!Group
<1>7. CASE Groups!RemoveGroup
  <2>1. ~ s.dangling
    BY <1>7 DEF Groups!RemoveGroup
  <2>2. t = Groups!DeleteLocalGroup(s) \/ t = Groups!DeleteGlobalGroup(s)
    BY <1>7 DEF Groups!RemoveGroup, Groups!DeleteGroup
  <2> QED BY <1>1, <2>1, <2>2, LocalGroupDeleted, GlobalGroupDeleted
<1>8. CASE Groups!CopyTo
  <2> DEFINE ks == s.names["sub"]
             vs == [k \in Keys |-> Groups!Value(s, "sub", k)]
  <2>1. t = Groups!SetAll(s, "local", "main", ks, vs)
    BY <1>8 DEF Groups!CopyTo
  <2>2. ks \in SUBSET Keys
    BY <1>1, NamesOfGroups DEF SettingsStates
  <2>3. \A k \in ks : vs[k] \in SettingsValues
    BY <1>1, <2>2, NamesOfGroups DEF SettingsStates, Stored, Groups!Value
  <2>4. Settable(s, "local", "main") /\ LinkedIn(s, "main")
    BY DEF Settable, LinkedIn
  <2> HIDE DEF ks, vs
  <2> QED BY <1>1, <2>1, <2>2, <2>3, <2>4, AllKeepFiles, NamesOfGroups
<1>9. CASE Groups!Sync
  BY <1>1, <1>9, SettingsRead DEF Groups!Sync
<1>10. CASE Groups!Restart
  <2>1. t = Groups!ReadSettings(Groups!Fresh(s.file)) /\ s.file \in Stored
    BY <1>1, <1>10 DEF Groups!Restart, SettingsStates
  <2> QED BY <2>1, FreshAgrees
<1>11. CASE Groups!OtherApplication
  <2>1. PICK g \in Groups!Groups, k \in Keys, v \in SettingsValues :
           settings' = [settings EXCEPT !.file["global"][g][k] = v]
    BY <1>11 DEF Groups!OtherApplication, SettingsValues
  <2>2. t = [s EXCEPT !.file = Changed(s.file, "global", g, k, v)]
    BY <1>1, <2>1 DEF Changed, SettingsStates
  <2>3. s.file \in Stored
    BY <1>1 DEF SettingsStates
  <2>4. /\ Changed(s.file, "global", g, k, v) \in Stored
        /\ Changed(s.file, "global", g, k, v)["local"] = s.file["local"]
    BY <2>3, ChangedIs, ChangedElsewhere, NamesOfGroups
  <2>5. /\ t.own = s.own /\ t.names = s.names /\ t.exists = s.exists /\ t.groupNames = s.groupNames
        /\ t.told = s.told /\ t.quiet = s.quiet /\ t.dangling = s.dangling
        /\ t.file["local"] = s.file["local"] /\ t \in SettingsStates
    BY <1>1, <2>2, <2>4 DEF SettingsStates
  <2>6. GroupsAgree(t)
    BY <1>1, <2>5
    DEF GroupsAgree, QuietAt, LinkedIn, NamedAt, ToldAt, NoneOwnAt, OwnNamed, Groups!Value
  <2>7. FilesAgree(t)
    BY <1>1, <2>5 DEF FilesAgree, KeptAt, LinkedIn
  <2> QED BY <2>6, <2>7
<1>12. CASE UNCHANGED settings
  BY <1>1, <1>12
<1> QED
  BY <1>4, <1>5, <1>6, <1>7, <1>8, <1>9, <1>10, <1>11, <1>12 DEF Groups!Next

(* Settings and their groups keep files, names and listeners together      *)
(* (settings.cpp, settingsgroup.cpp), whatever their keys and values.      *)
THEOREM SettingsAlwaysAgree == ServicesSpec => []SettingsAgree
<1> DEFINE Inv == part = "settings" => SettingsInv
<1>1. ServicesInit => Inv
  BY SettingsStart DEF ServicesInit
<1>2. Inv /\ [ServicesNext]_servicesVars => Inv'
  <2> SUFFICES ASSUME Inv, [ServicesNext]_servicesVars, part' = "settings" PROVE SettingsInv'
    OBVIOUS
  <2>1. part = "settings" /\ [Groups!Next]_settings
    BY StepsOfServices
  <2> QED BY <2>1, SettingsSteps
<1>3. Inv => SettingsAgree
  <2> SUFFICES ASSUME SettingsInv PROVE Groups!NamesAreExact /\ Groups!AnnouncedValuesAreKept
    BY DEF SettingsAgree
  <2>1. \A g \in Groups!Groups : Groups!Linked(g) <=> LinkedIn(settings, g)
    BY DEF Groups!Linked, LinkedIn
  <2>2. Groups!NamesAreExact
    BY <2>1 DEF SettingsInv, GroupsAgree, NamedAt, Groups!NamesAreExact
  <2>3. \A g \in Groups!Groups : Groups!Linked(g) => KeptAt(settings, g) /\ ToldAt(settings, g)
    BY <2>1 DEF SettingsInv, GroupsAgree, FilesAgree, Groups!Groups
  <2>4. Groups!AnnouncedValuesAreKept
    BY <2>3 DEF KeptAt, ToldAt, Groups!AnnouncedValuesAreKept
  <2> QED BY <2>2, <2>4
<1> QED
  BY <1>1, <1>2, <1>3, PTL DEF ServicesSpec
=============================================================================
