---------------------------- MODULE DocumentProofs ----------------------------
(***************************************************************************)
(* What an update can change, for any actions and any item: the copy that  *)
(* applyUpdate works on stays a tree, and a place that no path of the      *)
(* update leads to keeps what it has, although containers are shared.      *)
(*                                                                         *)
(* And what a projection shows: the nodes that its paths lead to, each     *)
(* list element behind those of its list that are shown (Shows, Ranked).   *)
(* The next path leaves what is shown at one step (Leaves), which is where *)
(* merging moves its elements to the end (MergeShows).                     *)
(***************************************************************************)
EXTENDS Documents, KeyProofs, FiniteSetTheorems

-----------------------------------------------------------------------------
(* Paths, position by position                                             *)

LEMMA PathFacts ==
    ASSUME NEW p \in Paths
    PROVE  /\ Len(p) \in Nat
           /\ p \in [1..Len(p) -> Steps]
           /\ \A i \in 1..Len(p) : p[i] \in Steps
           /\ p = Here <=> Len(p) = 0
<1>1. Len(p) \in Nat /\ p \in [1..Len(p) -> Steps]
  BY LenProperties DEF Paths
<1>2. p = Here <=> Len(p) = 0
  BY EmptySeq, <1>1 DEF Paths, Here
<1> QED BY <1>1, <1>2

LEMMA SamePath ==
    ASSUME NEW p \in Paths, NEW q \in Paths, Len(p) = Len(q), \A i \in 1..Len(p) : p[i] = q[i]
    PROVE  p = q
BY SeqEqual DEF Paths

LEMMA PrefixFacts ==
    ASSUME NEW p \in Paths, NEW n \in 0..Len(p)
    PROVE  /\ Prefix(p, n) \in Paths
           /\ Len(Prefix(p, n)) = n
           /\ \A i \in 1..n : Prefix(p, n)[i] = p[i]
<1>1. n \in Int /\ n >= 0 /\ n <= Len(p) /\ \A i \in 1..n : p[i] \in Steps
  BY PathFacts
<1>2. /\ SubSeq(p, 1, n) \in Seq(Steps)
      /\ Len(SubSeq(p, 1, n)) = IF 1 <= n THEN n - 1 + 1 ELSE 0
      /\ \A i \in 1..(n - 1 + 1) : SubSeq(p, 1, n)[i] = p[1 + i - 1]
  BY <1>1, SubSeqProperties
<1>3. Len(SubSeq(p, 1, n)) = n
  BY <1>1, <1>2
<1>4. ASSUME NEW i \in 1..n PROVE SubSeq(p, 1, n)[i] = p[i]
  BY <1>1, <1>2
<1> QED BY <1>2, <1>3, <1>4 DEF Prefix, Paths

LEMMA SuffixFacts ==
    ASSUME NEW p \in Paths, NEW n \in 0..Len(p)
    PROVE  /\ SubSeq(p, n + 1, Len(p)) \in Paths
           /\ Len(SubSeq(p, n + 1, Len(p))) = Len(p) - n
           /\ \A i \in 1..(Len(p) - n) : SubSeq(p, n + 1, Len(p))[i] = p[n + i]
<1>1. n \in Int /\ n >= 0 /\ n <= Len(p) /\ Len(p) \in Nat /\ \A i \in 1..Len(p) : p[i] \in Steps
  BY PathFacts
<1>2. /\ SubSeq(p, n + 1, Len(p)) \in Seq(Steps)
      /\ Len(SubSeq(p, n + 1, Len(p))) = IF n + 1 <= Len(p) THEN Len(p) - (n + 1) + 1 ELSE 0
      /\ \A i \in 1..(Len(p) - (n + 1) + 1) : SubSeq(p, n + 1, Len(p))[i] = p[n + 1 + i - 1]
  <2>1. \A i \in (n + 1)..Len(p) : p[i] \in Steps
    BY <1>1
  <2> QED BY <1>1, <2>1, SubSeqProperties
<1>3. Len(SubSeq(p, n + 1, Len(p))) = Len(p) - n
  BY <1>1, <1>2
<1>4. ASSUME NEW i \in 1..(Len(p) - n) PROVE SubSeq(p, n + 1, Len(p))[i] = p[n + i]
  <2>1. i \in 1..(Len(p) - (n + 1) + 1) /\ n + 1 + i - 1 = n + i
    BY <1>1
  <2> QED BY <1>2, <2>1
<1> QED BY <1>2, <1>3, <1>4 DEF Paths

LEMMA JoinFacts ==
    ASSUME NEW p \in Paths, NEW q \in Paths
    PROVE  /\ p \o q \in Paths
           /\ Len(p \o q) = Len(p) + Len(q)
           /\ \A i \in 1..Len(p) : (p \o q)[i] = p[i]
           /\ \A i \in 1..Len(q) : (p \o q)[Len(p) + i] = q[i]
<1>1. Len(p) \in Nat /\ Len(q) \in Nat
  BY PathFacts
<1>2. /\ p \o q \in Seq(Steps)
      /\ Len(p \o q) = Len(p) + Len(q)
      /\ \A i \in 1..(Len(p) + Len(q)) :
            (p \o q)[i] = IF i <= Len(p) THEN p[i] ELSE q[i - Len(p)]
  BY ConcatProperties DEF Paths
<1>3. ASSUME NEW i \in 1..Len(p) PROVE (p \o q)[i] = p[i]
  BY <1>1, <1>2
<1>4. ASSUME NEW i \in 1..Len(q) PROVE (p \o q)[Len(p) + i] = q[i]
  <2>1. Len(p) + i \in 1..(Len(p) + Len(q)) /\ ~(Len(p) + i <= Len(p)) /\ Len(p) + i - Len(p) = i
    BY <1>1
  <2> QED BY <1>2, <2>1
<1> QED BY <1>2, <1>3, <1>4 DEF Paths

LEMMA StepFacts ==
    ASSUME NEW p \in Paths, NEW e \in Steps
    PROVE  /\ Append(p, e) \in Paths
           /\ Len(Append(p, e)) = Len(p) + 1
           /\ \A i \in 1..Len(p) : Append(p, e)[i] = p[i]
           /\ Append(p, e)[Len(p) + 1] = e
BY DEF Paths

LEMMA LeadsPointwise ==
    ASSUME NEW p \in Paths, NEW q \in Paths
    PROVE  IsPrefix(p, q) <=> Len(p) <= Len(q) /\ \A i \in 1..Len(p) : q[i] = p[i]
<1>0. Len(p) \in Nat /\ Len(q) \in Nat
  BY PathFacts
<1>1. CASE ~(Len(p) <= Len(q))
  BY <1>1 DEF IsPrefix
<1>2. CASE Len(p) <= Len(q)
  <2>1. Len(p) \in 0..Len(p) /\ Len(p) \in 0..Len(q)
    BY <1>0, <1>2
  <2>2. /\ Prefix(p, Len(p)) \in Paths /\ Len(Prefix(p, Len(p))) = Len(p)
        /\ \A i \in 1..Len(p) : Prefix(p, Len(p))[i] = p[i]
    BY <2>1, PrefixFacts
  <2>3. /\ Prefix(q, Len(p)) \in Paths /\ Len(Prefix(q, Len(p))) = Len(p)
        /\ \A i \in 1..Len(p) : Prefix(q, Len(p))[i] = q[i]
    BY <2>1, PrefixFacts
  <2>4. Prefix(p, Len(p)) = Prefix(q, Len(p)) <=> \A i \in 1..Len(p) : q[i] = p[i]
    BY <2>2, <2>3, SamePath
  <2> QED BY <1>2, <2>4 DEF IsPrefix, Prefix
<1> QED BY <1>1, <1>2

(* A path is its beginning and the rest.                                   *)
LEMMA Rejoined ==
    ASSUME NEW p \in Paths, NEW q \in Paths, IsPrefix(p, q)
    PROVE  /\ SubSeq(q, Len(p) + 1, Len(q)) \in Paths
           /\ q = p \o SubSeq(q, Len(p) + 1, Len(q))
<1>1. Len(p) \in 0..Len(q) /\ Len(p) \in Nat /\ Len(q) \in Nat
  BY PathFacts, LeadsPointwise
<1> DEFINE t == SubSeq(q, Len(p) + 1, Len(q))
<1>2. /\ t \in Paths /\ Len(t) = Len(q) - Len(p)
      /\ \A i \in 1..(Len(q) - Len(p)) : t[i] = q[Len(p) + i]
  BY <1>1, SuffixFacts
<1> HIDE DEF t
<1>3. /\ p \o t \in Paths /\ Len(p \o t) = Len(p) + Len(t)
      /\ \A i \in 1..Len(p) : (p \o t)[i] = p[i]
      /\ \A i \in 1..Len(t) : (p \o t)[Len(p) + i] = t[i]
  BY <1>2, JoinFacts
<1>4. ASSUME NEW i \in 1..Len(q) PROVE q[i] = (p \o t)[i]
  <2>1. CASE i <= Len(p)
    BY <1>1, <1>3, <2>1, LeadsPointwise
  <2>2. CASE ~(i <= Len(p))
    <3>1. i - Len(p) \in 1..Len(t) /\ Len(p) + (i - Len(p)) = i
      BY <1>1, <1>2, <2>2
    <3>2. (p \o t)[i] = t[i - Len(p)] /\ t[i - Len(p)] = q[i]
      BY <1>2, <1>3, <3>1
    <3> QED BY <3>2
  <2> QED BY <2>1, <2>2
<1>5. Len(q) = Len(p \o t)
  BY <1>1, <1>2, <1>3
<1>6. q = p \o t
  BY <1>3, <1>4, <1>5, SamePath
<1> QED BY <1>2, <1>6 DEF t

LEMMA JoinLeads ==
    ASSUME NEW p \in Paths, NEW q \in Paths
    PROVE  IsPrefix(p, p \o q) /\ SubSeq(p \o q, Len(p) + 1, Len(p \o q)) = q
<1>1. Len(p) \in Nat /\ Len(q) \in Nat
  BY PathFacts
<1>2. IsPrefix(p, p \o q)
  <2>1. /\ p \o q \in Paths /\ Len(p \o q) = Len(p) + Len(q)
        /\ \A i \in 1..Len(p) : (p \o q)[i] = p[i]
    BY JoinFacts
  <2>2. Len(p) <= Len(p \o q)
    BY <1>1, <2>1
  <2> QED BY <2>1, <2>2, LeadsPointwise
<1> DEFINE t == SubSeq(p \o q, Len(p) + 1, Len(p \o q))
<1>3. /\ t \in Paths /\ Len(t) = Len(p \o q) - Len(p)
      /\ \A i \in 1..(Len(p \o q) - Len(p)) : t[i] = (p \o q)[Len(p) + i]
  <2>1. Len(p) \in 0..Len(p \o q)
    BY <1>1, JoinFacts
  <2> QED BY <2>1, JoinFacts, SuffixFacts
<1> HIDE DEF t
<1>4. Len(t) = Len(q) /\ \A i \in 1..Len(t) : t[i] = q[i]
  <2>1. Len(t) = Len(q)
    BY <1>1, <1>3, JoinFacts
  <2>2. ASSUME NEW i \in 1..Len(t) PROVE t[i] = q[i]
    <3>1. i \in 1..(Len(p \o q) - Len(p)) /\ i \in 1..Len(q)
      BY <1>3, <2>1
    <3> QED BY <1>3, <3>1, JoinFacts
  <2> QED BY <2>1, <2>2
<1>5. t = q
  BY <1>3, <1>4, SamePath
<1> QED BY <1>2, <1>5 DEF t

LEMMA FrontFacts ==
    ASSUME NEW p \in Paths, p # Here
    PROVE  /\ Len(p) \in Nat \ {0}
           /\ Front(p) \in Paths /\ Len(Front(p)) = Len(p) - 1
           /\ \A i \in 1..(Len(p) - 1) : Front(p)[i] = p[i]
           /\ Last(p) \in Steps /\ p = Append(Front(p), Last(p))
           /\ Front(p) = Prefix(p, Len(p) - 1)
<1>1. Len(p) \in Nat \ {0} /\ Len(p) - 1 \in 0..Len(p)
  BY PathFacts
<1>2. Front(p) = Prefix(p, Len(p) - 1)
  BY DEF Front, Prefix
<1>3. /\ Front(p) \in Paths /\ Len(Front(p)) = Len(p) - 1
      /\ \A i \in 1..(Len(p) - 1) : Front(p)[i] = p[i]
  BY <1>1, <1>2, PrefixFacts
<1>4. Last(p) \in Steps
  BY <1>1, PathFacts DEF Last
<1>5. /\ Append(Front(p), Last(p)) \in Paths
      /\ Len(Append(Front(p), Last(p))) = Len(p) - 1 + 1
      /\ \A i \in 1..(Len(p) - 1) : Append(Front(p), Last(p))[i] = Front(p)[i]
      /\ Append(Front(p), Last(p))[Len(p) - 1 + 1] = Last(p)
  BY <1>3, <1>4, StepFacts
<1>6. ASSUME NEW i \in 1..Len(p) PROVE p[i] = Append(Front(p), Last(p))[i]
  <2>1. CASE i = Len(p)
    BY <1>1, <1>5, <2>1 DEF Last
  <2>2. CASE i # Len(p)
    <3>1. i \in 1..(Len(p) - 1)
      BY <1>1, <2>2
    <3> QED BY <1>3, <1>5, <3>1
  <2> QED BY <2>1, <2>2
<1>7. p = Append(Front(p), Last(p))
  <2>1. Len(p) = Len(Append(Front(p), Last(p)))
    BY <1>1, <1>5
  <2> QED BY <1>5, <1>6, <2>1, SamePath
<1> QED BY <1>1, <1>2, <1>3, <1>4, <1>7

LEMMA FrontOfStep ==
    ASSUME NEW p \in Paths, NEW e \in Steps
    PROVE  Front(Append(p, e)) = p /\ Last(Append(p, e)) = e
<1>1. /\ Append(p, e) \in Paths /\ Len(Append(p, e)) = Len(p) + 1
      /\ \A i \in 1..Len(p) : Append(p, e)[i] = p[i]
      /\ Append(p, e)[Len(p) + 1] = e
  BY StepFacts
<1>2. Len(p) \in Nat
  BY PathFacts
<1>3. PICK q \in Paths : q = Append(p, e)
  BY <1>1
<1>4. q # Here
  <2>1. Len(q) # 0
    BY <1>1, <1>2, <1>3
  <2> QED BY <2>1, PathFacts
<1>5. /\ Front(q) \in Paths /\ Len(Front(q)) = Len(q) - 1
      /\ \A i \in 1..(Len(q) - 1) : Front(q)[i] = q[i]
  BY <1>4, FrontFacts
<1>6. Len(Front(q)) = Len(p) /\ \A i \in 1..Len(Front(q)) : Front(q)[i] = p[i]
  BY <1>1, <1>2, <1>3, <1>5
<1>7. Front(q) = p
  BY <1>5, <1>6, SamePath
<1>8. Last(q) = e
  BY <1>1, <1>3 DEF Last
<1> QED BY <1>3, <1>7, <1>8

LEMMA FrontOfJoin ==
    ASSUME NEW p \in Paths, NEW q \in Paths, q # Here
    PROVE  p \o q # Here /\ Front(p \o q) = p \o Front(q)
<1>1. /\ Len(p) \in Nat /\ Len(q) \in Nat \ {0} /\ Front(q) \in Paths /\ Len(Front(q)) = Len(q) - 1
      /\ \A i \in 1..(Len(q) - 1) : Front(q)[i] = q[i]
  BY FrontFacts, PathFacts
<1>2. PICK w \in Paths :
        /\ w = p \o q /\ Len(w) = Len(p) + Len(q)
        /\ \A i \in 1..Len(p) : w[i] = p[i]
        /\ \A i \in 1..Len(q) : w[Len(p) + i] = q[i]
  BY JoinFacts
<1>3. PICK r \in Paths :
        /\ r = p \o Front(q) /\ Len(r) = Len(p) + Len(Front(q))
        /\ \A i \in 1..Len(p) : r[i] = p[i]
        /\ \A i \in 1..Len(Front(q)) : r[Len(p) + i] = Front(q)[i]
  BY <1>1, JoinFacts
<1>4. w # Here
  <2>1. Len(w) # 0
    BY <1>1, <1>2
  <2> QED BY <2>1, PathFacts
<1>5. /\ Front(w) \in Paths /\ Len(Front(w)) = Len(w) - 1
      /\ \A i \in 1..(Len(w) - 1) : Front(w)[i] = w[i]
  BY <1>4, FrontFacts
<1>6. Len(r) = Len(Front(w))
  BY <1>1, <1>2, <1>3, <1>5
<1>7. ASSUME NEW i \in 1..Len(r) PROVE r[i] = Front(w)[i]
  <2>1. i \in 1..(Len(w) - 1) /\ Front(w)[i] = w[i]
    BY <1>5, <1>6
  <2>2. CASE i <= Len(p)
    BY <1>1, <1>2, <1>3, <2>1, <2>2
  <2>3. CASE ~(i <= Len(p))
    <3>1. i - Len(p) \in 1..Len(Front(q)) /\ i - Len(p) \in 1..(Len(q) - 1)
          /\ i - Len(p) \in 1..Len(q) /\ Len(p) + (i - Len(p)) = i
      BY <1>1, <1>3, <2>3
    <3>2. r[i] = Front(q)[i - Len(p)] /\ w[i] = q[i - Len(p)]
      BY <1>2, <1>3, <3>1
    <3> QED BY <1>1, <2>1, <3>1, <3>2
  <2> QED BY <2>2, <2>3
<1>8. r = Front(w)
  BY <1>3, <1>5, <1>6, <1>7, SamePath
<1> QED BY <1>2, <1>3, <1>4, <1>8

LEMMA LeadsOn ==
    ASSUME NEW p \in Paths, NEW q \in Paths, NEW r \in Paths, IsPrefix(p, q), IsPrefix(q, r)
    PROVE  IsPrefix(p, r)
BY LeadsPointwise, PathFacts

(* Of two beginnings of one path one is the beginning of the other.        *)
LEMMA BothLead ==
    ASSUME NEW p \in Paths, NEW q \in Paths, NEW r \in Paths,
           IsPrefix(p, r), IsPrefix(q, r), Len(p) <= Len(q)
    PROVE  IsPrefix(p, q)
BY LeadsPointwise, PathFacts

LEMMA LeadsToItself == \A p \in Paths : IsPrefix(p, p)
BY LeadsPointwise, PathFacts

LEMMA HereLeads == Here \in Paths /\ \A p \in Paths : IsPrefix(Here, p)
<1>1. Here \in Paths /\ Len(Here) = 0
  BY EmptySeq DEF Here, Paths
<1> QED BY <1>1, LeadsPointwise, PathFacts

LEMMA PrefixLeads ==
    ASSUME NEW p \in Paths, NEW n \in 0..Len(p)
    PROVE  IsPrefix(Prefix(p, n), p)
BY PrefixFacts, LeadsPointwise, PathFacts

-----------------------------------------------------------------------------
(* Trees                                                                   *)

LEMMA FiniteImage ==
    ASSUME NEW S, IsFiniteSet(S), NEW f, DOMAIN f = S, f = [x \in S |-> f[x]]
    PROVE  IsFiniteSet({f[x] : x \in S})
<1> DEFINE T == {f[x] : x \in S}
<1>1. f \in Surjection(S, T)
  BY DEF Surjection
<1> HIDE DEF T
<1>2. IsFiniteSet(T)
  BY <1>1, FS_Surjection
<1> QED BY <1>2 DEF T

LEMMA LeadsAs ==
    ASSUME NEW p \in Paths, NEW q \in Paths, IsPrefix(p, q)
    PROVE  Len(p) \in 0..Len(q) /\ p = Prefix(q, Len(p))
<1>1. Len(p) \in 0..Len(q) /\ \A i \in 1..Len(p) : q[i] = p[i]
  BY PathFacts, LeadsPointwise
<1>2. /\ Prefix(q, Len(p)) \in Paths /\ Len(Prefix(q, Len(p))) = Len(p)
      /\ \A i \in 1..Len(p) : Prefix(q, Len(p))[i] = q[i]
  BY <1>1, PrefixFacts
<1>3. p = Prefix(q, Len(p))
  BY <1>1, <1>2, SamePath
<1> QED BY <1>1, <1>3

(* A tree has all that leads to its paths.                                 *)
LEMMA LeadsInto ==
    ASSUME NEW S, IsTree(S), NEW p \in S, NEW q \in Paths, IsPrefix(q, p)
    PROVE  q \in S
<1>0. p \in Paths /\ Len(p) \in Nat
  BY PathFacts DEF IsTree
<1> DEFINE off == {n \in Nat : n <= Len(p) /\ Prefix(p, Len(p) - n) \notin S}
<1>1. off = {}
  <2> SUFFICES ASSUME off # {} PROVE FALSE
    OBVIOUS
  <2>1. PICK m \in off : \A n \in off : m <= n
    <3>1. off \in SUBSET Nat
      OBVIOUS
    <3> HIDE DEF off
    <3> QED BY <3>1, Least
  <2>2. m \in Nat /\ m <= Len(p) /\ Prefix(p, Len(p) - m) \notin S
    OBVIOUS
  <2>3. m # 0
    <3>1. IsPrefix(p, p)
      BY <1>0, LeadsToItself
    <3>2. p = Prefix(p, Len(p))
      BY <1>0, <3>1, LeadsAs
    <3> QED BY <1>0, <2>2, <3>2
  <2>4. m - 1 \notin off
    <3> HIDE DEF off
    <3> QED BY <2>1, <2>2, <2>3
  <2>5. m - 1 \in Nat /\ m - 1 <= Len(p) /\ Len(p) - (m - 1) \in 0..Len(p)
    BY <1>0, <2>2, <2>3
  <2>6. PICK r : r = Prefix(p, Len(p) - (m - 1))
    OBVIOUS
  <2>7. r \in S
    BY <2>4, <2>5, <2>6
  <2>8. /\ r \in Paths /\ Len(r) = Len(p) - (m - 1)
        /\ \A i \in 1..(Len(p) - (m - 1)) : r[i] = p[i]
    BY <1>0, <2>5, <2>6, PrefixFacts
  <2>9. r # Here
    BY <1>0, <2>2, <2>8, PathFacts
  <2>10. Front(r) \in S
    BY <2>7, <2>9 DEF IsTree
  <2>11. /\ Front(r) \in Paths /\ Len(Front(r)) = Len(r) - 1
         /\ \A i \in 1..(Len(r) - 1) : Front(r)[i] = r[i]
    BY <2>8, <2>9, FrontFacts
  <2>12. Len(p) - m \in 0..Len(p) /\ Len(r) - 1 = Len(p) - m
    BY <1>0, <2>2, <2>3, <2>8
  <2>13. /\ Prefix(p, Len(p) - m) \in Paths /\ Len(Prefix(p, Len(p) - m)) = Len(p) - m
         /\ \A i \in 1..(Len(p) - m) : Prefix(p, Len(p) - m)[i] = p[i]
    BY <1>0, <2>12, PrefixFacts
  <2>14. \A i \in 1..(Len(p) - m) : Front(r)[i] = p[i]
    BY <1>0, <2>2, <2>8, <2>11, <2>12
  <2>15. Front(r) = Prefix(p, Len(p) - m)
    BY <2>11, <2>12, <2>13, <2>14, SamePath
  <2> QED BY <2>2, <2>10, <2>15
<1>2. Len(q) \in 0..Len(p) /\ q = Prefix(p, Len(q))
  BY <1>0, LeadsAs
<1>3. Len(p) - Len(q) \in Nat /\ Len(p) - Len(q) <= Len(p) /\ Len(p) - (Len(p) - Len(q)) = Len(q)
  BY <1>0, <1>2
<1> QED BY <1>1, <1>2, <1>3

LEMMA JoinOn ==
    ASSUME NEW p \in Paths, NEW q \in Paths, NEW r \in Paths, IsPrefix(q, r)
    PROVE  IsPrefix(p \o q, p \o r)
<1>1. Len(p) \in Nat /\ Len(q) \in Nat /\ Len(r) \in Nat /\ Len(q) <= Len(r)
      /\ \A i \in 1..Len(q) : r[i] = q[i]
  BY PathFacts, LeadsPointwise
<1>2. /\ p \o q \in Paths /\ Len(p \o q) = Len(p) + Len(q)
      /\ \A i \in 1..Len(p) : (p \o q)[i] = p[i]
      /\ \A i \in 1..Len(q) : (p \o q)[Len(p) + i] = q[i]
  BY JoinFacts
<1>3. /\ p \o r \in Paths /\ Len(p \o r) = Len(p) + Len(r)
      /\ \A i \in 1..Len(p) : (p \o r)[i] = p[i]
      /\ \A i \in 1..Len(r) : (p \o r)[Len(p) + i] = r[i]
  BY JoinFacts
<1>4. ASSUME NEW i \in 1..Len(p \o q) PROVE (p \o r)[i] = (p \o q)[i]
  <2>1. CASE i <= Len(p)
    BY <1>1, <1>2, <1>3, <2>1
  <2>2. CASE ~(i <= Len(p))
    <3>1. i - Len(p) \in 1..Len(q) /\ i - Len(p) \in 1..Len(r) /\ Len(p) + (i - Len(p)) = i
      BY <1>1, <1>2, <2>2
    <3>2. (p \o q)[i] = q[i - Len(p)] /\ (p \o r)[i] = r[i - Len(p)]
      BY <1>2, <1>3, <3>1
    <3> QED BY <1>1, <3>1, <3>2
  <2> QED BY <2>1, <2>2
<1>5. Len(p \o q) <= Len(p \o r)
  BY <1>1, <1>2, <1>3
<1> QED BY <1>2, <1>3, <1>4, <1>5, LeadsPointwise

(* What follows p on the paths of S that lead through it.                  *)
Onward(S, p) == {SubSeq(r, Len(p) + 1, Len(r)) : r \in {s \in S : IsPrefix(p, s)}}

LEMMA OnwardFacts ==
    ASSUME NEW S, S \subseteq Paths, NEW p \in Paths
    PROVE  /\ Onward(S, p) \subseteq Paths
           /\ \A q \in Paths : q \in Onward(S, p) <=> p \o q \in S
<1>1. ASSUME NEW r \in S, IsPrefix(p, r)
      PROVE  SubSeq(r, Len(p) + 1, Len(r)) \in Paths /\ p \o SubSeq(r, Len(p) + 1, Len(r)) = r
  BY <1>1, Rejoined
<1>2. ASSUME NEW q \in Paths, p \o q \in S PROVE q \in Onward(S, p)
  <2>1. IsPrefix(p, p \o q) /\ SubSeq(p \o q, Len(p) + 1, Len(p \o q)) = q
    BY JoinLeads
  <2> QED BY <1>2, <2>1 DEF Onward
<1>3. ASSUME NEW q \in Onward(S, p) PROVE q \in Paths /\ p \o q \in S
  <2>1. PICK r \in S : IsPrefix(p, r) /\ q = SubSeq(r, Len(p) + 1, Len(r))
    BY DEF Onward
  <2> QED BY <1>1, <2>1
<1> QED BY <1>2, <1>3

LEMMA OnwardTree ==
    ASSUME NEW S, IsTree(S), NEW p \in S
    PROVE  IsTree(Onward(S, p))
<1>1. S \subseteq Paths /\ IsFiniteSet(S) /\ p \in Paths
  BY DEF IsTree
<1>2. /\ Onward(S, p) \subseteq Paths
      /\ \A q \in Paths : q \in Onward(S, p) <=> p \o q \in S
  BY <1>1, OnwardFacts
<1>3. IsFiniteSet(Onward(S, p))
  <2> DEFINE T == {s \in S : IsPrefix(p, s)}
             f == [r \in T |-> SubSeq(r, Len(p) + 1, Len(r))]
  <2>1. IsFiniteSet(T)
    BY <1>1, FS_Subset
  <2>2. DOMAIN f = T /\ f = [r \in T |-> f[r]]
    OBVIOUS
  <2>3. Onward(S, p) = {f[r] : r \in T}
    BY DEF Onward
  <2> HIDE DEF T, f
  <2> QED BY <2>1, <2>2, <2>3, FiniteImage
<1>4. Here \in Onward(S, p)
  <2>1. p \o Here = p
    BY <1>1, EmptySeq, ConcatEmptySeq DEF Here, Paths
  <2> QED BY <1>2, <2>1, HereLeads
<1>5. ASSUME NEW q \in Onward(S, p) \ {Here} PROVE Front(q) \in Onward(S, p)
  <2>1. q \in Paths /\ p \o q \in S
    BY <1>2
  <2>2. Len(q) \in Nat \ {0} /\ Front(q) \in Paths /\ Front(q) = Prefix(q, Len(q) - 1)
    BY <2>1, FrontFacts
  <2>3. IsPrefix(Front(q), q)
    <3>1. Len(q) - 1 \in 0..Len(q)
      BY <2>2
    <3> QED BY <2>1, <2>2, <3>1, PrefixLeads
  <2>4. IsPrefix(p \o Front(q), p \o q)
    BY <1>1, <2>1, <2>2, <2>3, JoinOn
  <2>5. p \o Front(q) \in Paths
    BY <1>1, <2>2, JoinFacts
  <2> QED BY <1>2, <2>1, <2>2, <2>4, <2>5, LeadsInto
<1> QED BY <1>2, <1>3, <1>4, <1>5 DEF IsTree

-----------------------------------------------------------------------------
(* The values that are assigned                                            *)

Tree(doc) == IsTree(DOMAIN doc.at) /\ DOMAIN doc.ref = DOMAIN doc.at

(* What is assigned is never the item itself.                              *)
Detached(sub) == \A q \in DOMAIN sub.at : sub.ref[q] # Read(Here)
Branch(sub) == Tree(sub) /\ Detached(sub)

(* The item is at its root only, and the values of :refs are at hand.      *)
Sole(doc) == \A p \in DOMAIN doc.at : doc.ref[p] = Read(Here) <=> p = Here
Holds(doc) == \A v \in DOMAIN Refs : RefPath(v) \in DOMAIN doc.at
Rooted(doc) == Tree(doc) /\ Sole(doc) /\ Holds(doc)

LEMMA StepIndex == \A s \in Steps : s.index \in Nat
<1> SUFFICES ASSUME NEW s \in Steps PROVE s.index \in Nat
  OBVIOUS
<1>1. CASE s \in [name : STRING, index : {0}, isIdx : {FALSE}]
  BY <1>1
<1>2. CASE s \in [name : {""}, index : Nat, isIdx : {TRUE}]
  BY <1>2
<1> QED BY <1>1, <1>2 DEF Steps

LEMMA IndexStep == \A n \in Nat : Index(n) \in Steps
BY DEF Index, Steps

LEMMA RefPathFacts ==
    ASSUME NEW v \in DOMAIN Refs
    PROVE  /\ RefPath(v) \in Paths /\ Len(RefPath(v)) = 1 /\ RefPath(v) # Here
           /\ RefPath(v)[1] = Index(v) /\ RefPath(v)[1].isIdx
<1>1. v \in Nat
  BY RefsAssumption DEF RefsAssumption
<1>2. Index(v) \in Steps /\ Index(v).isIdx
  BY <1>1, IndexStep DEF Index
<1>3. RefPath(v) \in Paths /\ Len(RefPath(v)) = 1 /\ RefPath(v)[1] = Index(v)
  BY <1>2 DEF RefPath, Paths
<1> QED BY <1>2, <1>3, PathFacts

LEMMA SubdocumentTree ==
    ASSUME NEW doc, Tree(doc), NEW path \in DOMAIN doc.at
    PROVE  Tree(Subdocument(doc, path))
<1>1. DOMAIN At(doc.at, path) = Onward(DOMAIN doc.at, path)
  BY DEF At, Onward
<1>2. DOMAIN At(doc.ref, path) = Onward(DOMAIN doc.at, path)
  BY DEF At, Onward, Tree
<1>3. IsTree(Onward(DOMAIN doc.at, path))
  BY OnwardTree DEF Tree
<1> QED BY <1>1, <1>2, <1>3 DEF Tree, Subdocument

LEMMA SubdocumentBranch ==
    ASSUME NEW doc, Tree(doc), Sole(doc), NEW path \in DOMAIN doc.at, path # Here
    PROVE  Branch(Subdocument(doc, path))
<1> DEFINE sub == Subdocument(doc, path)
<1>1. Tree(sub)
  BY SubdocumentTree
<1>2. DOMAIN doc.at \subseteq Paths /\ path \in Paths
  BY DEF Tree, IsTree
<1>3. DOMAIN sub.at = Onward(DOMAIN doc.at, path)
      /\ \A q \in DOMAIN sub.at : sub.ref[q] = doc.ref[path \o q]
  BY DEF Subdocument, At, Onward, Tree
<1> HIDE DEF sub
<1>4. ASSUME NEW q \in DOMAIN sub.at PROVE sub.ref[q] # Read(Here)
  <2>1. q \in Paths /\ path \o q \in DOMAIN doc.at
    BY <1>2, <1>3, OnwardFacts
  <2>2. Len(path \o q) = Len(path) + Len(q) /\ Len(path) \in Nat /\ Len(path) # 0 /\ Len(q) \in Nat
    BY <1>2, <2>1, JoinFacts, PathFacts
  <2>3. PICK w \in DOMAIN doc.at : w = path \o q
    BY <2>1
  <2>4. Len(w) # 0
    BY <2>2, <2>3
  <2>5. w # Here
    BY <1>2, <2>4, PathFacts
  <2> QED BY <1>3, <2>3, <2>5 DEF Sole
<1> QED BY <1>1, <1>4 DEF Branch, Detached, sub

LEMMA GivenTree ==
    ASSUME NEW value, IsTree(DOMAIN value)
    PROVE  Branch(Given(value))
<1>1. Anonymous # Read(Here)
  <2>1. Anonymous.made = TRUE /\ Read(Here).made = FALSE
    BY DEF Anonymous, Made, Read
  <2> QED BY <2>1
<1> QED BY <1>1 DEF Branch, Tree, Given, Detached

LEMMA ScalarTree == \A node : Branch(Given(Scalar(node)))
<1> SUFFICES ASSUME NEW node PROVE IsTree(DOMAIN Scalar(node))
  BY GivenTree
<1>1. DOMAIN Scalar(node) = {Here}
  BY DEF Scalar
<1>2. IsFiniteSet({Here}) /\ {Here} \subseteq Paths
  BY FS_Singleton, HereLeads
<1> QED BY <1>1, <1>2 DEF IsTree

LEMMA OperandTree ==
    ASSUME NEW doc, Rooted(doc), NEW o, IsOperand(o), NEW sub \in operandValue(o, doc)
    PROVE  Branch(sub)
<1>1. ~Erroneous(o, doc.at)
  BY DEF operandValue
<1>2. o.kind \in {"value", "path", "size"}
  BY <1>1 DEF IsOperand, Erroneous
<1>3. CASE o.kind = "value"
  <2>1. sub = Subdocument(doc, RefPath(o.vref))
    BY <1>1, <1>3 DEF operandValue
  <2>2. o.vref \in DOMAIN Refs
    BY <1>1, <1>3 DEF Erroneous
  <2>3. RefPath(o.vref) \in DOMAIN doc.at /\ RefPath(o.vref) # Here
    BY <2>2, RefPathFacts DEF Rooted, Holds
  <2> QED BY <2>1, <2>3, SubdocumentBranch DEF Rooted
<1>4. CASE o.kind = "path"
  <2>1. resolvePath(doc.at, o.path) # {}
    <3>1. SUFFICES ASSUME resolvePath(doc.at, o.path) = {} PROVE FALSE
      OBVIOUS
    <3>2. sub \in {Given(v) : v \in resolveOperand(o, doc.at)}
      BY <1>1, <1>4, <3>1 DEF operandValue
    <3>3. resolveOperand(o, doc.at) = {}
      BY <1>4, <3>1 DEF resolveOperand
    <3> QED BY <3>2, <3>3
  <2>2. sub = Subdocument(doc, o.path)
    BY <1>1, <1>4, <2>1 DEF operandValue
  <2>3. o.path \in DOMAIN doc.at /\ o.path # Here
    BY <2>1 DEF resolvePath
  <2> QED BY <2>2, <2>3, SubdocumentBranch DEF Rooted
<1>5. CASE o.kind = "size"
  <2>1. sub \in {Given(v) : v \in resolveOperand(o, doc.at)}
    BY <1>1, <1>5 DEF operandValue
  <2>2. resolveOperand(o, doc.at) = {Scalar(Integer(sizeOf(v))) : v \in resolvePath(doc.at, o.path)}
    BY <1>5 DEF resolveOperand
  <2>3. PICK v : sub = Given(Scalar(Integer(sizeOf(v))))
    BY <2>1, <2>2
  <2> QED BY <2>3, ScalarTree
<1> QED BY <1>2, <1>3, <1>4, <1>5

(* The elements that list_append moves to the end of the first list.       *)
LEMMA ShiftFacts ==
    ASSUME NEW p \in Paths, p # Here, NEW len \in Nat,
           NEW s, s = [p EXCEPT ![1] = Index(@.index + len)]
    PROVE  /\ s \in Paths /\ Len(s) = Len(p) /\ s # Here
           /\ \A i \in 1..Len(p) : s[i] = IF i = 1 THEN Index(p[1].index + len) ELSE p[i]
<1>1. Len(p) \in Nat \ {0} /\ 1 \in 1..Len(p) /\ p[1] \in Steps
  BY PathFacts
<1>2. p[1].index \in Nat
  BY <1>1, StepIndex
<1>3. Index(p[1].index + len) \in Steps
  BY <1>2, IndexStep
<1>4. s = [p EXCEPT ![1] = Index(p[1].index + len)]
  OBVIOUS
<1>5. /\ s \in Seq(Steps) /\ Len(s) = Len(p)
      /\ \A i \in 1..Len(p) : s[i] = IF i = 1 THEN Index(p[1].index + len) ELSE p[i]
  BY <1>1, <1>3, <1>4, ExceptSeq DEF Paths
<1> QED BY <1>1, <1>5, PathFacts DEF Paths

LEMMA AppendedTree ==
    ASSUME NEW a, NEW b, Tree(a), Tree(b)
    PROVE  Tree(Appended(a, b))
<1> DEFINE len == Cardinality(Elements(a.at, Here))
           shifted(p) == [p EXCEPT ![1] = Index(@.index + len)]
           tails == {shifted(p) : p \in DOMAIN b.at \ {Here}}
           both == DOMAIN a.at \union tails
<1>1. DOMAIN Appended(a, b).at = both /\ DOMAIN Appended(a, b).ref = both
  BY DEF Appended
<1>2. len \in Nat
  <2> DEFINE T == {r \in DOMAIN a.at : Len(r) = Len(Here) + 1 /\ IsPrefix(Here, r)}
             f == [q \in T |-> q[Len(q)]]
  <2>1. IsFiniteSet(T)
    BY FS_Subset DEF Tree, IsTree
  <2>2. DOMAIN f = T /\ f = [q \in T |-> f[q]]
    OBVIOUS
  <2>3. Elements(a.at, Here) = {f[q] : q \in T}
    BY DEF Elements
  <2> HIDE DEF T, f
  <2>4. IsFiniteSet(Elements(a.at, Here))
    BY <2>1, <2>2, <2>3, FiniteImage
  <2> QED BY <2>4, FS_CardinalityType
<1>3. DOMAIN b.at \subseteq Paths /\ DOMAIN a.at \subseteq Paths
      /\ IsFiniteSet(DOMAIN a.at) /\ IsFiniteSet(DOMAIN b.at) /\ Here \in DOMAIN a.at
  BY DEF Tree, IsTree
<1>4. IsFiniteSet(both)
  <2> DEFINE T == DOMAIN b.at \ {Here}
             f == [p \in T |-> shifted(p)]
  <2>1. IsFiniteSet(T)
    BY <1>3, FS_Subset
  <2>2. DOMAIN f = T /\ f = [p \in T |-> f[p]]
    OBVIOUS
  <2>3. tails = {f[p] : p \in T}
    OBVIOUS
  <2> HIDE DEF T, f, len, shifted, tails
  <2>4. IsFiniteSet(tails)
    BY <2>1, <2>2, <2>3, FiniteImage
  <2> QED BY <1>3, <2>4, FS_Union
<1> HIDE DEF len
<1>5. ASSUME NEW p \in DOMAIN b.at, p # Here
      PROVE  /\ shifted(p) \in Paths /\ Len(shifted(p)) = Len(p) /\ shifted(p) # Here
             /\ \A i \in 1..Len(p) : shifted(p)[i] = IF i = 1 THEN Index(p[1].index + len) ELSE p[i]
  <2>1. p \in Paths
    BY <1>3
  <2> QED BY <1>2, <1>5, <2>1, ShiftFacts
<1>6. ASSUME NEW q \in tails PROVE q \in Paths /\ Front(q) \in both
  <2>1. PICK p \in DOMAIN b.at : p # Here /\ q = shifted(p)
    OBVIOUS
  <2>2. p \in Paths
    BY <1>3, <2>1
  <2>3. q \in Paths /\ Len(q) = Len(p) /\ q # Here
        /\ \A i \in 1..Len(p) : q[i] = IF i = 1 THEN Index(p[1].index + len) ELSE p[i]
    BY <1>5, <2>1
  <2>4. /\ Len(q) \in Nat \ {0} /\ Front(q) \in Paths /\ Len(Front(q)) = Len(q) - 1
        /\ \A i \in 1..(Len(q) - 1) : Front(q)[i] = q[i]
    BY <2>3, FrontFacts
  <2>5. /\ Front(p) \in Paths /\ Len(Front(p)) = Len(p) - 1
        /\ \A i \in 1..(Len(p) - 1) : Front(p)[i] = p[i]
    BY <2>1, <2>2, FrontFacts
  <2>6. CASE Len(q) = 1
    <3>1. Front(q) = Here
      BY <2>4, <2>6, PathFacts
    <3> QED BY <1>3, <2>3, <3>1
  <2>7. CASE Len(q) # 1
    <3>1. Front(p) \in DOMAIN b.at
      BY <2>1 DEF Tree, IsTree
    <3>2. Front(p) # Here
      BY <2>3, <2>4, <2>5, <2>7, PathFacts
    <3>3. /\ shifted(Front(p)) \in Paths /\ Len(shifted(Front(p))) = Len(Front(p))
          /\ \A i \in 1..Len(Front(p)) :
                shifted(Front(p))[i] = IF i = 1 THEN Index(Front(p)[1].index + len) ELSE Front(p)[i]
      BY <1>5, <3>1, <3>2
    <3>4. shifted(Front(p)) \in tails
      BY <3>1, <3>2
    <3> HIDE DEF shifted, tails
    <3>5. PICK s : s = shifted(Front(p))
      OBVIOUS
    <3>6. Len(s) = Len(Front(q))
      BY <2>3, <2>4, <2>5, <3>3, <3>5
    <3>7. ASSUME NEW i \in 1..Len(s) PROVE s[i] = Front(q)[i]
      <4>1. i \in 1..(Len(p) - 1) /\ i \in 1..Len(p) /\ 1 \in 1..(Len(p) - 1) /\ i \in 1..Len(Front(p))
            /\ i \in 1..(Len(q) - 1)
        BY <2>3, <2>4, <2>5, <2>7, <3>6
      <4>2. s[i] = IF i = 1 THEN Index(p[1].index + len) ELSE p[i]
        BY <2>5, <3>3, <3>5, <4>1
      <4>3. Front(q)[i] = IF i = 1 THEN Index(p[1].index + len) ELSE p[i]
        BY <2>3, <2>4, <4>1
      <4> QED BY <4>2, <4>3
    <3>8. s = Front(q)
      BY <2>4, <3>3, <3>5, <3>6, <3>7, SamePath
    <3> QED BY <2>3, <3>4, <3>5, <3>8
  <2> QED BY <2>6, <2>7
<1>7. ASSUME NEW q \in DOMAIN a.at, q # Here PROVE Front(q) \in both
  BY <1>7 DEF Tree, IsTree
<1> HIDE DEF shifted, tails
<1>8. both \subseteq Paths /\ Here \in both /\ \A q \in both \ {Here} : Front(q) \in both
  BY <1>3, <1>6, <1>7
<1> HIDE DEF both
<1> QED BY <1>1, <1>4, <1>8 DEF Tree, IsTree

LEMMA AppendedBranch ==
    ASSUME NEW a, NEW b, Branch(a), Branch(b)
    PROVE  Branch(Appended(a, b))
<1> DEFINE len == Cardinality(Elements(a.at, Here))
           shifted(p) == [p EXCEPT ![1] = Index(@.index + len)]
           tails == {shifted(p) : p \in DOMAIN b.at \ {Here}}
           from(p) == CHOOSE q \in DOMAIN b.at \ {Here} : shifted(q) = p
           all == DOMAIN a.at \union tails
           out == Appended(a, b)
<1>1. Tree(out)
  BY AppendedTree DEF Branch
<1>2. DOMAIN out.at = all /\ \A p \in all :
         out.ref[p] = IF p = Here THEN Anonymous ELSE IF p \in tails THEN b.ref[from(p)] ELSE a.ref[p]
  BY DEF Appended
<1>3. ASSUME NEW p \in tails PROVE from(p) \in DOMAIN b.at
  <2>1. \E q \in DOMAIN b.at \ {Here} : shifted(q) = p
    OBVIOUS
  <2> HIDE DEF shifted
  <2> QED BY <2>1
<1>4. Anonymous # Read(Here)
  <2>1. Anonymous.made = TRUE /\ Read(Here).made = FALSE
    BY DEF Anonymous, Made, Read
  <2> QED BY <2>1
<1> HIDE DEF from, tails, out
<1>5. \A p \in all : out.ref[p] # Read(Here)
  BY <1>2, <1>3, <1>4 DEF Branch, Detached
<1> QED BY <1>1, <1>2, <1>5 DEF Branch, Detached, out

(* evalRvalue: the right-hand sides that a function f on some of them can  *)
(* give a value to, from what it gives to those that are nested in them.   *)
EvalOn(f, D, doc) == f = [r \in D |-> evalWith(f, r, doc)]

Closed(D) == D \subseteq Rvalues /\ \A r \in D : Nested(r) \subseteq D

LEMMA Innermost ==
    ASSUME NEW some, some \subseteq Rvalues, some # {}
    PROVE  \E r \in some : Nested(r) \intersect some = {}
<1>1. some \in (SUBSET Rvalues) \ {{}}
  OBVIOUS
<1> QED BY <1>1, RvaluesAssumption DEF RvaluesAssumption

LEMMA EvalWithNested ==
    ASSUME NEW f, NEW g, NEW doc, NEW r \in Rvalues, \A s \in Nested(r) : f[s] = g[s]
    PROVE  evalWith(f, r, doc) = evalWith(g, r, doc)
<1>1. r.fn \in {"operand", "if_not_exists", "list_append"}
  BY RvaluesAssumption DEF RvaluesAssumption
<1>2. CASE r.fn = "operand"
  BY <1>2 DEF evalWith
<1>3. CASE r.fn = "if_not_exists"
  <2>1. f[r.b] = g[r.b]
    BY <1>3 DEF Nested
  <2> QED BY <1>3, <2>1 DEF evalWith
<1>4. CASE r.fn = "list_append"
  <2>1. f[r.a] = g[r.a] /\ f[r.b] = g[r.b]
    BY <1>4 DEF Nested
  <2> QED BY <1>4, <2>1 DEF evalWith
<1> QED BY <1>1, <1>2, <1>3, <1>4

LEMMA EvalAgrees ==
    ASSUME NEW doc, NEW D, NEW E, NEW f, NEW g,
           Closed(D), Closed(E), EvalOn(f, D, doc), EvalOn(g, E, doc)
    PROVE  \A r \in D \intersect E : f[r] = g[r]
<1> DEFINE off == {r \in D \intersect E : f[r] # g[r]}
<1> SUFFICES ASSUME off # {} PROVE FALSE
  OBVIOUS
<1>1. off \subseteq Rvalues
  BY DEF Closed
<1>2. PICK r \in off : Nested(r) \intersect off = {}
  <2> HIDE DEF off
  <2> QED BY <1>1, Innermost
<1>3. r \in D /\ r \in E /\ f[r] # g[r] /\ r \in Rvalues
  BY <1>1
<1>4. Nested(r) \subseteq D /\ Nested(r) \subseteq E
  BY <1>3 DEF Closed
<1>5. \A s \in Nested(r) : f[s] = g[s]
  BY <1>2, <1>4
<1>6. f[r] = evalWith(f, r, doc) /\ g[r] = evalWith(g, r, doc)
  BY <1>3 DEF EvalOn
<1>7. evalWith(f, r, doc) = evalWith(g, r, doc)
  BY <1>3, <1>5, EvalWithNested
<1> QED BY <1>3, <1>6, <1>7

LEMMA EvalExists == \A doc : \E f : EvalOn(f, Rvalues, doc)
<1> SUFFICES ASSUME NEW doc PROVE \E f : EvalOn(f, Rvalues, doc)
  OBVIOUS
<1> DEFINE Gives(D, f, r) == Closed(D) /\ EvalOn(f, D, doc) /\ r \in D
           done == {r \in Rvalues : \E D, f : Gives(D, f, r)}
           F == [r \in done |-> CHOOSE v : \E D, f : Gives(D, f, r) /\ v = f[r]]
<1>1. ASSUME NEW D, NEW f, NEW r, Gives(D, f, r)
      PROVE  r \in done /\ F[r] = f[r]
  <2>1. r \in done
    BY <1>1 DEF Closed
  <2> DEFINE v == CHOOSE v : \E E, g : Gives(E, g, r) /\ v = g[r]
  <2>2. \E u : \E E, g : Gives(E, g, r) /\ u = g[r]
    BY <1>1
  <2>3. \E E, g : Gives(E, g, r) /\ v = g[r]
    <3> HIDE DEF Gives
    <3> QED BY <2>2
  <2>4. PICK E, g : Gives(E, g, r) /\ v = g[r]
    BY <2>3
  <2>5. g[r] = f[r]
    <3> HIDE DEF v, F, done
    <3> QED BY <1>1, <2>4, EvalAgrees
  <2>6. F[r] = v
    BY <2>1
  <2> HIDE DEF F, v, done, Gives
  <2> QED BY <2>1, <2>4, <2>5, <2>6
<1>2. ASSUME NEW r \in done
      PROVE  r \in Rvalues /\ Nested(r) \subseteq done /\ F[r] = evalWith(F, r, doc)
  <2>1. PICK D, f : Gives(D, f, r)
    OBVIOUS
  <2>2. Nested(r) \subseteq D /\ r \in Rvalues
    BY <2>1 DEF Closed
  <2>3. \A s \in D : s \in done /\ F[s] = f[s]
    <3> TAKE s \in D
    <3>1. Gives(D, f, s)
      BY <2>1
    <3> HIDE DEF Gives, done, F
    <3> QED BY <1>1, <3>1
  <2>4. f[r] = evalWith(f, r, doc)
    BY <2>1 DEF EvalOn
  <2>5. \A s \in Nested(r) : F[s] = f[s]
    <3> HIDE DEF F, done, Gives
    <3> QED BY <2>2, <2>3
  <2>6. evalWith(F, r, doc) = evalWith(f, r, doc)
    <3> HIDE DEF F, done, Gives
    <3> QED BY <2>2, <2>5, EvalWithNested
  <2>7. r \in D
    BY <2>1
  <2> HIDE DEF F, done, Gives
  <2> QED BY <2>2, <2>3, <2>4, <2>6, <2>7
<1>3. DOMAIN F = done
  OBVIOUS
<1>4. F = [r \in done |-> F[r]]
  OBVIOUS
<1>5. done \subseteq Rvalues
  OBVIOUS
<1>6. ASSUME NEW D, NEW f, NEW r, Closed(D), EvalOn(f, D, doc), r \in D PROVE r \in done
  BY <1>1, <1>6
<1> HIDE DEF F, done
<1>7. EvalOn(F, done, doc)
  BY <1>2, <1>4 DEF EvalOn
<1>8. done = Rvalues
  <2> SUFFICES ASSUME Rvalues \ done # {} PROVE FALSE
    BY <1>5
  <2>1. PICK r \in Rvalues \ done : Nested(r) \intersect (Rvalues \ done) = {}
    <3>1. PICK some : some = Rvalues \ done
      OBVIOUS
    <3> QED BY <3>1, Innermost
  <2>2. Nested(r) \subseteq done
    BY <2>1, RvaluesAssumption DEF RvaluesAssumption
  <2> DEFINE D == done \union {r}
             f == [s \in D |-> IF s \in done THEN F[s] ELSE evalWith(F, r, doc)]
  <2>3. ASSUME NEW s \in D PROVE Nested(s) \subseteq done /\ s \in Rvalues
    BY <1>2, <2>1, <2>2
  <2>4. Closed(D)
    BY <2>3 DEF Closed
  <2>5. ASSUME NEW s \in D PROVE f[s] = evalWith(f, s, doc)
    <3>1. \A t \in Nested(s) : f[t] = F[t]
      BY <2>3
    <3>2. f[s] = evalWith(F, s, doc)
      <4>1. CASE s \in done
        BY <1>2, <4>1
      <4>2. CASE s \notin done
        <5>1. s = r
          BY <4>2
        <5> QED BY <4>2, <5>1
      <4> QED BY <4>1, <4>2
    <3> HIDE DEF D, f
    <3> QED BY <2>3, <3>1, <3>2, EvalWithNested
  <2>6. f = [s \in D |-> f[s]]
    OBVIOUS
  <2>7. r \in D
    OBVIOUS
  <2> HIDE DEF D, f
  <2>8. EvalOn(f, D, doc)
    BY <2>5, <2>6 DEF EvalOn
  <2> QED BY <1>6, <2>1, <2>4, <2>7, <2>8
<1> QED BY <1>7, <1>8

LEMMA RvalueTree ==
    ASSUME NEW doc, Rooted(doc), NEW rvalue \in Rvalues, NEW sub \in evalRvalue(rvalue, doc)
    PROVE  Branch(sub)
<1> DEFINE eval == CHOOSE f : f = [r \in Rvalues |-> evalWith(f, r, doc)]
<1>1. EvalOn(eval, Rvalues, doc)
  BY EvalExists DEF EvalOn
<1>2. evalRvalue(rvalue, doc) = eval[rvalue]
  BY DEF evalRvalue
<1> HIDE DEF eval
<1> DEFINE off == {r \in Rvalues : \E x \in eval[r] : ~Branch(x)}
<1>3. off = {}
  <2> SUFFICES ASSUME off # {} PROVE FALSE
    OBVIOUS
  <2>1. off \subseteq Rvalues
    OBVIOUS
  <2>2. PICK r \in off : Nested(r) \intersect off = {}
    <3> HIDE DEF off
    <3> QED BY <2>1, Innermost
  <2>3. PICK x \in eval[r] : ~Branch(x)
    OBVIOUS
  <2>4. r \in Rvalues
    BY <2>1
  <2>5. Nested(r) \subseteq Rvalues /\ r.fn \in {"operand", "if_not_exists", "list_append"}
        /\ (r.fn = "operand" => IsOperand(r.opnd))
    BY <2>4, RvaluesAssumption DEF RvaluesAssumption
  <2>6. \A s \in Nested(r) : \A y \in eval[s] : Branch(y)
    BY <2>2, <2>5
  <2>7. x \in evalWith(eval, r, doc)
    BY <1>1, <2>3, <2>4 DEF EvalOn
  <2>8. CASE r.fn = "operand"
    <3>1. x \in operandValue(r.opnd, doc)
      BY <2>7, <2>8 DEF evalWith
    <3> QED BY <2>3, <2>5, <2>8, <3>1, OperandTree
  <2>9. CASE r.fn = "if_not_exists"
    <3>1. CASE resolvePath(doc.at, r.path) # {}
      <4>1. x = Subdocument(doc, r.path)
        BY <2>7, <2>9, <3>1 DEF evalWith
      <4>2. r.path \in DOMAIN doc.at /\ r.path # Here
        BY <3>1 DEF resolvePath
      <4> QED BY <2>3, <4>1, <4>2, SubdocumentBranch DEF Rooted
    <3>2. CASE resolvePath(doc.at, r.path) = {}
      <4>1. x \in eval[r.b]
        BY <2>7, <2>9, <3>2 DEF evalWith
      <4>2. r.b \in Nested(r)
        BY <2>9 DEF Nested
      <4> QED BY <2>3, <2>6, <4>1, <4>2
    <3> QED BY <3>1, <3>2
  <2>10. CASE r.fn = "list_append"
    <3>1. x \in {Appended(a, b) : a \in {y \in eval[r.a] : y.at[Here].type = "L"},
                                  b \in {y \in eval[r.b] : y.at[Here].type = "L"}}
      BY <2>7, <2>10 DEF evalWith
    <3>2. PICK a \in eval[r.a], b \in eval[r.b] : x = Appended(a, b)
      BY <3>1
    <3>3. r.a \in Nested(r) /\ r.b \in Nested(r)
      BY <2>10 DEF Nested
    <3>4. Branch(a) /\ Branch(b)
      BY <2>6, <3>2, <3>3
    <3> QED BY <2>3, <3>2, <3>4, AppendedBranch
  <2> QED BY <2>5, <2>8, <2>9, <2>10
<1> QED BY <1>2, <1>3

LEMMA SetValueTree ==
    ASSUME NEW doc, Rooted(doc), NEW a, IsAction(a), a.op = "set", NEW sub \in evalSetValue(a.set, doc)
    PROVE  Branch(sub)
<1>1. a.set.kind \in {"plain", "add", "sub"} /\ a.set.a \in Rvalues
  BY DEF IsAction
<1>2. CASE a.set.kind = "plain"
  <2>1. sub \in evalRvalue(a.set.a, doc)
    BY <1>2 DEF evalSetValue
  <2> QED BY <1>1, <2>1, RvalueTree
<1>3. CASE a.set.kind # "plain"
  <2>1. sub \in Sum(evalRvalue(a.set.a, doc), operandValue(a.set.b, doc), a.set.kind = "sub")
    BY <1>3 DEF evalSetValue
  <2>2. PICK m, n : sub = addNumbers(m, n, a.set.kind = "sub")
    BY <2>1 DEF Sum
  <2>3. PICK node : sub = Given(Scalar(node))
    BY <2>2 DEF addNumbers
  <2> QED BY <2>3, ScalarTree
<1> QED BY <1>2, <1>3

-----------------------------------------------------------------------------
(* Put                                                                     *)

LEMMA StepLeads ==
    ASSUME NEW p \in Paths, NEW e \in Steps, NEW q \in Paths
    PROVE  IsPrefix(Append(p, e), q) <=> Len(p) < Len(q) /\ IsPrefix(p, q) /\ q[Len(p) + 1] = e
<1>1. Len(p) \in Nat /\ Len(q) \in Nat
  BY PathFacts
<1>2. /\ Append(p, e) \in Paths /\ Len(Append(p, e)) = Len(p) + 1
      /\ \A i \in 1..Len(p) : Append(p, e)[i] = p[i]
      /\ Append(p, e)[Len(p) + 1] = e
  BY StepFacts
<1>3. IsPrefix(Append(p, e), q) <=>
        Len(p) + 1 <= Len(q) /\ \A i \in 1..(Len(p) + 1) : q[i] = Append(p, e)[i]
  BY <1>2, LeadsPointwise
<1>4. IsPrefix(p, q) <=> Len(p) <= Len(q) /\ \A i \in 1..Len(p) : q[i] = p[i]
  BY LeadsPointwise
<1>5. (\A i \in 1..(Len(p) + 1) : q[i] = Append(p, e)[i]) <=>
        (q[Len(p) + 1] = e /\ \A i \in 1..Len(p) : q[i] = p[i])
  <2>1. \A i : i \in 1..(Len(p) + 1) <=> i \in 1..Len(p) \/ i = Len(p) + 1
    BY <1>1
  <2> QED BY <1>2, <2>1
<1>6. Len(p) + 1 <= Len(q) <=> Len(p) < Len(q)
  BY <1>1
<1>7. Len(p) < Len(q) => Len(p) <= Len(q)
  BY <1>1
<1> QED BY <1>3, <1>4, <1>5, <1>6, <1>7

Kept(doc, path, el) == DOMAIN doc.at \ UNION {Below(p, el, doc) : p \in Places(doc, path)}
Spots(doc, path, el) == {Append(p, el) : p \in Places(doc, path) \intersect Kept(doc, path, el)}
Slot(y, el) == Append(y, el)
Join(s, t) == s \o t
CopyAt(y, el, t) == Join(Slot(y, el), t)
CopiesOf(T, D, el) == {Join(Slot(y, el), t) : y \in T, t \in D}
Copies(doc, path, el, sub) == UNION {{s \o q : q \in DOMAIN sub.at} : s \in Spots(doc, path, el)}
Spot(doc, path, el, p) == CHOOSE s \in Spots(doc, path, el) : IsPrefix(s, p)
TailOf(doc, path, el, p) == SubSeq(p, Len(Spot(doc, path, el, p)) + 1, Len(p))

LEMMA InCopiesOf ==
    ASSUME NEW T, NEW D, NEW el, NEW p
    PROVE  p \in CopiesOf(T, D, el) <=> \E y \in T : \E t \in D : p = Join(Slot(y, el), t)
BY DEF CopiesOf

LEMMA CopiesOfAre ==
    ASSUME NEW T, NEW D, NEW el
    PROVE  CopiesOf(T, D, el) = UNION {{s \o t : t \in D} : s \in {Append(y, el) : y \in T}}
<1> DEFINE all == UNION {{Join(s, t) : t \in D} : s \in {Slot(y, el) : y \in T}}
<1>1. ASSUME NEW p PROVE p \in all <=> \E y \in T : \E t \in D : p = Join(Slot(y, el), t)
  OBVIOUS
<1>2. all = UNION {{s \o t : t \in D} : s \in {Append(y, el) : y \in T}}
  BY DEF Join, Slot
<1> HIDE DEF all
<1>3. CopiesOf(T, D, el) = all
  <2>1. \A p : p \in CopiesOf(T, D, el) <=> p \in all
    BY <1>1, InCopiesOf
  <2> QED BY <2>1
<1> QED BY <1>2, <1>3

LEMMA InCopies ==
    ASSUME NEW doc, NEW path, NEW el, NEW sub, NEW p
    PROVE  p \in Copies(doc, path, el, sub) <=>
             \E y \in Places(doc, path) \intersect Kept(doc, path, el) :
                \E t \in DOMAIN sub.at : p = CopyAt(y, el, t)
<1> DEFINE T == Places(doc, path) \intersect Kept(doc, path, el)
           D == DOMAIN sub.at
<1>1. Copies(doc, path, el, sub) = CopiesOf(T, D, el)
  BY CopiesOfAre DEF Copies, Spots
<1> HIDE DEF T, D
<1>2. p \in CopiesOf(T, D, el) <=> \E y \in T : \E t \in D : p = Join(Slot(y, el), t)
  BY InCopiesOf
<1> QED BY <1>1, <1>2 DEF CopyAt, T, D

LEMMA KeptFacts ==
    ASSUME NEW doc, Tree(doc), NEW path, NEW el \in Steps
    PROVE  /\ Places(doc, path) \subseteq DOMAIN doc.at
           /\ \A p \in DOMAIN doc.at :
                p \in Kept(doc, path, el) <=>
                    ~\E y \in Places(doc, path) :
                        Len(y) < Len(p) /\ IsPrefix(y, p) /\ p[Len(y) + 1] = el
<1>1. Places(doc, path) \subseteq DOMAIN doc.at
  BY DEF Places
<1>2. DOMAIN doc.at \subseteq Paths
  BY DEF Tree, IsTree
<1>3. ASSUME NEW p \in DOMAIN doc.at
      PROVE  p \in Kept(doc, path, el) <=>
                ~\E y \in Places(doc, path) : IsPrefix(Append(y, el), p)
  BY DEF Kept, Below
<1>4. ASSUME NEW p \in DOMAIN doc.at, NEW y \in Places(doc, path)
      PROVE  IsPrefix(Append(y, el), p) <=> Len(y) < Len(p) /\ IsPrefix(y, p) /\ p[Len(y) + 1] = el
  BY <1>1, <1>2, StepLeads
<1> QED BY <1>1, <1>3, <1>4

LEMMA KeptTree ==
    ASSUME NEW doc, Tree(doc), NEW path, NEW el \in Steps
    PROVE  IsTree(Kept(doc, path, el))
<1> DEFINE places == Places(doc, path)
           kept == Kept(doc, path, el)
<1>1. /\ DOMAIN doc.at \subseteq Paths /\ IsFiniteSet(DOMAIN doc.at) /\ Here \in DOMAIN doc.at
      /\ \A p \in DOMAIN doc.at \ {Here} : Front(p) \in DOMAIN doc.at
  BY DEF Tree, IsTree
<1>2. kept \subseteq DOMAIN doc.at /\ places \subseteq Paths
  BY <1>1, KeptFacts DEF Kept
<1>3. IsFiniteSet(kept)
  BY <1>1, <1>2, FS_Subset
<1>4. Here \in kept
  <2>1. Len(Here) = 0
    BY PathFacts, HereLeads
  <2>2. \A y \in places : ~(Len(y) < Len(Here))
    BY <1>2, <2>1, PathFacts
  <2> QED BY <1>1, <2>2, KeptFacts
<1>5. ASSUME NEW p \in kept, p # Here PROVE Front(p) \in kept
  <2>1. p \in DOMAIN doc.at /\ p \in Paths /\ Front(p) \in DOMAIN doc.at
    BY <1>1, <1>2, <1>5
  <2>2. /\ Len(p) \in Nat \ {0} /\ Front(p) \in Paths /\ Len(Front(p)) = Len(p) - 1
        /\ \A i \in 1..(Len(p) - 1) : Front(p)[i] = p[i] /\ Front(p) = Prefix(p, Len(p) - 1)
    BY <1>5, <2>1, FrontFacts
  <2>3. IsPrefix(Front(p), p)
    BY <2>1, <2>2, LeadsPointwise
  <2>4. ASSUME NEW y \in places, Len(y) < Len(Front(p)), IsPrefix(y, Front(p)), Front(p)[Len(y) + 1] = el
        PROVE  FALSE
    <3>1. y \in Paths /\ Len(y) \in Nat
      BY <1>2, PathFacts
    <3>2. IsPrefix(y, p) /\ Len(y) < Len(p) /\ p[Len(y) + 1] = el
      BY <2>1, <2>2, <2>3, <2>4, <3>1, LeadsOn
    <3> QED BY <2>1, <3>2, KeptFacts
  <2> QED BY <2>1, <2>4, KeptFacts
<1> QED BY <1>1, <1>2, <1>3, <1>4, <1>5 DEF IsTree

(* A container is in no element of itself, so a path leads through at most *)
(* one of the elements that are assigned.                                  *)
LEMMA SpotAlone ==
    ASSUME NEW doc, Tree(doc), NEW path, NEW el \in Steps,
           NEW y \in Places(doc, path) \intersect Kept(doc, path, el),
           NEW z \in Places(doc, path) \intersect Kept(doc, path, el),
           NEW p \in Paths, IsPrefix(Append(y, el), p), IsPrefix(Append(z, el), p),
           Len(y) <= Len(z)
    PROVE  y = z
<1>1. y \in Paths /\ z \in Paths /\ z \in DOMAIN doc.at /\ Len(y) \in Nat /\ Len(z) \in Nat
  BY KeptFacts, PathFacts DEF Tree, IsTree
<1>2. /\ Len(y) < Len(p) /\ IsPrefix(y, p) /\ p[Len(y) + 1] = el
      /\ Len(z) < Len(p) /\ IsPrefix(z, p)
  BY <1>1, StepLeads
<1>3. IsPrefix(y, z)
  BY <1>1, <1>2, BothLead
<1>4. /\ \A i \in 1..Len(y) : p[i] = y[i]
      /\ \A i \in 1..Len(z) : p[i] = z[i]
  BY <1>1, <1>2, LeadsPointwise
<1>5. CASE Len(y) < Len(z)
  <2>1. z[Len(y) + 1] = el
    BY <1>1, <1>2, <1>4, <1>5
  <2> QED BY <1>1, <1>3, <1>5, <2>1, KeptFacts
<1>6. CASE Len(y) = Len(z)
  BY <1>1, <1>4, <1>6, SamePath
<1> QED BY <1>1, <1>5, <1>6

CopiedFrom(doc, path, el, sub, p) ==
    \E y \in Places(doc, path) \intersect Kept(doc, path, el) : \E t \in DOMAIN sub.at :
        p = CopyAt(y, el, t) /\ TailOf(doc, path, el, p) = t

LEMMA CopyFacts ==
    ASSUME NEW doc, Tree(doc), NEW path, NEW el \in Steps, NEW sub, Tree(sub),
           NEW p \in Copies(doc, path, el, sub)
    PROVE  p \in Paths /\ CopiedFrom(doc, path, el, sub, p)
<1> DEFINE spot == Spot(doc, path, el, p)
<1>1. PICK y \in Places(doc, path) \intersect Kept(doc, path, el), t \in DOMAIN sub.at :
        p = Append(y, el) \o t
  BY InCopies DEF CopyAt, Join, Slot
<1>2. y \in Paths /\ t \in Paths
  BY KeptFacts DEF Tree, IsTree
<1>3. Append(y, el) \in Paths
  BY <1>2, StepFacts
<1>4. p \in Paths
  BY <1>1, <1>2, <1>3, JoinFacts
<1>5. IsPrefix(Append(y, el), p) /\ SubSeq(p, Len(Append(y, el)) + 1, Len(p)) = t
  BY <1>1, <1>2, <1>3, JoinLeads
<1>6. Append(y, el) \in Spots(doc, path, el)
  BY DEF Spots
<1>7. spot \in Spots(doc, path, el) /\ IsPrefix(spot, p)
  BY <1>5, <1>6 DEF Spot
<1> HIDE DEF spot
<1>8. PICK z \in Places(doc, path) \intersect Kept(doc, path, el) : spot = Append(z, el)
  BY <1>7 DEF Spots
<1>9. z \in Paths /\ IsPrefix(Append(z, el), p) /\ IsPrefix(Append(y, el), p)
  BY <1>5, <1>7, <1>8, KeptFacts DEF Tree, IsTree
<1>10. z = y
  <2>1. Len(y) \in Nat /\ Len(z) \in Nat
    BY <1>2, <1>9, PathFacts
  <2>2. CASE Len(y) <= Len(z)
    BY <1>4, <1>9, <2>2, SpotAlone
  <2>3. CASE Len(z) <= Len(y)
    BY <1>4, <1>9, <2>3, SpotAlone
  <2> QED BY <2>1, <2>2, <2>3
<1>11. p = CopyAt(y, el, t)
  BY <1>1 DEF CopyAt, Join, Slot
<1>12. SubSeq(p, Len(spot) + 1, Len(p)) = t
  BY <1>5, <1>8, <1>10
<1>13. TailOf(doc, path, el, p) = t
  BY <1>12 DEF spot, TailOf
<1>14. CopiedFrom(doc, path, el, sub, p)
  BY <1>11, <1>13 DEF CopiedFrom
<1> QED BY <1>4, <1>14

(* What a document is after Put.                                           *)
PutGives(out, doc, path, el, sub) ==
    /\ DOMAIN out.at = Kept(doc, path, el) \union Copies(doc, path, el, sub)
    /\ DOMAIN out.ref = DOMAIN out.at
    /\ \A p \in Kept(doc, path, el) \ Copies(doc, path, el, sub) :
          out.at[p] = doc.at[p] /\ out.ref[p] = doc.ref[p]
    /\ \A p \in Copies(doc, path, el, sub) :
          \E y \in Places(doc, path) \intersect Kept(doc, path, el) : \E t \in DOMAIN sub.at :
              p = CopyAt(y, el, t) /\ out.at[p] = sub.at[t] /\ out.ref[p] = sub.ref[t]

LEMMA PutFacts ==
    ASSUME NEW doc, Tree(doc), NEW path, NEW el \in Steps, NEW sub, Tree(sub),
           NEW out, out = Put(doc, path, el, sub), out # Cyclic
    PROVE  PutGives(out, doc, path, el, sub)
<1> DEFINE kept == Kept(doc, path, el)
           new == Copies(doc, path, el, sub)
           tail(p) == TailOf(doc, path, el, p)
<1>1. out = [at  |-> [p \in kept \union new |-> IF p \in new THEN sub.at[tail(p)] ELSE doc.at[p]],
             ref |-> [p \in kept \union new |-> IF p \in new THEN sub.ref[tail(p)] ELSE doc.ref[p]]]
  BY DEF Put, Kept, Spots, Spot, Copies, TailOf
<1>2. ASSUME NEW p \in new
      PROVE  \E y \in Places(doc, path) \intersect kept : \E t \in DOMAIN sub.at :
                p = CopyAt(y, el, t) /\ tail(p) = t
  <2>1. p \in Copies(doc, path, el, sub)
    OBVIOUS
  <2>2. \E y \in Places(doc, path) \intersect Kept(doc, path, el) : \E t \in DOMAIN sub.at :
            p = CopyAt(y, el, t) /\ TailOf(doc, path, el, p) = t
    <3>1. CopiedFrom(doc, path, el, sub, p)
      BY <2>1, CopyFacts
    <3> QED BY <3>1, Zenon DEF CopiedFrom
  <2> QED BY <2>2, Zenon
<1> HIDE DEF kept, new, tail
<1>3. ASSUME NEW p \in new
      PROVE  \E y \in Places(doc, path) \intersect kept : \E t \in DOMAIN sub.at :
                p = CopyAt(y, el, t) /\ out.at[p] = sub.at[t] /\ out.ref[p] = sub.ref[t]
  <2>1. out.at[p] = sub.at[tail(p)] /\ out.ref[p] = sub.ref[tail(p)]
    BY <1>1
  <2> QED BY <1>2, <2>1
<1>4. /\ DOMAIN out.at = kept \union new /\ DOMAIN out.ref = kept \union new
      /\ \A p \in kept \ new : out.at[p] = doc.at[p] /\ out.ref[p] = doc.ref[p]
  BY <1>1
<1> QED BY <1>3, <1>4 DEF kept, new, PutGives

LEMMA PutTree ==
    ASSUME NEW doc, Tree(doc), NEW path, NEW el \in Steps, NEW sub, Tree(sub),
           NEW out, out = Put(doc, path, el, sub), out # Cyclic
    PROVE  Tree(out)
<1> DEFINE places == Places(doc, path)
           kept == Kept(doc, path, el)
           new == Copies(doc, path, el, sub)
           all == kept \union new
<1>1. DOMAIN out.at = all /\ DOMAIN out.ref = all
  BY PutFacts DEF PutGives
<1>2. /\ DOMAIN doc.at \subseteq Paths /\ IsFiniteSet(DOMAIN doc.at) /\ Here \in DOMAIN doc.at
      /\ DOMAIN sub.at \subseteq Paths /\ IsFiniteSet(DOMAIN sub.at) /\ Here \in DOMAIN sub.at
      /\ \A p \in DOMAIN doc.at \ {Here} : Front(p) \in DOMAIN doc.at
      /\ \A p \in DOMAIN sub.at \ {Here} : Front(p) \in DOMAIN sub.at
  BY DEF Tree, IsTree
<1>3. kept \subseteq DOMAIN doc.at /\ places \subseteq Paths
  BY <1>2, KeptFacts DEF Kept
<1>4. ASSUME NEW y \in places \intersect kept, NEW t \in DOMAIN sub.at
      PROVE  CopyAt(y, el, t) \in new
  BY InCopies
<1>5. ASSUME NEW p \in new
      PROVE  p \in Paths /\ \E y \in places \intersect kept : \E t \in DOMAIN sub.at : p = CopyAt(y, el, t)
  <2>1. p \in Paths
    BY CopyFacts
  <2>2. \E y \in Places(doc, path) \intersect Kept(doc, path, el) : \E t \in DOMAIN sub.at :
            p = CopyAt(y, el, t)
    BY InCopies
  <2> QED BY <2>1, <2>2, Zenon
<1>6. IsFiniteSet(all)
  <2>1. IsFiniteSet(kept)
    BY KeptTree DEF IsTree
  <2> DEFINE T == places \intersect kept
             D == DOMAIN sub.at
             f == [z \in T \X D |-> CopyAt(z[1], el, z[2])]
  <2>2. IsFiniteSet(T) /\ IsFiniteSet(D)
    BY <1>2, <2>1, FS_Subset
  <2>3. DOMAIN f = T \X D /\ f = [z \in T \X D |-> f[z]]
    OBVIOUS
  <2>4. new = {f[z] : z \in T \X D}
    <3>1. \A y \in T, t \in D : <<y, t>> \in T \X D /\ f[<<y, t>>] = CopyAt(y, el, t)
      OBVIOUS
    <3>2. \A z \in T \X D : z[1] \in T /\ z[2] \in D /\ f[z] = CopyAt(z[1], el, z[2])
      OBVIOUS
    <3>3. \A p : p \in new <=> \E y \in T : \E t \in D : p = CopyAt(y, el, t)
      BY InCopies
    <3> HIDE DEF T, D, f, new
    <3>4. ASSUME NEW p PROVE p \in new <=> p \in {f[z] : z \in T \X D}
      <4>1. ASSUME p \in new PROVE \E z \in T \X D : p = f[z]
        <5>1. PICK y \in T, t \in D : p = CopyAt(y, el, t)
          BY <3>3, <4>1
        <5> QED BY <3>1, <5>1
      <4>2. ASSUME NEW z \in T \X D, p = f[z] PROVE p \in new
        BY <3>2, <3>3, <4>2
      <4> QED BY <4>1, <4>2
    <3> QED BY <3>4
  <2> HIDE DEF T, D, f
  <2>5. IsFiniteSet(T \X D)
    BY <2>2, FS_Product
  <2> HIDE DEF new, kept
  <2>8. IsFiniteSet(new)
    BY <2>3, <2>4, <2>5, FiniteImage
  <2> QED BY <2>1, <2>8, FS_Union
<1>7. Here \in all
  BY KeptTree DEF IsTree
<1>8. ASSUME NEW p \in kept, p # Here PROVE Front(p) \in all
  BY <1>8, KeptTree DEF IsTree
<1>9. ASSUME NEW p \in new, p # Here PROVE Front(p) \in all
  <2>1. PICK y \in places \intersect kept, t \in DOMAIN sub.at : p = CopyAt(y, el, t)
    BY <1>5
  <2>2. y \in Paths /\ t \in Paths /\ p \in Paths
    BY <1>2, <1>3, <1>5
  <2>3. PICK s \in Paths : s = Append(y, el)
    BY <2>2, StepFacts
  <2>4. p = s \o t
    BY <2>1, <2>3 DEF CopyAt, Join, Slot
  <2>7. CASE t = Here
    <3>1. p = s
      BY <2>4, <2>7, ConcatEmptySeq DEF Here, Paths
    <3>2. Front(p) = y
      BY <2>2, <2>3, <3>1, FrontOfStep
    <3> QED BY <3>2
  <2>8. CASE t # Here
    <3>1. Front(t) \in DOMAIN sub.at
      BY <1>2, <2>8
    <3>2. Front(p) = s \o Front(t)
      BY <2>2, <2>4, <2>8, FrontOfJoin
    <3>3. CopyAt(y, el, Front(t)) \in new
      BY <1>4, <3>1
    <3> HIDE DEF new, kept, places
    <3> QED BY <2>3, <3>2, <3>3 DEF CopyAt, Join, Slot
  <2> QED BY <2>7, <2>8
<1>10. all \subseteq Paths
  BY <1>2, <1>3, <1>5
<1> HIDE DEF kept, new
<1>11. \A p \in all \ {Here} : Front(p) \in all
  BY <1>8, <1>9
<1> HIDE DEF all
<1> QED BY <1>1, <1>6, <1>7, <1>10, <1>11 DEF Tree, IsTree

LEMMA CopiesApart ==
    ASSUME NEW doc, Tree(doc), NEW path, NEW el \in Steps, NEW sub, Tree(sub),
           NEW p \in Copies(doc, path, el, sub)
    PROVE  p \notin Kept(doc, path, el) /\ p # Here
<1>1. PICK y \in Places(doc, path) \intersect Kept(doc, path, el), t \in DOMAIN sub.at :
        p = CopyAt(y, el, t)
  BY InCopies
<1>2. y \in Paths /\ t \in Paths /\ Append(y, el) \in Paths
  BY KeptFacts, StepFacts DEF Tree, IsTree
<1>3. p \in Paths /\ IsPrefix(Append(y, el), p)
  BY <1>1, <1>2, JoinFacts, JoinLeads DEF CopyAt, Join, Slot
<1>4. Len(y) < Len(p) /\ IsPrefix(y, p) /\ p[Len(y) + 1] = el /\ Len(y) \in Nat /\ Len(p) \in Nat
  BY <1>2, <1>3, StepLeads, PathFacts
<1>5. p \notin Kept(doc, path, el)
  <2>1. p \in DOMAIN doc.at => p \notin Kept(doc, path, el)
    BY <1>4, KeptFacts
  <2> QED BY <2>1 DEF Kept
<1>6. p # Here
  BY <1>3, <1>4, PathFacts
<1> QED BY <1>5, <1>6

(* Attributes that the update does not name, and :refs, keep their places. *)
LEMMA TopKept ==
    ASSUME NEW doc, Tree(doc), Sole(doc), NEW x \in DOMAIN doc.at, NEW el \in Steps,
           NEW p \in DOMAIN doc.at, Len(p) = 1, x = Here => p[1] # el
    PROVE  p \in Kept(doc, x, el)
<1> SUFFICES ASSUME NEW y \in Places(doc, x), Len(y) < Len(p), IsPrefix(y, p), p[Len(y) + 1] = el
             PROVE  FALSE
  BY KeptFacts
<1>1. y \in DOMAIN doc.at /\ y \in Paths /\ doc.ref[y] = doc.ref[x] /\ Len(y) \in Nat
  BY PathFacts DEF Places, Tree, IsTree
<1>2. Len(y) = 0
  BY <1>1
<1>3. y = Here
  BY <1>1, <1>2, PathFacts
<1>4. x = Here
  BY <1>1, <1>3 DEF Sole
<1> QED BY <1>2, <1>4

LEMMA HereKept ==
    ASSUME NEW doc, Tree(doc), NEW x, NEW el \in Steps
    PROVE  Here \in Kept(doc, x, el)
BY KeptTree DEF IsTree

LEMMA PutRooted ==
    ASSUME NEW doc, Rooted(doc), NEW x \in DOMAIN doc.at, NEW el \in Steps, x = Here => ~el.isIdx,
           NEW sub, Branch(sub), NEW out, out = Put(doc, x, el, sub), out # Cyclic
    PROVE  Rooted(out)
<1>1. Tree(doc) /\ Sole(doc) /\ Holds(doc) /\ Tree(sub) /\ Detached(sub)
  BY DEF Rooted, Branch
<1>2. PutGives(out, doc, x, el, sub) /\ Tree(out)
  BY <1>1, PutFacts, PutTree
<1>3. ASSUME NEW p \in DOMAIN out.at PROVE out.ref[p] = Read(Here) <=> p = Here
  <2>1. CASE p \in Copies(doc, x, el, sub)
    <3>1. \E t \in DOMAIN sub.at : out.ref[p] = sub.ref[t]
      BY <1>2, <2>1 DEF PutGives
    <3>2. p # Here
      BY <1>1, <2>1, CopiesApart
    <3> QED BY <1>1, <3>1, <3>2 DEF Detached
  <2>2. CASE p \notin Copies(doc, x, el, sub)
    <3>1. p \in Kept(doc, x, el) /\ out.ref[p] = doc.ref[p]
      BY <1>2, <2>2 DEF PutGives
    <3> QED BY <1>1, <3>1 DEF Kept, Sole
  <2> QED BY <2>1, <2>2
<1>4. ASSUME NEW v \in DOMAIN Refs PROVE RefPath(v) \in DOMAIN out.at
  <2>1. RefPath(v) \in DOMAIN doc.at /\ Len(RefPath(v)) = 1 /\ RefPath(v)[1].isIdx
    BY <1>1, RefPathFacts DEF Holds
  <2>2. RefPath(v) \in Kept(doc, x, el)
    BY <1>1, <2>1, TopKept
  <2> QED BY <1>2, <2>2 DEF PutGives
<1> QED BY <1>2, <1>3, <1>4 DEF Rooted, Sole, Holds

-----------------------------------------------------------------------------
(* Cut                                                                     *)

(* Whether the i-th step of p is to an element that moves down.            *)
Turns(places, el, p, i) ==
    Prefix(p, i - 1) \in places /\ el.isIdx /\ p[i].isIdx /\ p[i].index > el.index

Moved(places, el, p) ==
    [i \in 1..Len(p) |->
        IF i \in {Len(q) + 1 : q \in {r \in places : Len(r) < Len(p) /\ IsPrefix(r, p)}}
           /\ el.isIdx /\ p[i].isIdx /\ p[i].index > el.index
        THEN Index(p[i].index - 1) ELSE p[i]]

LEMMA MovedFacts ==
    ASSUME NEW places, places \subseteq Paths, NEW el \in Steps, NEW p \in Paths
    PROVE  /\ Moved(places, el, p) \in Paths
           /\ Len(Moved(places, el, p)) = Len(p)
           /\ \A i \in 1..Len(p) :
                Moved(places, el, p)[i] = IF Turns(places, el, p, i) THEN Index(p[i].index - 1) ELSE p[i]
<1> DEFINE moves == {Len(q) + 1 : q \in {r \in places : Len(r) < Len(p) /\ IsPrefix(r, p)}}
           m == Moved(places, el, p)
<1>0. Len(p) \in Nat /\ \A i \in 1..Len(p) : p[i] \in Steps /\ p[i].index \in Nat
  BY PathFacts, StepIndex
<1>1. ASSUME NEW i \in 1..Len(p) PROVE i \in moves <=> Prefix(p, i - 1) \in places
  <2>1. i - 1 \in 0..Len(p)
    BY <1>0
  <2>2. PICK r : r = Prefix(p, i - 1)
    OBVIOUS
  <2>3. r \in Paths /\ Len(r) = i - 1 /\ IsPrefix(r, p)
    BY <2>1, <2>2, PrefixFacts, PrefixLeads
  <2>4. ASSUME r \in places PROVE i \in moves
    <3>1. Len(r) < Len(p) /\ i = Len(r) + 1
      BY <1>0, <2>3
    <3> QED BY <2>3, <2>4, <3>1
  <2>5. ASSUME i \in moves PROVE r \in places
    <3>1. PICK q \in places : Len(q) < Len(p) /\ IsPrefix(q, p) /\ i = Len(q) + 1
      BY <2>5
    <3>2. q \in Paths /\ Len(q) \in Nat
      BY PathFacts
    <3>3. q = Prefix(p, Len(q)) /\ Len(q) = i - 1
      BY <3>1, <3>2, LeadsAs
    <3> QED BY <2>2, <3>3
  <2> QED BY <2>2, <2>4, <2>5
<1>2. m = [i \in 1..Len(p) |->
            IF i \in moves /\ el.isIdx /\ p[i].isIdx /\ p[i].index > el.index
            THEN Index(p[i].index - 1) ELSE p[i]]
  BY DEF Moved
<1> HIDE DEF moves, m
<1>3. ASSUME NEW i \in 1..Len(p)
      PROVE  m[i] = IF Turns(places, el, p, i) THEN Index(p[i].index - 1) ELSE p[i]
  BY <1>1, <1>2 DEF Turns
<1>4. ASSUME NEW i \in 1..Len(p) PROVE m[i] \in Steps
  <2>1. CASE Turns(places, el, p, i)
    <3>1. el.index \in Nat /\ p[i].index \in Nat /\ p[i].index > el.index
      BY <1>0, <2>1, StepIndex DEF Turns
    <3>2. p[i].index - 1 \in Nat
      BY <3>1
    <3>3. Index(p[i].index - 1) \in Steps
      BY <3>2, IndexStep
    <3> QED BY <1>3, <2>1, <3>3
  <2>2. CASE ~Turns(places, el, p, i)
    BY <1>0, <1>3, <2>2
  <2> QED BY <2>1, <2>2
<1>5. m \in [1..Len(p) -> Steps]
  BY <1>2, <1>4
<1>6. m \in Seq(Steps) /\ Len(m) = Len(p)
  BY <1>0, <1>5
<1> QED BY <1>3, <1>6 DEF m, Paths

(* What a document is after Cut.                                           *)
CutGives(out, doc, path, el) ==
    /\ DOMAIN out.at = {Moved(Places(doc, path), el, q) : q \in Kept(doc, path, el)}
    /\ DOMAIN out.ref = DOMAIN out.at
    /\ \A p \in DOMAIN out.at : \E q \in Kept(doc, path, el) :
          /\ Moved(Places(doc, path), el, q) = p
          /\ out.at[p] = doc.at[q] /\ out.ref[p] = doc.ref[q]

LEMMA CutFacts ==
    ASSUME NEW doc, Tree(doc), NEW path, NEW el \in Steps,
           NEW out, out = Cut(doc, path, el)
    PROVE  CutGives(out, doc, path, el)
<1> DEFINE kept == Kept(doc, path, el)
           moved(p) == Moved(Places(doc, path), el, p)
           was == [p \in {moved(q) : q \in kept} |-> CHOOSE q \in kept : moved(q) = p]
<1>1. out = [at  |-> [p \in DOMAIN was |-> doc.at[was[p]]],
             ref |-> [p \in DOMAIN was |-> doc.ref[was[p]]]]
  BY DEF Cut, Kept, Moved
<1> HIDE DEF moved
<1>2. DOMAIN was = {moved(q) : q \in kept}
  OBVIOUS
<1>3. ASSUME NEW p \in DOMAIN was PROVE was[p] \in kept /\ moved(was[p]) = p
  <2>1. \E q \in kept : moved(q) = p
    OBVIOUS
  <2>2. was[p] = CHOOSE q \in kept : moved(q) = p
    OBVIOUS
  <2> HIDE DEF kept, was
  <2> QED BY <2>1, <2>2
<1> HIDE DEF kept, was
<1>4. /\ DOMAIN out.at = DOMAIN was /\ DOMAIN out.ref = DOMAIN was
      /\ \A p \in DOMAIN was : out.at[p] = doc.at[was[p]] /\ out.ref[p] = doc.ref[was[p]]
  BY <1>1
<1>5. \A p \in DOMAIN out.at : \E q \in kept :
        moved(q) = p /\ out.at[p] = doc.at[q] /\ out.ref[p] = doc.ref[q]
  BY <1>3, <1>4
<1> QED BY <1>2, <1>4, <1>5 DEF CutGives, kept, moved

LEMMA CutTree ==
    ASSUME NEW doc, Tree(doc), NEW path, NEW el \in Steps,
           NEW out, out = Cut(doc, path, el)
    PROVE  Tree(out)
<1> DEFINE places == Places(doc, path)
           kept == Kept(doc, path, el)
           moved(p) == Moved(places, el, p)
           all == {moved(q) : q \in kept}
<1>1. DOMAIN out.at = all /\ DOMAIN out.ref = all
  BY CutFacts DEF CutGives
<1>2. /\ kept \subseteq Paths /\ IsFiniteSet(kept) /\ Here \in kept
      /\ \A p \in kept \ {Here} : Front(p) \in kept
  BY KeptTree DEF IsTree
<1>3. places \subseteq Paths
  BY KeptFacts DEF Tree, IsTree
<1>4. ASSUME NEW q \in kept
      PROVE  /\ moved(q) \in Paths /\ Len(moved(q)) = Len(q)
             /\ \A i \in 1..Len(q) :
                  moved(q)[i] = IF Turns(places, el, q, i) THEN Index(q[i].index - 1) ELSE q[i]
  BY <1>2, <1>3, MovedFacts
<1> HIDE DEF moved, places, kept
<1>5. IsFiniteSet(all)
  <2> DEFINE f == [q \in kept |-> moved(q)]
  <2>1. DOMAIN f = kept /\ f = [q \in kept |-> f[q]] /\ all = {f[q] : q \in kept}
    OBVIOUS
  <2> HIDE DEF f, all
  <2> QED BY <1>2, <2>1, FiniteImage
<1>6. Here \in all
  <2>1. Len(Here) = 0
    BY HereLeads, PathFacts
  <2>2. moved(Here) = Here
    BY <1>2, <1>4, <2>1, PathFacts
  <2> QED BY <1>2, <2>2
<1>7. ASSUME NEW p \in all, p # Here PROVE Front(p) \in all
  <2>1. PICK q \in kept : p = moved(q)
    OBVIOUS
  <2>2. p \in Paths /\ q \in Paths /\ Len(p) = Len(q) /\ Len(q) \in Nat \ {0} /\ q # Here
    BY <1>2, <1>4, <1>7, <2>1, PathFacts
  <2>3. PICK f \in kept : f = Front(q)
    BY <1>2, <2>2
  <2>4. /\ f \in Paths /\ Len(f) = Len(q) - 1
        /\ \A i \in 1..(Len(q) - 1) : f[i] = q[i]
    BY <2>2, <2>3, FrontFacts
  <2>5. /\ Front(p) \in Paths /\ Len(Front(p)) = Len(q) - 1
        /\ \A i \in 1..(Len(q) - 1) : Front(p)[i] = p[i]
    BY <1>7, <2>2, FrontFacts
  <2>6. moved(f) \in Paths /\ Len(moved(f)) = Len(q) - 1
    BY <1>4, <2>4
  <2>7. ASSUME NEW i \in 1..(Len(q) - 1) PROVE moved(f)[i] = Front(p)[i]
    <3>1. i \in 1..Len(f) /\ i \in 1..Len(q) /\ i - 1 \in 0..Len(f) /\ i - 1 \in 0..Len(q)
      BY <2>2, <2>4
    <3>2. Prefix(f, i - 1) = Prefix(q, i - 1)
      <4>1. /\ Prefix(f, i - 1) \in Paths /\ Len(Prefix(f, i - 1)) = i - 1
            /\ \A j \in 1..(i - 1) : Prefix(f, i - 1)[j] = f[j]
        BY <2>4, <3>1, PrefixFacts
      <4>2. /\ Prefix(q, i - 1) \in Paths /\ Len(Prefix(q, i - 1)) = i - 1
            /\ \A j \in 1..(i - 1) : Prefix(q, i - 1)[j] = q[j]
        BY <2>2, <3>1, PrefixFacts
      <4>3. \A j \in 1..(i - 1) : Prefix(f, i - 1)[j] = Prefix(q, i - 1)[j]
        BY <2>2, <2>4, <3>1, <4>1, <4>2
      <4> QED BY <4>1, <4>2, <4>3, SamePath
    <3>3. f[i] = q[i]
      BY <2>4
    <3>4. Turns(places, el, f, i) <=> Turns(places, el, q, i)
      BY <3>2, <3>3 DEF Turns
    <3>5. moved(f)[i] = IF Turns(places, el, f, i) THEN Index(f[i].index - 1) ELSE f[i]
      BY <1>4, <3>1
    <3>6. moved(q)[i] = IF Turns(places, el, q, i) THEN Index(q[i].index - 1) ELSE q[i]
      BY <1>4, <3>1
    <3> QED BY <2>1, <2>5, <3>3, <3>4, <3>5, <3>6
  <2>8. moved(f) = Front(p)
    BY <2>5, <2>6, <2>7, SamePath
  <2> QED BY <2>3, <2>8
<1>8. all \subseteq Paths
  BY <1>4
<1> HIDE DEF all
<1> QED BY <1>1, <1>5, <1>6, <1>7, <1>8 DEF Tree, IsTree

LEMMA TopStays ==
    ASSUME NEW doc, Tree(doc), Sole(doc), NEW x \in DOMAIN doc.at, NEW el \in Steps, x = Here => ~el.isIdx,
           NEW p \in Paths, Len(p) <= 1
    PROVE  Moved(Places(doc, x), el, p) = p
<1>1. Places(doc, x) \subseteq Paths
  BY KeptFacts DEF Tree, IsTree
<1>2. /\ Moved(Places(doc, x), el, p) \in Paths
      /\ Len(Moved(Places(doc, x), el, p)) = Len(p)
      /\ \A i \in 1..Len(p) :
           Moved(Places(doc, x), el, p)[i] =
              IF Turns(Places(doc, x), el, p, i) THEN Index(p[i].index - 1) ELSE p[i]
  BY <1>1, MovedFacts
<1>3. ASSUME NEW i \in 1..Len(p) PROVE ~Turns(Places(doc, x), el, p, i)
  <2>1. SUFFICES ASSUME Turns(Places(doc, x), el, p, i) PROVE FALSE
    OBVIOUS
  <2>2. Prefix(p, i - 1) \in Places(doc, x) /\ el.isIdx
    BY <2>1 DEF Turns
  <2>3. Len(p) \in Nat /\ i = 1 /\ 0 \in 0..Len(p) /\ i - 1 = 0
    BY PathFacts
  <2>4. Prefix(p, 0) = Here
    BY <2>3, PrefixFacts, PathFacts
  <2>5. Here \in Places(doc, x)
    BY <2>2, <2>3, <2>4
  <2>6. x = Here
    BY <2>5 DEF Places, Sole
  <2> QED BY <2>2, <2>6
<1> QED BY <1>2, <1>3, SamePath

LEMMA CutRooted ==
    ASSUME NEW doc, Rooted(doc), NEW x \in DOMAIN doc.at, NEW el \in Steps, x = Here => ~el.isIdx,
           NEW out, out = Cut(doc, x, el)
    PROVE  Rooted(out)
<1>1. Tree(doc) /\ Sole(doc) /\ Holds(doc)
  BY DEF Rooted
<1>2. CutGives(out, doc, x, el) /\ Tree(out)
  BY <1>1, CutFacts, CutTree
<1>3. ASSUME NEW p \in DOMAIN out.at PROVE out.ref[p] = Read(Here) <=> p = Here
  <2>1. PICK q \in Kept(doc, x, el) : Moved(Places(doc, x), el, q) = p /\ out.ref[p] = doc.ref[q]
    BY <1>2, <1>3 DEF CutGives
  <2>2. q \in DOMAIN doc.at /\ q \in Paths /\ Places(doc, x) \subseteq Paths
    BY <1>1 DEF Kept, Tree, IsTree, Places
  <2>3. p \in Paths /\ Len(p) = Len(q)
    BY <2>1, <2>2, MovedFacts
  <2>4. p = Here <=> q = Here
    BY <2>2, <2>3, PathFacts
  <2> QED BY <1>1, <2>1, <2>2, <2>4 DEF Sole
<1>4. ASSUME NEW v \in DOMAIN Refs PROVE RefPath(v) \in DOMAIN out.at
  <2>0. PICK r : r = RefPath(v)
    OBVIOUS
  <2>1. r \in Paths /\ Len(r) = 1 /\ Len(r) <= 1 /\ r[1].isIdx
    BY <2>0, RefPathFacts
  <2>5. r \in DOMAIN doc.at
    BY <1>1, <2>0 DEF Holds
  <2>2. r \in Kept(doc, x, el)
    BY <1>1, <2>1, <2>5, TopKept
  <2>3. Moved(Places(doc, x), el, r) = r
    BY <1>1, <2>1, TopStays
  <2> QED BY <1>2, <2>0, <2>2, <2>3 DEF CutGives
<1> QED BY <1>2, <1>3, <1>4 DEF Rooted, Sole, Holds

-----------------------------------------------------------------------------
(* setPath                                                                 *)

(* What is assigned: the maps that are missing, and the value below them.  *)
Maps(rest) == {Prefix(rest, n) : n \in 0..(Len(rest) - 1)}
Nodes(rest, sub) == Maps(rest) \union {Join(rest, p) : p \in DOMAIN sub.at}

LEMMA NodesTree ==
    ASSUME NEW rest \in Paths, NEW sub, Tree(sub)
    PROVE  IsTree(Nodes(rest, sub))
<1> DEFINE below == {Join(rest, p) : p \in DOMAIN sub.at}
<1>0. Len(rest) \in Nat
  BY PathFacts
<1>1. /\ DOMAIN sub.at \subseteq Paths /\ IsFiniteSet(DOMAIN sub.at) /\ Here \in DOMAIN sub.at
      /\ \A p \in DOMAIN sub.at \ {Here} : Front(p) \in DOMAIN sub.at
  BY DEF Tree, IsTree
<1>2. Maps(rest) \subseteq Paths
  BY <1>0, PrefixFacts DEF Maps
<1>3. below \subseteq Paths
  <2>1. \A p \in Paths : Join(rest, p) \in Paths
    BY JoinFacts DEF Join
  <2> QED BY <1>1, <2>1
<1>4. IsFiniteSet(Nodes(rest, sub))
  <2> DEFINE f == [n \in 0..(Len(rest) - 1) |-> Prefix(rest, n)]
             g == [p \in DOMAIN sub.at |-> Join(rest, p)]
  <2>1. DOMAIN f = 0..(Len(rest) - 1) /\ f = [n \in DOMAIN f |-> f[n]] /\ Maps(rest) = {f[n] : n \in DOMAIN f}
    BY DEF Maps
  <2>2. DOMAIN g = DOMAIN sub.at /\ g = [p \in DOMAIN g |-> g[p]] /\ below = {g[p] : p \in DOMAIN g}
    OBVIOUS
  <2>3. IsFiniteSet(0..(Len(rest) - 1))
    BY <1>0, FS_Interval
  <2> HIDE DEF f, g
  <2>4. IsFiniteSet(Maps(rest))
    BY <2>1, <2>3, FiniteImage
  <2>5. IsFiniteSet(below)
    BY <1>1, <2>2, FiniteImage
  <2> HIDE DEF below
  <2>6. IsFiniteSet(Maps(rest) \union below)
    BY <2>4, <2>5, FS_Union
  <2> QED BY <2>6 DEF Nodes, below
<1>5. rest \in Nodes(rest, sub)
  <2>1. Join(rest, Here) = rest
    BY ConcatEmptySeq DEF Join, Here, Paths
  <2>2. Join(rest, Here) \in below
    BY <1>1
  <2> QED BY <2>1, <2>2 DEF Nodes
<1>6. ASSUME NEW n \in 0..(Len(rest) - 1) PROVE Prefix(rest, n) \in Nodes(rest, sub)
  BY DEF Nodes, Maps
<1>7. Here \in Nodes(rest, sub)
  <2>1. CASE Len(rest) = 0
    BY <1>5, <2>1, PathFacts
  <2>2. CASE Len(rest) # 0
    <3>1. 0 \in 0..(Len(rest) - 1) /\ 0 \in 0..Len(rest)
      BY <1>0, <2>2
    <3>2. Prefix(rest, 0) = Here
      BY <3>1, PrefixFacts, PathFacts
    <3> QED BY <1>6, <3>1, <3>2
  <2> QED BY <2>1, <2>2
<1>8. ASSUME NEW n \in 1..Len(rest), NEW p, p = Prefix(rest, n) PROVE Front(p) \in Nodes(rest, sub)
  <2>1. n \in 0..Len(rest) /\ n - 1 \in 0..(Len(rest) - 1) /\ n - 1 \in 0..Len(rest)
    BY <1>0
  <2>2. p \in Paths /\ Len(p) = n /\ \A i \in 1..n : p[i] = rest[i]
    BY <1>8, <2>1, PrefixFacts
  <2>3. p # Here
    BY <1>0, <2>2, PathFacts
  <2>4. /\ Front(p) \in Paths /\ Len(Front(p)) = n - 1
        /\ \A i \in 1..(n - 1) : Front(p)[i] = p[i]
    BY <2>2, <2>3, FrontFacts
  <2>5. /\ Prefix(rest, n - 1) \in Paths /\ Len(Prefix(rest, n - 1)) = n - 1
        /\ \A i \in 1..(n - 1) : Prefix(rest, n - 1)[i] = rest[i]
    BY <2>1, PrefixFacts
  <2>6. \A i \in 1..(n - 1) : Front(p)[i] = Prefix(rest, n - 1)[i]
    BY <2>1, <2>2, <2>4, <2>5
  <2>7. Front(p) = Prefix(rest, n - 1)
    BY <2>4, <2>5, <2>6, SamePath
  <2> QED BY <1>6, <2>1, <2>7
<1>9. ASSUME NEW p \in Maps(rest), p # Here PROVE Front(p) \in Nodes(rest, sub)
  <2>1. PICK n \in 0..(Len(rest) - 1) : p = Prefix(rest, n)
    BY DEF Maps
  <2>2. n \in 0..Len(rest)
    BY <1>0
  <2>3. n # 0
    BY <1>9, <2>1, <2>2, PrefixFacts, PathFacts
  <2>4. n \in 1..Len(rest)
    BY <1>0, <2>3
  <2> QED BY <1>8, <2>1, <2>4
<1>10. ASSUME NEW q \in DOMAIN sub.at, NEW p, p = Join(rest, q), p # Here PROVE Front(p) \in Nodes(rest, sub)
  <2>0. q \in Paths
    BY <1>1
  <2>1. CASE q = Here
    <3>1. p = rest
      BY <1>10, <2>1, ConcatEmptySeq DEF Join, Here, Paths
    <3>2. rest = Prefix(rest, Len(rest)) /\ Len(rest) \in 1..Len(rest)
      BY <1>0, <1>10, <3>1, LeadsToItself, LeadsAs, PathFacts
    <3> QED BY <1>8, <3>1, <3>2
  <2>2. CASE q # Here
    <3>1. Front(q) \in DOMAIN sub.at
      BY <1>1, <2>2
    <3>2. Front(p) = Join(rest, Front(q))
      BY <1>10, <2>0, <2>2, FrontOfJoin DEF Join
    <3> QED BY <3>1, <3>2 DEF Nodes
  <2> QED BY <2>1, <2>2
<1>11. ASSUME NEW p \in Nodes(rest, sub), p # Here PROVE Front(p) \in Nodes(rest, sub)
  <2>1. CASE p \in Maps(rest)
    BY <1>9, <1>11, <2>1
  <2>2. CASE p \in below
    BY <1>10, <1>11, <2>2
  <2> QED BY <2>1, <2>2 DEF Nodes
<1>12. Nodes(rest, sub) \subseteq Paths
  BY <1>2, <1>3 DEF Nodes
<1> QED BY <1>4, <1>7, <1>11, <1>12 DEF IsTree

(* What a document is after setPath.                                       *)
SetGives(out, doc, path, x, el, chain) ==
    /\ Branch(chain) /\ out = Put(doc, x, el, chain)
    /\ x \in DOMAIN doc.at /\ el \in Steps /\ IsPrefix(Append(x, el), path)
    /\ Append(x, el) \in DOMAIN doc.at => Append(x, el) = path
    /\ \A t \in DOMAIN chain.at :
          \/ IsPrefix(path, CopyAt(x, el, t))
          \/ /\ IsPrefix(CopyAt(x, el, t), path)
             /\ chain.ref[t] = Made(path, CopyAt(x, el, t))

(* Where what is assigned comes from, and what it goes into.               *)
ChainNode(chain, path, x, el, rest, sub, t) ==
    \/ /\ t \in Maps(rest)
       /\ chain.at[t] = [type |-> "M"] /\ chain.ref[t] = Made(path, CopyAt(x, el, t))
    \/ \E q \in DOMAIN sub.at :
          /\ t = Join(rest, q) /\ chain.at[t] = sub.at[q]
          /\ chain.ref[t] = IF sub.ref[q] = Anonymous THEN Made(path, CopyAt(x, el, t)) ELSE sub.ref[q]

SetOf(doc, path, x, el, chain, rest, sub) ==
    /\ rest \in Paths /\ path = Join(Slot(x, el), rest)
    /\ \/ path \in DOMAIN doc.at /\ rest = Here
       \/ doc.at[x].type = "M" /\ ~el.isIdx /\ \A i \in 1..Len(rest) : ~rest[i].isIdx
    /\ DOMAIN chain.at = Nodes(rest, sub)
    /\ \A t \in Nodes(rest, sub) : ChainNode(chain, path, x, el, rest, sub, t)

LEMMA SetFacts ==
    ASSUME NEW doc, Tree(doc), NEW path \in Paths, path # Here, NEW sub, Branch(sub),
           NEW out \in setPath(doc, path, sub)
    PROVE  \E x, el, chain : /\ SetGives(out, doc, path, x, el, chain)
                             /\ \E rest : SetOf(doc, path, x, el, chain, rest, sub)
<1> DEFINE there == {n \in 0..(Len(path) - 1) : Prefix(path, n) \in DOMAIN doc.at}
           have  == CHOOSE n \in there : \A m \in there : m <= n
           rest  == SubSeq(path, have + 2, Len(path))
           maps  == {Prefix(rest, n) : n \in 0..(Len(rest) - 1)}
           nodes == maps \union {rest \o p : p \in DOMAIN sub.at}
           tail(p) == SubSeq(p, Len(rest) + 1, Len(p))
           new(p)  == p \in maps \/ sub.ref[tail(p)] = Anonymous
           chain == [at  |-> [p \in nodes |-> IF p \in maps THEN [type |-> "M"] ELSE sub.at[tail(p)]],
                     ref |-> [p \in nodes |-> IF new(p) THEN Made(path, Prefix(path, have + 1) \o p)
                                               ELSE sub.ref[tail(p)]]]
           x == Prefix(path, have)
           el == path[have + 1]
<1> DEFINE fits == \/ path \in DOMAIN doc.at
                   \/ /\ doc.at[Prefix(path, have)].type = "M"
                      /\ \A i \in (have + 1)..Len(path) : ~path[i].isIdx
<1>1. out = Put(doc, x, el, chain) /\ fits
  BY DEF setPath
<1>2. DOMAIN chain.at = nodes /\ DOMAIN chain.ref = nodes
  OBVIOUS
<1>3. \A t \in maps : chain.at[t] = [type |-> "M"]
                     /\ chain.ref[t] = Made(path, Prefix(path, have + 1) \o t)
  OBVIOUS
<1>30. \A t \in nodes \ maps :
         /\ chain.at[t] = sub.at[tail(t)]
         /\ chain.ref[t] = IF sub.ref[tail(t)] = Anonymous THEN Made(path, Prefix(path, have + 1) \o t)
                           ELSE sub.ref[tail(t)]
  <2> HIDE DEF nodes, maps, tail, have
  <2>1. TAKE t \in nodes \ maps
  <2>2. t \in nodes /\ t \notin maps
    OBVIOUS
  <2>3. new(t) <=> sub.ref[tail(t)] = Anonymous
    BY <2>2
  <2> HIDE DEF new
  <2> QED BY <2>2, <2>3
<1>0. Len(path) \in Nat \ {0} /\ \A i \in 1..Len(path) : path[i] \in Steps
  BY PathFacts
<1>4. 0 \in there
  <2>1. 0 \in 0..Len(path) /\ 0 \in 0..(Len(path) - 1)
    BY <1>0
  <2>2. Prefix(path, 0) = Here
    BY <2>1, PrefixFacts, PathFacts
  <2> QED BY <2>1, <2>2 DEF Tree, IsTree
<1>5. have \in there /\ \A m \in there : m <= have
  <2>1. Len(path) - 1 \in Nat /\ there \subseteq 0..(Len(path) - 1) /\ there # {}
    BY <1>0, <1>4
  <2> HIDE DEF there
  <2>2. \E n \in there : \A m \in there : m <= n
    BY <2>1, Greatest
  <2> QED BY <2>2
<1> HIDE DEF chain, have
<1>6. have \in 0..(Len(path) - 1) /\ have \in Nat /\ have \in 0..Len(path) /\ have + 1 \in 0..Len(path)
      /\ have + 1 \in 1..Len(path) /\ Prefix(path, have) \in DOMAIN doc.at
  BY <1>0, <1>5
<1>7. el \in Steps
  BY <1>0, <1>6
<1>8. /\ x \in Paths /\ Len(x) = have /\ \A i \in 1..have : x[i] = path[i]
  BY <1>6, PrefixFacts
<1>9. PICK w \in Paths : w = Append(x, el) /\ Len(w) = have + 1
                         /\ (\A i \in 1..have : w[i] = x[i]) /\ w[have + 1] = el
  <2>1. PICK y \in Paths : y = x
    BY <1>8
  <2>2. PICK e \in Steps : e = el
    BY <1>7
  <2>3. /\ Append(y, e) \in Paths /\ Len(Append(y, e)) = Len(y) + 1
        /\ \A i \in 1..Len(y) : Append(y, e)[i] = y[i]
        /\ Append(y, e)[Len(y) + 1] = e
    BY StepFacts
  <2>4. Len(y) = have
    BY <1>8, <2>1
  <2>5. /\ Append(y, e) \in Paths /\ Len(Append(y, e)) = have + 1
        /\ \A i \in 1..have : Append(y, e)[i] = y[i]
        /\ Append(y, e)[have + 1] = e
    BY <2>3, <2>4
  <2> QED BY <2>1, <2>2, <2>5
<1>10. w = Prefix(path, have + 1) /\ IsPrefix(w, path)
  <2>1. /\ Prefix(path, have + 1) \in Paths /\ Len(Prefix(path, have + 1)) = have + 1
        /\ \A i \in 1..(have + 1) : Prefix(path, have + 1)[i] = path[i]
        /\ IsPrefix(Prefix(path, have + 1), path)
    BY <1>6, PrefixFacts, PrefixLeads
  <2>2. ASSUME NEW i \in 1..(have + 1) PROVE w[i] = path[i]
    BY <1>6, <1>8, <1>9
  <2>3. \A i \in 1..(have + 1) : w[i] = Prefix(path, have + 1)[i]
    BY <2>1, <2>2
  <2>4. w = Prefix(path, have + 1)
    BY <1>9, <2>1, <2>3, SamePath
  <2> QED BY <2>1, <2>4
<1>11. w \in DOMAIN doc.at => w = path
  <2>1. CASE have + 1 \in 0..(Len(path) - 1)
    <3>1. ~(have + 1 <= have)
      BY <1>6
    <3>2. have + 1 \notin there
      BY <1>5, <3>1
    <3> QED BY <1>10, <2>1, <3>2
  <2>2. CASE have + 1 \notin 0..(Len(path) - 1)
    <3>1. have + 1 = Len(path)
      BY <1>0, <1>6, <2>2
    <3>2. path = Prefix(path, Len(path))
      BY LeadsToItself, LeadsAs
    <3> QED BY <1>10, <3>1, <3>2
  <2> QED BY <2>1, <2>2
<1>12. rest \in Paths /\ path = w \o rest
  <2>1. Len(w) + 1 = have + 2
    BY <1>6, <1>9
  <2>2. SubSeq(path, Len(w) + 1, Len(path)) \in Paths /\ path = w \o SubSeq(path, Len(w) + 1, Len(path))
    BY <1>9, <1>10, Rejoined
  <2> QED BY <2>1, <2>2
<1>40. /\ Len(path) = Len(w) + Len(rest) /\ Len(rest) \in Nat
       /\ \A i \in 1..Len(rest) : rest[i] = path[Len(w) + i]
  <2>1. PICK z \in Paths : z = rest /\ path = w \o z
    BY <1>12
  <2>2. Len(path) = Len(w) + Len(z) /\ Len(z) \in Nat /\ \A i \in 1..Len(z) : path[Len(w) + i] = z[i]
    <3>1. PICK y : y = w \o z
      OBVIOUS
    <3>2. Len(y) = Len(w) + Len(z) /\ \A i \in 1..Len(z) : y[Len(w) + i] = z[i]
      BY <3>1, JoinFacts
    <3> QED BY <2>1, <3>1, <3>2, PathFacts
  <2> HIDE DEF rest
  <2> QED BY <2>1, <2>2
<1>31. path \in DOMAIN doc.at => rest = Here
  <2>1. SUFFICES ASSUME path \in DOMAIN doc.at PROVE rest = Here
    OBVIOUS
  <2>2. Front(path) \in DOMAIN doc.at /\ Front(path) = Prefix(path, Len(path) - 1)
    BY <2>1, FrontFacts DEF Tree, IsTree
  <2>3. Len(path) - 1 \in there
    BY <1>0, <2>2
  <2>4. have = Len(path) - 1
    BY <1>0, <1>5, <1>6, <2>3
  <2>5. Len(path) = Len(w) + Len(rest) /\ Len(rest) \in Nat
    BY <1>40
  <2>6. Len(rest) = 0
    BY <1>0, <1>9, <2>4, <2>5
  <2> QED BY <1>12, <2>6, PathFacts
<1>32. ~(path \in DOMAIN doc.at) =>
          doc.at[x].type = "M" /\ ~el.isIdx /\ \A i \in 1..Len(rest) : ~rest[i].isIdx
  <2>1. SUFFICES ASSUME ~(path \in DOMAIN doc.at)
                 PROVE  doc.at[x].type = "M" /\ ~el.isIdx /\ \A i \in 1..Len(rest) : ~rest[i].isIdx
    OBVIOUS
  <2>2. doc.at[x].type = "M" /\ \A i \in (have + 1)..Len(path) : ~path[i].isIdx
    BY <1>1, <2>1
  <2>3. ~el.isIdx
    BY <1>6, <2>2
  <2>4. ASSUME NEW i \in 1..Len(rest) PROVE ~rest[i].isIdx
    <3>1. rest[i] = path[Len(w) + i] /\ Len(path) = Len(w) + Len(rest) /\ Len(rest) \in Nat
      BY <1>40
    <3>2. Len(w) + i \in (have + 1)..Len(path)
      BY <1>6, <1>9, <3>1
    <3> QED BY <2>2, <3>1, <3>2
  <2> QED BY <2>2, <2>3, <2>4
<1> HIDE DEF rest
<1>33. ASSUME NEW t \in nodes \ maps
       PROVE  \E q \in DOMAIN sub.at : t = rest \o q /\ tail(t) = q
  <2>1. PICK q \in DOMAIN sub.at : t = rest \o q
    OBVIOUS
  <2>2. q \in Paths
    BY DEF Branch, Tree, IsTree
  <2>3. tail(t) = q
    BY <1>12, <2>1, <2>2, JoinLeads
  <2> QED BY <2>1, <2>3
<1>13. Branch(chain)
  <2>1. nodes = Nodes(rest, sub)
    BY DEF Nodes, Maps, Join
  <2>2. IsTree(Nodes(rest, sub))
    BY <1>12, NodesTree DEF Branch
  <2>3. ASSUME NEW t \in nodes PROVE chain.ref[t] # Read(Here)
    <3>1. \A y, z : Made(y, z) # Read(Here)
      <4>1. \A y, z : Made(y, z).made = TRUE /\ Read(Here).made = FALSE
        BY DEF Made, Read
      <4> QED BY <4>1
    <3>2. CASE t \in maps
      BY <1>3, <3>1, <3>2
    <3>3. CASE t \notin maps
      <4>1. tail(t) \in DOMAIN sub.at
        BY <1>33, <3>3
      <4>2. sub.ref[tail(t)] # Read(Here)
        BY <4>1 DEF Branch, Detached
      <4>3. chain.ref[t] = IF sub.ref[tail(t)] = Anonymous THEN Made(path, Prefix(path, have + 1) \o t)
                           ELSE sub.ref[tail(t)]
        BY <1>30, <3>3
      <4> HIDE DEF tail
      <4> QED BY <3>1, <4>2, <4>3
    <3> QED BY <3>2, <3>3
  <2> QED BY <1>2, <2>1, <2>2, <2>3 DEF Branch, Tree, Detached
<1>14. ASSUME NEW t \in nodes
       PROVE  \/ IsPrefix(path, CopyAt(x, el, t))
              \/ /\ IsPrefix(CopyAt(x, el, t), path)
                 /\ chain.ref[t] = Made(path, CopyAt(x, el, t))
  <2>1. CopyAt(x, el, t) = w \o t
    BY <1>9 DEF CopyAt, Join, Slot
  <2>2. CASE t \in maps
    <3>1. PICK n \in 0..(Len(rest) - 1) : t = Prefix(rest, n)
      BY <2>2
    <3>2. n \in 0..Len(rest)
      BY <1>12, PathFacts
    <3>3. t \in Paths /\ IsPrefix(t, rest)
      BY <1>12, <3>1, <3>2, PrefixFacts, PrefixLeads
    <3>4. IsPrefix(w \o t, path)
      BY <1>9, <1>12, <3>3, JoinOn
    <3>5. chain.ref[t] = Made(path, w \o t)
      BY <1>3, <1>10, <2>2
    <3> QED BY <2>1, <3>4, <3>5
  <2>3. CASE t \notin maps
    <3>1. PICK p \in DOMAIN sub.at : t = rest \o p
      BY <2>3
    <3>2. p \in Paths
      BY DEF Branch, Tree, IsTree
    <3>3. t \in Paths /\ IsPrefix(rest, t)
      BY <1>12, <3>1, <3>2, JoinFacts, JoinLeads
    <3>4. IsPrefix(path, w \o t)
      BY <1>9, <1>12, <3>3, JoinOn
    <3> QED BY <2>1, <3>4
  <2> QED BY <2>2, <2>3
<1>15. /\ Branch(chain) /\ out = Put(doc, x, el, chain)
       /\ x \in DOMAIN doc.at /\ el \in Steps /\ IsPrefix(Append(x, el), path)
       /\ Append(x, el) \in DOMAIN doc.at => Append(x, el) = path
  BY <1>1, <1>6, <1>7, <1>9, <1>10, <1>11, <1>13
<1>17. ASSUME NEW t \in nodes PROVE ChainNode(chain, path, x, el, rest, sub, t)
  <2>1. CopyAt(x, el, t) = Prefix(path, have + 1) \o t
    BY <1>9, <1>10 DEF CopyAt, Join, Slot
  <2>2. CASE t \in maps
    <3>1. t \in Maps(rest)
      BY <2>2 DEF Maps
    <3>2. chain.at[t] = [type |-> "M"] /\ chain.ref[t] = Made(path, CopyAt(x, el, t))
      BY <1>3, <2>1, <2>2
    <3> HIDE DEF maps, nodes, x, el
    <3> QED BY <3>1, <3>2 DEF ChainNode
  <2>3. CASE t \notin maps
    <3>1. PICK q \in DOMAIN sub.at : t = rest \o q /\ tail(t) = q
      BY <1>33, <2>3
    <3>2. /\ chain.at[t] = sub.at[tail(t)]
          /\ chain.ref[t] = IF sub.ref[tail(t)] = Anonymous THEN Made(path, Prefix(path, have + 1) \o t)
                           ELSE sub.ref[tail(t)]
      BY <1>30, <2>3
    <3>3. chain.at[t] = sub.at[q]
          /\ chain.ref[t] = IF sub.ref[q] = Anonymous THEN Made(path, CopyAt(x, el, t)) ELSE sub.ref[q]
      BY <2>1, <3>1, <3>2
    <3> HIDE DEF maps, nodes, x, el
    <3> QED BY <3>1, <3>3 DEF ChainNode, Join
  <2> QED BY <2>2, <2>3
<1>18. nodes = Nodes(rest, sub)
  BY DEF Nodes, Maps, Join
<1>19. path = Join(Slot(x, el), rest)
  BY <1>9, <1>12 DEF Join, Slot
<1> HIDE DEF nodes, x, el, maps
<1>16. SetGives(out, doc, path, x, el, chain)
  BY <1>2, <1>14, <1>15 DEF SetGives
<1>20. SetOf(doc, path, x, el, chain, rest, sub)
  BY <1>2, <1>12, <1>17, <1>18, <1>19, <1>31, <1>32 DEF SetOf
<1> QED BY <1>16, <1>20

-----------------------------------------------------------------------------
(* Who else has a container.  A place that no action assigns or removes,   *)
(* and that stays where it is or leads to what is still to come, has a     *)
(* container of its own.                                                   *)
Named(as) == {as[i].path : i \in 1..Len(as)}

Apart(as) ==
    /\ Named(as) \subseteq Paths \ {Here}
    /\ \A p, q \in Named(as) : IsPrefix(p, q) => p = q

Steady(p, as, ops) ==
    /\ \A q \in Named(as) : ~IsPrefix(q, p)
    /\ Moves(p, as) => \E q \in PathsOf(as, ops) : IsPrefix(p, q)

Owns(doc, as, ops) == \A p \in DOMAIN doc.at : Steady(p, as, ops) => doc.ref[p].place = p

Untouched(p, as) == ~Moves(p, as) /\ \A q \in Named(as) : ~pathsOverlap(q, p)

Keeps(doc, as, at) == \A p \in Paths : Untouched(p, as) => Agree(p, at, doc.at)

LEMMA PathsOfNamed ==
    ASSUME NEW as, NEW ops
    PROVE  PathsOf(as, ops) \subseteq Named(as) /\ Leaving(as) \subseteq Named(as)
BY DEF PathsOf, Named, Leaving

LEMMA FollowsOn ==
    ASSUME NEW p \in Paths, NEW q \in Paths, IsPrefix(p, q), NEW r \in Paths, r # Here, Follows(p, r)
    PROVE  Follows(q, r)
<1>1. Len(p) \in Nat /\ Len(q) \in Nat /\ Len(r) \in Nat \ {0} /\ Len(p) <= Len(q) /\ Len(r) <= Len(p)
  BY PathFacts, LeadsPointwise DEF Follows
<1>2. \A i \in 1..Len(p) : q[i] = p[i]
  BY LeadsPointwise
<1>3. Len(r) - 1 \in 0..Len(p) /\ Len(r) - 1 \in 0..Len(q) /\ Len(r) \in 1..Len(p)
  BY <1>1
<1>4. Prefix(p, Len(r) - 1) = Prefix(q, Len(r) - 1)
  <2>1. /\ Prefix(p, Len(r) - 1) \in Paths /\ Len(Prefix(p, Len(r) - 1)) = Len(r) - 1
        /\ \A i \in 1..(Len(r) - 1) : Prefix(p, Len(r) - 1)[i] = p[i]
    BY <1>3, PrefixFacts
  <2>2. /\ Prefix(q, Len(r) - 1) \in Paths /\ Len(Prefix(q, Len(r) - 1)) = Len(r) - 1
        /\ \A i \in 1..(Len(r) - 1) : Prefix(q, Len(r) - 1)[i] = q[i]
    BY <1>3, PrefixFacts
  <2>3. \A i \in 1..(Len(r) - 1) : Prefix(p, Len(r) - 1)[i] = Prefix(q, Len(r) - 1)[i]
    BY <1>1, <1>2, <2>1, <2>2
  <2> QED BY <2>1, <2>2, <2>3, SamePath
<1>5. q[Len(r)] = p[Len(r)] /\ Len(q) >= Len(r)
  BY <1>1, <1>2, <1>3
<1> QED BY <1>4, <1>5 DEF Follows

LEMMA MovesOn ==
    ASSUME NEW as, Apart(as), NEW p \in Paths, NEW q \in Paths, IsPrefix(p, q), Moves(p, as)
    PROVE  Moves(q, as)
<1>1. PICK r \in Leaving(as) : Follows(p, r)
  BY DEF Moves
<1>2. r \in Paths /\ r # Here
  BY PathsOfNamed DEF Apart
<1>3. Follows(q, r)
  BY <1>1, <1>2, FollowsOn
<1> QED BY <1>3 DEF Moves

LEMMA SteadyBefore ==
    ASSUME NEW as, Apart(as), NEW ops, NEW p \in Paths, Steady(p, as, ops),
           NEW q \in Paths, IsPrefix(q, p)
    PROVE  Steady(q, as, ops)
<1>1. Named(as) \subseteq Paths /\ PathsOf(as, ops) \subseteq Paths
  BY PathsOfNamed DEF Apart
<1>2. ASSUME NEW r \in Named(as), IsPrefix(r, q) PROVE FALSE
  BY <1>1, <1>2, LeadsOn DEF Steady
<1>3. ASSUME Moves(q, as) PROVE \E r \in PathsOf(as, ops) : IsPrefix(q, r)
  <2>1. Moves(p, as)
    BY <1>3, MovesOn
  <2>2. PICK r \in PathsOf(as, ops) : IsPrefix(p, r)
    BY <2>1 DEF Steady
  <2>3. IsPrefix(q, r)
    BY <1>1, <2>2, LeadsOn
  <2> QED BY <2>3
<1> QED BY <1>2, <1>3 DEF Steady

LEMMA UntouchedSteady ==
    ASSUME NEW as, NEW ops, NEW p, Untouched(p, as)
    PROVE  Steady(p, as, ops)
BY DEF Untouched, Steady, pathsOverlap

(* What leads to the path of an action.                                    *)
LEMMA TrunkSteady ==
    ASSUME NEW as, Apart(as), NEW ops, NEW path \in PathsOf(as, ops),
           NEW x \in Paths, NEW el \in Steps, IsPrefix(Append(x, el), path)
    PROVE  Steady(x, as, ops)
<1>1. path \in Paths /\ path \in Named(as) /\ Named(as) \subseteq Paths
  BY PathsOfNamed DEF Apart
<1>2. Len(x) < Len(path) /\ IsPrefix(x, path)
  BY <1>1, StepLeads
<1>3. ASSUME NEW q \in Named(as), IsPrefix(q, x) PROVE FALSE
  <2>1. q \in Paths /\ IsPrefix(q, path)
    BY <1>1, <1>2, <1>3, LeadsOn
  <2>2. q = path
    BY <1>1, <2>1 DEF Apart
  <2>3. Len(q) <= Len(x) /\ Len(q) \in Nat /\ Len(x) \in Nat
    BY <1>3, <2>1, LeadsPointwise, PathFacts
  <2> QED BY <1>2, <2>2, <2>3
<1> QED BY <1>2, <1>3 DEF Steady

(* The container there is found at no other steady place.                  *)
LEMMA OnePlace ==
    ASSUME NEW doc, Tree(doc), NEW as, Apart(as), NEW ops, Owns(doc, as, ops),
           NEW path \in PathsOf(as, ops), NEW x \in DOMAIN doc.at, NEW el \in Steps,
           IsPrefix(Append(x, el), path),
           NEW y \in Places(doc, x), NEW p \in Paths, Steady(p, as, ops), IsPrefix(y, p)
    PROVE  y = x
<1>1. x \in Paths /\ y \in Paths /\ y \in DOMAIN doc.at /\ doc.ref[y] = doc.ref[x]
  BY DEF Tree, IsTree, Places
<1>2. Steady(x, as, ops)
  BY <1>1, TrunkSteady
<1>3. Steady(y, as, ops)
  BY <1>1, SteadyBefore
<1> QED BY <1>1, <1>2, <1>3 DEF Owns

LEMMA SlotLeads ==
    ASSUME NEW y \in Paths, NEW el \in Steps, NEW t \in Paths
    PROVE  /\ CopyAt(y, el, t) \in Paths
           /\ IsPrefix(Append(y, el), CopyAt(y, el, t)) /\ IsPrefix(y, CopyAt(y, el, t))
<1>1. Append(y, el) \in Paths
  BY StepFacts
<1>2. CopyAt(y, el, t) \in Paths /\ IsPrefix(Append(y, el), CopyAt(y, el, t))
  BY <1>1, JoinFacts, JoinLeads DEF CopyAt, Join, Slot
<1> QED BY <1>2, StepLeads

(* One of the actions has been carried out with setPath.                   *)
Assigns(out, doc, as, ops, path, x, el, chain) ==
    /\ Tree(doc) /\ Apart(as) /\ Owns(doc, as, ops) /\ path \in PathsOf(as, ops)
    /\ SetGives(out, doc, path, x, el, chain) /\ out # Cyclic

LEMMA SteadyCopy ==
    ASSUME NEW doc, NEW as, NEW ops, NEW path, NEW out, NEW x, NEW el, NEW chain,
           Assigns(out, doc, as, ops, path, x, el, chain),
           NEW p \in Copies(doc, x, el, chain), Steady(p, as, ops)
    PROVE  out.ref[p].place = p /\ IsPrefix(p, path)
<1>0. /\ Tree(doc) /\ Apart(as) /\ Owns(doc, as, ops) /\ path \in PathsOf(as, ops)
      /\ SetGives(out, doc, path, x, el, chain) /\ out # Cyclic
  BY DEF Assigns
<1>1. /\ Tree(chain) /\ out = Put(doc, x, el, chain)
      /\ x \in DOMAIN doc.at /\ el \in Steps /\ IsPrefix(Append(x, el), path)
      /\ \A t \in DOMAIN chain.at :
            \/ IsPrefix(path, CopyAt(x, el, t))
            \/ /\ IsPrefix(CopyAt(x, el, t), path)
               /\ chain.ref[t] = Made(path, CopyAt(x, el, t))
  BY <1>0 DEF SetGives, Branch
<1>2. PutGives(out, doc, x, el, chain)
  BY <1>0, <1>1, PutFacts
<1>3. PICK y \in Places(doc, x) \intersect Kept(doc, x, el) : \E t \in DOMAIN chain.at :
        p = CopyAt(y, el, t) /\ out.ref[p] = chain.ref[t]
  BY <1>2 DEF PutGives
<1>4. PICK t \in DOMAIN chain.at : p = CopyAt(y, el, t) /\ out.ref[p] = chain.ref[t]
  BY <1>3
<1>5. y \in Paths /\ t \in Paths
  BY <1>0, <1>1, KeptFacts DEF Tree, IsTree
<1>6. p \in Paths /\ IsPrefix(y, p)
  BY <1>1, <1>4, <1>5, SlotLeads
<1>7. y = x
  BY <1>0, <1>1, <1>6, OnePlace
<1>8. path \in Named(as)
  BY <1>0, PathsOfNamed
<1>9. IsPrefix(p, path) /\ out.ref[p] = Made(path, p)
  BY <1>1, <1>4, <1>7, <1>8 DEF Steady
<1> QED BY <1>9 DEF Made

LEMMA PutOwns ==
    ASSUME NEW doc, NEW as, NEW ops, NEW path, NEW out, NEW x, NEW el, NEW chain,
           Assigns(out, doc, as, ops, path, x, el, chain)
    PROVE  Owns(out, as, ops)
<1>0. /\ Tree(doc) /\ Apart(as) /\ Owns(doc, as, ops) /\ path \in PathsOf(as, ops)
      /\ SetGives(out, doc, path, x, el, chain) /\ out # Cyclic
  BY DEF Assigns
<1>1. Tree(chain) /\ out = Put(doc, x, el, chain) /\ el \in Steps
  BY <1>0 DEF SetGives, Branch
<1>2. PutGives(out, doc, x, el, chain)
  BY <1>0, <1>1, PutFacts
<1>3. ASSUME NEW p \in DOMAIN out.at, Steady(p, as, ops) PROVE out.ref[p].place = p
  <2>1. CASE p \in Copies(doc, x, el, chain)
    <3>1. Steady(p, as, ops) /\ Assigns(out, doc, as, ops, path, x, el, chain)
      BY <1>3
    <3>2. out.ref[p].place = p /\ IsPrefix(p, path)
      BY <2>1, <3>1, SteadyCopy, Zenon
    <3> QED BY <3>2
  <2>2. CASE p \notin Copies(doc, x, el, chain)
    <3>1. p \in Kept(doc, x, el) /\ out.ref[p] = doc.ref[p]
      BY <1>2, <2>2 DEF PutGives
    <3>2. p \in DOMAIN doc.at
      BY <3>1 DEF Kept
    <3> QED BY <1>0, <1>3, <3>1, <3>2 DEF Owns
  <2> QED BY <2>1, <2>2
<1> QED BY <1>3 DEF Owns

(* The way to p leads through the container at x only there.               *)
Once(doc, x, p) == \A y \in Places(doc, x) : Len(y) < Len(p) /\ IsPrefix(y, p) => y = x

LEMMA SteadyOnce ==
    ASSUME NEW doc, Tree(doc), NEW as, Apart(as), NEW ops, Owns(doc, as, ops),
           NEW path \in PathsOf(as, ops), NEW x \in DOMAIN doc.at, NEW el \in Steps,
           IsPrefix(Append(x, el), path), NEW p \in Paths, Steady(p, as, ops)
    PROVE  Once(doc, x, p)
<1>1. ASSUME NEW y \in Places(doc, x), IsPrefix(y, p) PROVE y = x
  BY <1>1, OnePlace, Zenon
<1> QED BY <1>1 DEF Once

(* So does the way to another path of the update, when it stays as it is.  *)
LEMMA NamedOnce ==
    ASSUME NEW doc, Tree(doc), NEW as, Apart(as), NEW ops, Owns(doc, as, ops),
           NEW path \in PathsOf(as, ops), NEW x \in DOMAIN doc.at, NEW el \in Steps,
           IsPrefix(Append(x, el), path), NEW p \in Named(as), ~Moves(p, as)
    PROVE  Once(doc, x, p)
<1>1. p \in Paths /\ Named(as) \subseteq Paths /\ Places(doc, x) \subseteq Paths
  BY DEF Apart, Tree, IsTree, Places
<1>2. ASSUME NEW y \in Places(doc, x), Len(y) < Len(p), IsPrefix(y, p) PROVE y = x
  <2>1. y \in Paths
    BY <1>1
  <2>2. ASSUME NEW q \in Named(as), IsPrefix(q, y) PROVE FALSE
    <3>1. q \in Paths /\ IsPrefix(q, p)
      BY <1>1, <1>2, <2>1, <2>2, LeadsOn
    <3>2. q = p
      BY <3>1 DEF Apart
    <3>3. Len(q) <= Len(y) /\ Len(q) \in Nat /\ Len(y) \in Nat
      BY <2>1, <2>2, <3>1, LeadsPointwise, PathFacts
    <3> QED BY <1>2, <3>2, <3>3
  <2>3. ~Moves(y, as)
    BY <1>1, <1>2, <2>1, MovesOn
  <2>4. Steady(y, as, ops) /\ IsPrefix(y, y)
    BY <2>1, <2>2, <2>3, LeadsToItself DEF Steady
  <2> QED BY <2>1, <2>4, OnePlace, Zenon
<1> QED BY <1>2 DEF Once

(* setPath changes only what its path leads to or through.                 *)
LEMMA PutBeside ==
    ASSUME NEW doc, Tree(doc), NEW path \in Paths, NEW out, NEW x, NEW el, NEW chain,
           SetGives(out, doc, path, x, el, chain), out # Cyclic,
           NEW p \in Paths, Once(doc, x, p), ~IsPrefix(path, p), ~IsPrefix(p, path)
    PROVE  Agree(p, doc.at, out.at)
<1>1. /\ Tree(chain) /\ out = Put(doc, x, el, chain) /\ el \in Steps
      /\ x \in DOMAIN doc.at /\ x \in Paths /\ IsPrefix(Append(x, el), path)
      /\ Append(x, el) \in DOMAIN doc.at => Append(x, el) = path
      /\ \A t \in DOMAIN chain.at :
            IsPrefix(path, CopyAt(x, el, t)) \/ IsPrefix(CopyAt(x, el, t), path)
  BY DEF SetGives, Branch, Tree, IsTree
<1>2. PutGives(out, doc, x, el, chain)
  BY <1>1, PutFacts
<1>3. ASSUME p \in Copies(doc, x, el, chain) PROVE FALSE
  <2>1. PICK y \in Places(doc, x) \intersect Kept(doc, x, el) : \E t \in DOMAIN chain.at : p = CopyAt(y, el, t)
    BY <1>2, <1>3 DEF PutGives
  <2>2. PICK t \in DOMAIN chain.at : p = CopyAt(y, el, t)
    BY <2>1
  <2>3. y \in Paths /\ t \in Paths
    BY <1>1, KeptFacts DEF Tree, IsTree
  <2>4. IsPrefix(y, p) /\ IsPrefix(Append(y, el), p)
    BY <1>1, <2>2, <2>3, SlotLeads
  <2>5. Len(y) < Len(p)
    BY <1>1, <2>3, <2>4, StepLeads
  <2>6. y = x
    BY <2>4, <2>5 DEF Once
  <2> QED BY <1>1, <2>2, <2>6
<1>4. ASSUME p \in DOMAIN doc.at PROVE p \in Kept(doc, x, el)
  <2>1. SUFFICES ASSUME NEW y \in Places(doc, x), Len(y) < Len(p), IsPrefix(y, p), p[Len(y) + 1] = el
                 PROVE  FALSE
    BY <1>1, <1>4, KeptFacts
  <2>2. y = x
    BY <2>1 DEF Once
  <2>3. Append(x, el) \in Paths
    BY <1>1, StepFacts
  <2>4. IsPrefix(Append(x, el), p)
    BY <1>1, <2>1, <2>2, <2>3, StepLeads
  <2>5. Append(x, el) \in DOMAIN doc.at
    BY <1>4, <2>3, <2>4, LeadsInto DEF Tree
  <2> QED BY <1>1, <2>4, <2>5
<1>5. p \in DOMAIN out.at <=> p \in Kept(doc, x, el)
  BY <1>2, <1>3 DEF PutGives
<1>6. p \in Kept(doc, x, el) => p \in DOMAIN doc.at /\ out.at[p] = doc.at[p]
  BY <1>2, <1>3 DEF PutGives, Kept
<1> QED BY <1>4, <1>5, <1>6 DEF Agree

LEMMA PutKeeps ==
    ASSUME NEW doc, NEW as, NEW ops, NEW path, NEW out, NEW x, NEW el, NEW chain,
           Assigns(out, doc, as, ops, path, x, el, chain),
           NEW p \in Paths, Untouched(p, as)
    PROVE  Agree(p, doc.at, out.at)
<1>1. /\ Tree(doc) /\ Apart(as) /\ Owns(doc, as, ops) /\ path \in PathsOf(as, ops)
      /\ SetGives(out, doc, path, x, el, chain) /\ out # Cyclic
      /\ x \in DOMAIN doc.at /\ el \in Steps /\ IsPrefix(Append(x, el), path)
  BY DEF Assigns, SetGives
<1>2. path \in Paths /\ ~IsPrefix(path, p) /\ ~IsPrefix(p, path)
  BY <1>1, PathsOfNamed DEF Untouched, pathsOverlap, Apart
<1>3. Steady(p, as, ops)
  BY UntouchedSteady
<1>4. Once(doc, x, p)
  BY <1>1, <1>3, SteadyOnce
<1> QED BY <1>1, <1>2, <1>4, PutBeside

(* One of the actions has taken an element away.                           *)
Cuts(out, doc, as, ops, path, x, el) ==
    /\ Tree(doc) /\ Apart(as) /\ Owns(doc, as, ops) /\ path \in PathsOf(as, ops)
    /\ x \in DOMAIN doc.at /\ el \in Steps /\ path = Append(x, el) /\ out = Cut(doc, x, el)
    /\ el.isIdx => /\ path \in Leaving(as)
                   /\ \A q \in PathsOf(as, ops) : Follows(q, path) => Len(q) = Len(path)

LEMMA IndexesAre == \A s \in Steps : s.isIdx => s = Index(s.index)
<1> SUFFICES ASSUME NEW s \in Steps, s.isIdx PROVE s = Index(s.index)
  OBVIOUS
<1>1. CASE s \in [name : STRING, index : {0}, isIdx : {FALSE}]
  BY <1>1
<1>2. CASE s \in [name : {""}, index : Nat, isIdx : {TRUE}]
  <2>1. s = [name |-> s.name, index |-> s.index, isIdx |-> s.isIdx]
    BY <1>2
  <2>2. s.name = "" /\ s.isIdx = TRUE
    BY <1>2
  <2> QED BY <2>1, <2>2, Zenon DEF Index
<1> QED BY <1>1, <1>2 DEF Steps

(* The element that p leads to in the container path ends in.              *)
Beside(path, el, p, i) ==
    /\ Len(path) = i
    /\ p[i] = el => IsPrefix(path, p)
    /\ p[i].isIdx /\ p[i].index > el.index => Follows(p, path)

LEMMA BesideCut ==
    ASSUME NEW x \in Paths, NEW el \in Steps, NEW path, path = Append(x, el), NEW p \in Paths,
           NEW i \in 1..Len(p), Prefix(p, i - 1) = x
    PROVE  Beside(path, el, p, i)
<1>1. Len(p) \in Nat /\ i - 1 \in 0..Len(p)
  BY PathFacts
<1>2. Len(x) = i - 1 /\ IsPrefix(x, p)
  BY <1>1, PrefixFacts, PrefixLeads
<1>3. /\ path \in Paths /\ Len(path) = Len(x) + 1
      /\ \A j \in 1..Len(x) : path[j] = x[j]
      /\ path[Len(x) + 1] = el
  BY StepFacts
<1>4. Len(path) = i
  BY <1>1, <1>2, <1>3
<1>5. Last(path) = el /\ Front(path) = x
  BY FrontOfStep
<1>7. Len(x) < Len(p) /\ Len(x) + 1 = i
  BY <1>1, <1>2
<1>8. p[i] = el => IsPrefix(path, p)
  BY <1>2, <1>7, StepLeads
<1>9. p[i].isIdx /\ p[i].index > el.index => Follows(p, path)
  BY <1>1, <1>4, <1>5 DEF Follows
<1> QED BY <1>4, <1>8, <1>9 DEF Beside

(* Nothing moves to where no element was removed before it.                *)
LEMMA CutBack ==
    ASSUME NEW doc, Tree(doc), NEW x \in DOMAIN doc.at, NEW el \in Steps, NEW path, path = Append(x, el),
           NEW p, NEW q \in Paths, p = Moved(Places(doc, x), el, q), Once(doc, x, p), q # p
    PROVE  el.isIdx /\ p \in Paths /\ (IsPrefix(path, p) \/ Follows(p, path))
<1>1. Places(doc, x) \subseteq Paths /\ x \in Paths
  BY DEF Tree, IsTree, Places
<1>2. /\ p \in Paths /\ Len(p) = Len(q)
      /\ \A i \in 1..Len(q) :
           p[i] = IF Turns(Places(doc, x), el, q, i) THEN Index(q[i].index - 1) ELSE q[i]
  BY <1>1, MovedFacts
<1> DEFINE off == {i \in 1..Len(q) : p[i] # q[i]}
<1>3. off # {} /\ off \in SUBSET Nat
  BY <1>2, SamePath
<1>4. PICK i \in off : \A j \in off : i <= j
  <2> HIDE DEF off
  <2> QED BY <1>3, Least
<1>5. i \in 1..Len(q) /\ Len(q) \in Nat /\ i \in 1..Len(p) /\ i - 1 \in 0..Len(q) /\ i - 1 \in 0..Len(p)
  BY <1>2, PathFacts
<1>6. \A j \in 1..(i - 1) : p[j] = q[j]
  BY <1>4, <1>5
<1>7. Turns(Places(doc, x), el, q, i) /\ p[i] = Index(q[i].index - 1)
  BY <1>2
<1>8. Prefix(q, i - 1) \in Places(doc, x) /\ el.isIdx /\ q[i].index > el.index
  BY <1>7 DEF Turns
<1>9. Prefix(p, i - 1) = Prefix(q, i - 1)
  <2>1. /\ Prefix(p, i - 1) \in Paths /\ Len(Prefix(p, i - 1)) = i - 1
        /\ \A j \in 1..(i - 1) : Prefix(p, i - 1)[j] = p[j]
    BY <1>2, <1>5, PrefixFacts
  <2>2. /\ Prefix(q, i - 1) \in Paths /\ Len(Prefix(q, i - 1)) = i - 1
        /\ \A j \in 1..(i - 1) : Prefix(q, i - 1)[j] = q[j]
    BY <1>5, PrefixFacts
  <2>3. \A j \in 1..(i - 1) : Prefix(p, i - 1)[j] = Prefix(q, i - 1)[j]
    BY <1>6, <2>1, <2>2
  <2> QED BY <2>1, <2>2, <2>3, SamePath
<1>10. Prefix(p, i - 1) = x
  <2>1. IsPrefix(Prefix(p, i - 1), p) /\ Len(Prefix(p, i - 1)) = i - 1
    BY <1>2, <1>5, PrefixLeads, PrefixFacts
  <2>2. PICK r \in Places(doc, x) : r = Prefix(p, i - 1)
    BY <1>8, <1>9
  <2>3. IsPrefix(r, p) /\ Len(r) < Len(p)
    BY <1>5, <2>1, <2>2
  <2>4. r = x
    BY <2>3 DEF Once
  <2> QED BY <2>2, <2>4
<1>11. Beside(path, el, p, i)
  BY <1>1, <1>2, <1>5, <1>10, BesideCut
<1>12. (p[i] = el => IsPrefix(path, p)) /\ (p[i].isIdx /\ p[i].index > el.index => Follows(p, path))
  BY <1>11 DEF Beside
<1>13. q[i].index \in Nat /\ el.index \in Nat
  BY <1>5, PathFacts, StepIndex
<1>14. p[i].isIdx /\ p[i].index = q[i].index - 1
  <2>1. \A n : Index(n).isIdx /\ Index(n).index = n
    BY DEF Index
  <2>2. p[i] = Index(q[i].index - 1)
    BY <1>7
  <2> HIDE DEF off
  <2> QED BY <2>1, <2>2, Zenon
<1>15. CASE p[i].index = el.index
  <2>1. p[i] = el
    BY <1>7, <1>8, <1>14, <1>15, IndexesAre
  <2> QED BY <1>2, <1>8, <1>12, <2>1
<1>16. CASE p[i].index > el.index
  BY <1>2, <1>8, <1>12, <1>14, <1>16
<1>17. p[i].index = el.index \/ p[i].index > el.index
  BY <1>8, <1>13, <1>14
<1> QED BY <1>15, <1>16, <1>17

(* A steady place is not one that something moved down to.                 *)
NoneTo(doc, x, el, p) == \A q \in Paths : p = Moved(Places(doc, x), el, q) => q = p

LEMMA CutSteady ==
    ASSUME NEW doc, NEW as, NEW ops, NEW path, NEW out, NEW x, NEW el,
           Cuts(out, doc, as, ops, path, x, el),
           NEW p, Steady(p, as, ops)
    PROVE  NoneTo(doc, x, el, p)
<1> SUFFICES ASSUME NEW q \in Paths, p = Moved(Places(doc, x), el, q), q # p PROVE FALSE
  BY DEF NoneTo
<1>1. /\ Tree(doc) /\ Apart(as) /\ Owns(doc, as, ops) /\ path \in PathsOf(as, ops)
      /\ x \in DOMAIN doc.at /\ el \in Steps /\ path = Append(x, el)
      /\ el.isIdx => /\ path \in Leaving(as)
                     /\ \A r \in PathsOf(as, ops) : Follows(r, path) => Len(r) = Len(path)
  BY DEF Cuts
<1>2. Places(doc, x) \subseteq Paths /\ x \in Paths
  BY <1>1 DEF Tree, IsTree, Places
<1>3. p \in Paths
  BY <1>1, <1>2, MovedFacts
<1>4. path \in Named(as) /\ Named(as) \subseteq Paths /\ PathsOf(as, ops) \subseteq Named(as)
      /\ path \in Paths /\ path # Here
  BY <1>1, PathsOfNamed DEF Apart
<1>5. IsPrefix(Append(x, el), path)
  BY <1>1, <1>4, LeadsToItself
<1>6. Once(doc, x, p)
  BY <1>1, <1>3, <1>5, SteadyOnce
<1>7. el.isIdx /\ (IsPrefix(path, p) \/ Follows(p, path))
  BY <1>1, <1>6, CutBack
<1>8. Follows(p, path)
  BY <1>4, <1>7 DEF Steady
<1>9. Moves(p, as)
  BY <1>1, <1>7, <1>8 DEF Moves
<1>10. PICK r \in PathsOf(as, ops) : IsPrefix(p, r)
  BY <1>9 DEF Steady
<1>11. r \in Paths /\ r \in Named(as)
  BY <1>4
<1>12. Follows(r, path)
  BY <1>3, <1>4, <1>8, <1>10, <1>11, FollowsOn
<1>13. Len(r) = Len(path) /\ Len(path) <= Len(p)
  BY <1>1, <1>7, <1>8, <1>12 DEF Follows
<1>14. Len(r) \in Nat /\ Len(p) \in Nat /\ Len(p) <= Len(r) /\ \A j \in 1..Len(p) : r[j] = p[j]
  BY <1>3, <1>10, <1>11, LeadsPointwise, PathFacts
<1>15. Len(p) = Len(r)
  BY <1>13, <1>14
<1>16. r = p
  BY <1>3, <1>11, <1>14, <1>15, SamePath
<1>17. IsPrefix(r, p)
  BY <1>3, <1>16, LeadsToItself
<1> QED BY <1>11, <1>17 DEF Steady

LEMMA CutOwns ==
    ASSUME NEW doc, NEW as, NEW ops, NEW path, NEW out, NEW x, NEW el,
           Cuts(out, doc, as, ops, path, x, el)
    PROVE  Owns(out, as, ops)
<1>1. Tree(doc) /\ Owns(doc, as, ops) /\ el \in Steps /\ out = Cut(doc, x, el)
  BY DEF Cuts
<1>2. CutGives(out, doc, x, el)
  BY <1>1, CutFacts
<1>3. ASSUME NEW p \in DOMAIN out.at, Steady(p, as, ops) PROVE out.ref[p].place = p
  <2>1. PICK q \in Kept(doc, x, el) : Moved(Places(doc, x), el, q) = p /\ out.ref[p] = doc.ref[q]
    BY <1>2 DEF CutGives
  <2>2. q \in DOMAIN doc.at /\ q \in Paths
    BY <1>1 DEF Kept, Tree, IsTree
  <2>3. NoneTo(doc, x, el, p)
    BY <1>3, CutSteady
  <2>4. q = p
    BY <2>1, <2>2, <2>3 DEF NoneTo
  <2> QED BY <1>1, <1>3, <2>1, <2>2, <2>4 DEF Owns
<1> QED BY <1>3 DEF Owns

(* Cut changes only what it removes, and what moves to its place.          *)
LEMMA CutBeside ==
    ASSUME NEW doc, Tree(doc), NEW x \in DOMAIN doc.at, NEW el \in Steps, NEW path, path = Append(x, el),
           NEW out, out = Cut(doc, x, el), NEW p \in Paths, Once(doc, x, p), ~IsPrefix(path, p),
           el.isIdx => ~Follows(p, path)
    PROVE  Agree(p, doc.at, out.at)
<1>1. CutGives(out, doc, x, el)
  BY CutFacts
<1>2. x \in Paths /\ Places(doc, x) \subseteq Paths /\ DOMAIN doc.at \subseteq Paths
  BY DEF Tree, IsTree, Places
<1>3. ASSUME p \in DOMAIN out.at PROVE p \in DOMAIN doc.at /\ out.at[p] = doc.at[p]
  <2>1. PICK q \in Kept(doc, x, el) : Moved(Places(doc, x), el, q) = p /\ out.at[p] = doc.at[q]
    BY <1>1, <1>3 DEF CutGives
  <2>2. q \in DOMAIN doc.at /\ q \in Paths
    BY <1>2 DEF Kept
  <2>3. ASSUME q # p PROVE FALSE
    <3>1. p = Moved(Places(doc, x), el, q) /\ q \in Paths
      BY <2>1, <2>2
    <3>2. PICK doc1, x1, el1, path1 : doc1 = doc /\ x1 = x /\ el1 = el /\ path1 = path
      OBVIOUS
    <3>3. /\ Tree(doc1) /\ x1 \in DOMAIN doc1.at /\ el1 \in Steps /\ path1 = Append(x1, el1)
          /\ p = Moved(Places(doc1, x1), el1, q) /\ Once(doc1, x1, p) /\ q \in Paths
      BY <3>1, <3>2
    <3>4. el1.isIdx /\ (IsPrefix(path1, p) \/ Follows(p, path1))
      BY <2>3, <3>3, CutBack
    <3> QED BY <3>2, <3>4
  <2> QED BY <2>1, <2>2, <2>3
<1>4. ASSUME p \in DOMAIN doc.at PROVE p \in DOMAIN out.at
  <2>1. p \in Kept(doc, x, el)
    <3>1. SUFFICES ASSUME NEW y \in Places(doc, x), Len(y) < Len(p), IsPrefix(y, p), p[Len(y) + 1] = el
                   PROVE  FALSE
      BY <1>4, KeptFacts
    <3>2. y = x
      BY <3>1 DEF Once
    <3> QED BY <1>2, <3>1, <3>2, StepLeads
  <2>2. /\ Moved(Places(doc, x), el, p) \in Paths
        /\ Len(Moved(Places(doc, x), el, p)) = Len(p)
        /\ \A i \in 1..Len(p) :
             Moved(Places(doc, x), el, p)[i] =
                IF Turns(Places(doc, x), el, p, i) THEN Index(p[i].index - 1) ELSE p[i]
    BY <1>2, MovedFacts
  <2>3. ASSUME NEW i \in 1..Len(p) PROVE ~Turns(Places(doc, x), el, p, i)
    <3>1. SUFFICES ASSUME Turns(Places(doc, x), el, p, i) PROVE FALSE
      OBVIOUS
    <3>2. Prefix(p, i - 1) \in Places(doc, x) /\ el.isIdx /\ p[i].isIdx /\ p[i].index > el.index
      BY <3>1 DEF Turns
    <3>3. i - 1 \in 0..Len(p) /\ i - 1 < Len(p)
      BY PathFacts
    <3>4. IsPrefix(Prefix(p, i - 1), p) /\ Len(Prefix(p, i - 1)) = i - 1
      BY <3>3, PrefixLeads, PrefixFacts
    <3>5. PICK r \in Places(doc, x) : r = Prefix(p, i - 1)
      BY <3>2
    <3>6. Prefix(p, i - 1) = x
      BY <3>3, <3>4, <3>5 DEF Once
    <3>7. Beside(path, el, p, i)
      BY <1>2, <3>6, BesideCut
    <3> QED BY <3>2, <3>7 DEF Beside
  <2>4. Moved(Places(doc, x), el, p) = p
    BY <2>2, <2>3, SamePath
  <2> QED BY <1>1, <2>1, <2>4 DEF CutGives
<1> QED BY <1>3, <1>4 DEF Agree

LEMMA CutKeeps ==
    ASSUME NEW doc, NEW as, NEW ops, NEW path, NEW out, NEW x, NEW el,
           Cuts(out, doc, as, ops, path, x, el), NEW p \in Paths, Untouched(p, as)
    PROVE  Agree(p, doc.at, out.at)
<1>1. /\ Tree(doc) /\ Apart(as) /\ Owns(doc, as, ops) /\ path \in PathsOf(as, ops)
      /\ x \in DOMAIN doc.at /\ el \in Steps /\ path = Append(x, el) /\ out = Cut(doc, x, el)
      /\ el.isIdx => path \in Leaving(as)
  BY DEF Cuts
<1>2. path \in Paths /\ ~IsPrefix(path, p) /\ IsPrefix(Append(x, el), path)
  BY <1>1, PathsOfNamed, LeadsToItself DEF Untouched, pathsOverlap, Apart
<1>3. Steady(p, as, ops) /\ ~Moves(p, as)
  BY UntouchedSteady DEF Untouched
<1>4. Once(doc, x, p)
  BY <1>1, <1>2, <1>3, SteadyOnce
<1>5. el.isIdx => ~Follows(p, path)
  BY <1>1, <1>3 DEF Moves
<1> QED BY <1>1, <1>2, <1>4, <1>5, CutBeside

-----------------------------------------------------------------------------
(* Actions                                                                 *)

LEMMA RemoveGives ==
    ASSUME NEW doc, NEW path, NEW out \in applyRemove(doc, path)
    PROVE  \/ out = doc
           \/ Front(path) \in DOMAIN doc.at /\ out = Cut(doc, Front(path), Last(path))
BY DEF applyRemove

(* What an action does to a document: nothing, or it assigns, or it takes  *)
(* an element away.                                                        *)
Acts(out, doc, a) ==
    \/ out = doc
    \/ \E x, el, chain : SetGives(out, doc, a.path, x, el, chain)
    \/ /\ a.op \in {"remove", "delete"}
       /\ Front(a.path) \in DOMAIN doc.at /\ out = Cut(doc, Front(a.path), Last(a.path))

LEMMA ActionActs ==
    ASSUME NEW doc, Rooted(doc), doc # Cyclic, NEW a, IsAction(a), NEW out \in applyAction(doc, a)
    PROVE  Acts(out, doc, a)
<1>1. /\ a.path \in Paths /\ a.path # Here /\ a.op \in {"set", "remove", "add", "delete"}
      /\ Tree(doc)
  BY DEF IsAction, AttributePaths, Here, Rooted
<1>2. ASSUME NEW v, Branch(v), out \in setPath(doc, a.path, v) PROVE Acts(out, doc, a)
  <2>1. \E x, el, chain : SetGives(out, doc, a.path, x, el, chain)
    BY <1>1, <1>2, SetFacts
  <2> QED BY <2>1 DEF Acts
<1>3. CASE a.op = "set"
  <2>1. PICK v \in evalSetValue(a.set, doc) : out \in setPath(doc, a.path, v)
    BY <1>3 DEF applyAction
  <2>2. Branch(v)
    BY <1>3, SetValueTree
  <2> QED BY <1>2, <2>1, <2>2
<1>4. CASE a.op = "remove"
  <2>1. out \in applyRemove(doc, a.path)
    BY <1>4 DEF applyAction
  <2> QED BY <1>4, <2>1, RemoveGives DEF Acts
<1>5. CASE a.op = "add"
  <2>1. PICK v \in operandValue(a.value, doc) : out \in Add(doc, a.path, v)
    BY <1>5 DEF applyAction
  <2>2. Branch(v)
    BY <1>5, OperandTree DEF IsAction
  <2>3. \/ out \in setPath(doc, a.path, v)
        \/ \E node : out \in setPath(doc, a.path, Given(Scalar(node)))
    BY <2>1 DEF Add, addNumbers, WithContents
  <2> QED BY <1>2, <2>2, <2>3, ScalarTree
<1>6. CASE a.op = "delete"
  <2>1. PICK v \in operandValue(a.value, doc) : out \in Delete(doc, a.path, v)
    BY <1>6 DEF applyAction
  <2>2. \/ out = doc
        \/ out \in applyRemove(doc, a.path)
        \/ \E node : out \in setPath(doc, a.path, Given(Scalar(node)))
    BY <2>1 DEF Delete, WithContents
  <2>3. CASE out \in applyRemove(doc, a.path)
    BY <1>6, <2>3, RemoveGives DEF Acts
  <2> QED BY <1>2, <2>2, <2>3, ScalarTree DEF Acts
<1> QED BY <1>1, <1>3, <1>4, <1>5, <1>6

(* The actions whose paths the documents of a phase can still be changed   *)
(* at: in the first one all, while REMOVEs wait for the second.            *)
AllOps == {"set", "remove", "add", "delete"}
Phase(left, op) ==
    \/ left = AllOps /\ op \in {"set", "add", "delete"}
    \/ left = {"remove"} /\ op = "remove"

(* A document that an update of at has come to.                            *)
Good(doc, as, left, at) ==
    doc # Cyclic =>
        /\ Rooted(doc)
        /\ Independent(as) => Owns(doc, as, left) /\ Keeps(doc, as, at)

LEMMA InPhase ==
    ASSUME NEW as, Apart(as), NEW left, NEW i \in 1..Len(as), Phase(left, as[i].op)
    PROVE  /\ as[i].path \in PathsOf(as, left)
           /\ as[i].op \in {"remove", "delete"} /\ Last(as[i].path).isIdx => as[i].path \in Leaving(as)
<1>1. as[i].op \in left
  BY DEF Phase, AllOps
<1>2. as[i].path \in PathsOf(as, left)
  BY <1>1 DEF PathsOf
<1>3. as[i].op \in {"remove", "delete"} => as[i].path \in PathsOf(as, {"remove", "delete"})
  BY DEF PathsOf
<1> QED BY <1>2, <1>3 DEF Leaving

LEMMA LeavesAlone ==
    ASSUME NEW as, Independent(as), NEW left, NEW i \in 1..Len(as), Phase(left, as[i].op),
           as[i].op \in {"remove", "delete"}, Last(as[i].path).isIdx,
           NEW q \in PathsOf(as, left), Follows(q, as[i].path)
    PROVE  Len(q) = Len(as[i].path)
<1>1. PICK j \in 1..Len(as) : as[j].op \in left /\ q = as[j].path
  BY DEF PathsOf
<1>2. \A ops : as[i].op \in ops => as[i].path \in PathsOf(as, ops)
  BY DEF PathsOf
<1>3. CASE as[i].op = "delete"
  <2>1. as[i].path \in PathsOf(as, {"delete", "remove"}) /\ as[i].path \in PathsOf(as, {"delete"})
    BY <1>2, <1>3
  <2> QED BY <1>1, <2>1 DEF Independent
<1>4. CASE as[i].op = "remove"
  <2>1. as[i].path \in PathsOf(as, {"delete", "remove"})
    BY <1>2, <1>4
  <2>2. as[j].op = "remove"
    <3>1. left = {"remove"}
      <4>1. as[i].op \notin {"set", "add", "delete"}
        BY <1>4
      <4> QED BY <4>1, Zenon DEF Phase
    <3> QED BY <1>1, <3>1
  <2> QED BY <1>1, <2>1, <2>2 DEF Independent
<1> QED BY <1>3, <1>4

(* What an action's path leads through begins with a name.                 *)
LEMMA TopName ==
    ASSUME NEW path \in AttributePaths, NEW x \in Paths, NEW el \in Steps,
           IsPrefix(Append(x, el), path), x = Here
    PROVE  el = path[1] /\ ~el.isIdx
<1>1. path \in Paths /\ ~path[1].isIdx /\ Len(x) = 0
  BY PathFacts DEF AttributePaths
<1>2. path[Len(x) + 1] = el
  BY <1>1, StepLeads
<1> QED BY <1>1, <1>2

LEMMA ActionGood ==
    ASSUME NEW as, Apart(as), NEW left, NEW i \in 1..Len(as), Phase(left, as[i].op), IsAction(as[i]),
           NEW at, NEW doc, Good(doc, as, left, at), NEW out \in applyAction(doc, as[i])
    PROVE  Good(out, as, left, at)
<1> DEFINE a == as[i]
<1>1. /\ a.path \in PathsOf(as, left) /\ a.path \in Paths /\ a.path # Here
      /\ a.path \in AttributePaths
      /\ a.op \in {"remove", "delete"} /\ Last(a.path).isIdx => a.path \in Leaving(as)
  BY InPhase DEF IsAction, AttributePaths, Here
<1> SUFFICES ASSUME out # Cyclic PROVE Good(out, as, left, at)
  BY DEF Good
<1>2. doc # Cyclic
  BY DEF applyAction
<1>3. /\ Rooted(doc) /\ Tree(doc)
      /\ Independent(as) => Owns(doc, as, left) /\ Keeps(doc, as, at)
  BY <1>2 DEF Good, Rooted
<1>4. Acts(out, doc, a)
  BY <1>2, <1>3, ActionActs
<1>5. ASSUME Independent(as), \A p \in Paths : Untouched(p, as) => Agree(p, doc.at, out.at)
      PROVE  Keeps(out, as, at)
  <2>1. ASSUME NEW p \in Paths, Untouched(p, as) PROVE Agree(p, at, out.at)
    BY <1>3, <1>5, <2>1 DEF Keeps, Agree
  <2> QED BY <2>1 DEF Keeps
<1> HIDE DEF a
<1>6. ASSUME NEW x, NEW el, NEW chain, SetGives(out, doc, a.path, x, el, chain)
      PROVE  Good(out, as, left, at)
  <2>1. Rooted(out)
    <3>1. /\ x \in DOMAIN doc.at /\ x \in Paths /\ el \in Steps /\ IsPrefix(Append(x, el), a.path)
          /\ Branch(chain) /\ out = Put(doc, x, el, chain)
      BY <1>3, <1>6 DEF SetGives, Tree, IsTree
    <3>2. x = Here => ~el.isIdx
      BY <1>1, <3>1, TopName
    <3> QED BY <1>3, <3>1, <3>2, PutRooted
  <2>2. ASSUME Independent(as) PROVE Owns(out, as, left) /\ Keeps(out, as, at)
    <3>1. Assigns(out, doc, as, left, a.path, x, el, chain)
      BY <1>1, <1>3, <1>6, <2>2 DEF Assigns
    <3>2. Owns(out, as, left)
      BY <3>1, PutOwns
    <3>3. ASSUME NEW p \in Paths, Untouched(p, as) PROVE Agree(p, doc.at, out.at)
      BY <3>1, <3>3, PutKeeps
    <3> QED BY <1>5, <2>2, <3>2, <3>3
  <2> QED BY <2>1, <2>2 DEF Good
<1>7. ASSUME a.op \in {"remove", "delete"}, Front(a.path) \in DOMAIN doc.at,
             out = Cut(doc, Front(a.path), Last(a.path))
      PROVE  Good(out, as, left, at)
  <2>1. Last(a.path) \in Steps /\ a.path = Append(Front(a.path), Last(a.path))
    BY <1>1, FrontFacts
  <2>2. Rooted(out)
    <3>1. Front(a.path) \in Paths /\ IsPrefix(a.path, a.path)
      BY <1>1, FrontFacts, LeadsToItself
    <3>2. Front(a.path) = Here => ~Last(a.path).isIdx
      BY <1>1, <2>1, <3>1, TopName
    <3> QED BY <1>3, <1>7, <2>1, <3>2, CutRooted
  <2>3. ASSUME Independent(as) PROVE Owns(out, as, left) /\ Keeps(out, as, at)
    <3>1. ASSUME Last(a.path).isIdx, NEW q \in PathsOf(as, left), Follows(q, a.path)
          PROVE  Len(q) = Len(a.path)
      BY <1>7, <2>3, <3>1, LeavesAlone DEF a
    <3>2. Cuts(out, doc, as, left, a.path, Front(a.path), Last(a.path))
      BY <1>1, <1>3, <1>7, <2>1, <2>3, <3>1 DEF Cuts
    <3>3. Owns(out, as, left)
      BY <3>2, CutOwns
    <3>4. ASSUME NEW p \in Paths, Untouched(p, as) PROVE Agree(p, doc.at, out.at)
      BY <3>2, <3>4, CutKeeps
    <3> QED BY <1>5, <2>3, <3>3, <3>4
  <2> QED BY <2>2, <2>3 DEF Good
<1>8. CASE out = doc
  BY <1>8
<1> QED BY <1>4, <1>6, <1>7, <1>8 DEF Acts

-----------------------------------------------------------------------------
(* One action after the other                                              *)

EachStep(docs, a, ops) == IF a.op \in ops THEN UNION {applyAction(d, a) : d \in docs} ELSE docs

After(f, docs, actions, ops, n) ==
    f = [k \in 0..n |-> IF k = 0 THEN docs ELSE EachStep(f[k - 1], actions[k], ops)]

LEMMA AfterExists ==
    ASSUME NEW n \in Nat, NEW docs, NEW actions, NEW ops
    PROVE  \E f : After(f, docs, actions, ops, n)
<1> DEFINE S == {m \in 0..n : ~\E f : After(f, docs, actions, ops, m)}
<1> SUFFICES ASSUME S # {} PROVE FALSE
  <2>1. n \in 0..n
    OBVIOUS
  <2> QED BY <2>1
<1>1. PICK m \in S : \A j \in S : m <= j
  <2>1. S \in SUBSET Nat
    OBVIOUS
  <2> HIDE DEF S
  <2> QED BY <2>1, Least
<1>2. m \in 0..n /\ ~\E f : After(f, docs, actions, ops, m)
  OBVIOUS
<1>3. CASE m = 0
  <2> DEFINE f == [k \in 0..0 |-> docs]
  <2>1. f = [k \in 0..0 |-> IF k = 0 THEN docs ELSE EachStep(f[k - 1], actions[k], ops)]
    OBVIOUS
  <2> HIDE DEF f
  <2>2. After(f, docs, actions, ops, m)
    BY <1>3, <2>1 DEF After
  <2> QED BY <1>2, <2>2
<1>4. CASE m # 0
  <2>1. m - 1 \in 0..n /\ ~(m <= m - 1)
    BY <1>2, <1>4
  <2>2. m - 1 \notin S
    <3> HIDE DEF S
    <3> QED BY <1>1, <2>1
  <2>3. PICK g : After(g, docs, actions, ops, m - 1)
    BY <2>1, <2>2
  <2> DEFINE f == [k \in 0..m |-> IF k = m THEN EachStep(g[m - 1], actions[m], ops) ELSE g[k]]
  <2>4. ASSUME NEW k \in 0..m
        PROVE  f[k] = IF k = 0 THEN docs ELSE EachStep(f[k - 1], actions[k], ops)
    <3>1. CASE k = m
      <4>1. k - 1 \in 0..m /\ k - 1 # m /\ k # 0
        BY <1>2, <1>4, <3>1
      <4>2. f[k - 1] = g[k - 1] /\ f[k] = EachStep(g[m - 1], actions[m], ops)
        BY <3>1, <4>1
      <4> QED BY <3>1, <4>1, <4>2
    <3>2. CASE k # m
      <4>1. k \in 0..(m - 1) /\ f[k] = g[k]
        BY <1>2, <1>4, <3>2
      <4>2. g[k] = IF k = 0 THEN docs ELSE EachStep(g[k - 1], actions[k], ops)
        BY <2>3, <4>1 DEF After
      <4>3. k # 0 => f[k - 1] = g[k - 1]
        <5>1. k # 0 => k - 1 \in 0..m /\ k - 1 # m
          BY <1>2, <3>2, <4>1
        <5> QED BY <5>1
      <4> QED BY <4>1, <4>2, <4>3
    <3> QED BY <3>1, <3>2
  <2>5. f = [k \in 0..m |-> f[k]]
    OBVIOUS
  <2> HIDE DEF f
  <2>6. After(f, docs, actions, ops, m)
    BY <2>4, <2>5 DEF After
  <2> QED BY <1>2, <2>6
<1> QED BY <1>3, <1>4

(* What holds of each document before an action holds after it, so it      *)
(* holds after them all: here, that the documents are good.                *)
LEMMA EachGood ==
    ASSUME NEW as, Apart(as), NEW left, NEW at,
           NEW docs, \A d \in docs : Good(d, as, left, at),
           NEW ops, NEW actions, Len(actions) \in Nat,
           \A k \in 1..Len(actions) : actions[k].op \in ops =>
                \E i \in 1..Len(as) : actions[k] = as[i] /\ Phase(left, as[i].op) /\ IsAction(as[i]),
           NEW out \in applyEach(docs, actions, ops)
    PROVE  Good(out, as, left, at)
<1> DEFINE n == Len(actions)
           after == CHOOSE f : f = [k \in 0..n |->
                        IF k = 0 THEN docs
                        ELSE IF actions[k].op \in ops THEN UNION {applyAction(d, actions[k]) : d \in f[k - 1]}
                        ELSE f[k - 1]]
<1>1. applyEach(docs, actions, ops) = after[n]
  BY DEF applyEach
<1>2. after = CHOOSE f : After(f, docs, actions, ops, n)
  BY DEF After, EachStep
<1> HIDE DEF after
<1>3. After(after, docs, actions, ops, n)
  BY <1>2, AfterExists
<1> DEFINE bad(k) == \E d \in after[k] : ~Good(d, as, left, at)
           S == {k \in 0..n : bad(k)}
<1>4. S = {}
  <2> SUFFICES ASSUME S # {} PROVE FALSE
    OBVIOUS
  <2>1. PICK m \in S : \A j \in S : m <= j
    <3> HIDE DEF bad
    <3>1. S \in SUBSET Nat
      OBVIOUS
    <3> HIDE DEF S
    <3> QED BY <3>1, Least
  <2>2. m \in 0..n
    OBVIOUS
  <2>3. PICK d \in after[m] : ~Good(d, as, left, at)
    OBVIOUS
  <2>4. after[m] = IF m = 0 THEN docs ELSE EachStep(after[m - 1], actions[m], ops)
    BY <1>3, <2>2 DEF After
  <2>5. m # 0
    BY <2>3, <2>4
  <2>6. m - 1 \in 0..n /\ ~(m <= m - 1) /\ m \in 1..n
    BY <2>2, <2>5
  <2>7. \A e \in after[m - 1] : Good(e, as, left, at)
    <3>1. m - 1 \notin S
      <4> HIDE DEF S
      <4> QED BY <2>1, <2>6
    <3> QED BY <2>6, <3>1
  <2>8. CASE actions[m].op \in ops
    <3>1. PICK e \in after[m - 1] : d \in applyAction(e, actions[m])
      BY <2>3, <2>4, <2>5, <2>8 DEF EachStep
    <3>2. PICK i \in 1..Len(as) : actions[m] = as[i] /\ Phase(left, as[i].op) /\ IsAction(as[i])
      BY <2>6, <2>8
    <3>3. Good(e, as, left, at) /\ d \in applyAction(e, as[i])
      BY <2>7, <3>1, <3>2
    <3> QED BY <2>3, <3>2, <3>3, ActionGood
  <2>9. CASE actions[m].op \notin ops
    <3>1. d \in after[m - 1]
      BY <2>3, <2>4, <2>5, <2>9 DEF EachStep
    <3> QED BY <2>3, <2>7, <3>1
  <2> QED BY <2>8, <2>9
<1>5. n \in 0..n
  OBVIOUS
<1> QED BY <1>1, <1>4, <1>5

LEMMA InsertedIn ==
    ASSUME NEW R, NEW sorted \in Seq(R), NEW a \in R
    PROVE  Inserted(sorted, a) \in Seq(R)
<1> DEFINE stops == {i \in 1..Len(sorted) : ~GoesBefore(a, sorted[i])}
           stop == IF stops = {} THEN 0 ELSE CHOOSE i \in stops : \A j \in stops : j <= i
<1>1. Len(sorted) \in Nat /\ \A i \in 1..Len(sorted) : sorted[i] \in R
  BY LenProperties
<1>2. stop \in 0..Len(sorted)
  <2>1. CASE stops = {}
    BY <1>1, <2>1
  <2>2. CASE stops # {}
    <3>1. stops \subseteq 0..Len(sorted)
      BY <1>1
    <3> HIDE DEF stops
    <3>2. \E i \in stops : \A j \in stops : j <= i
      BY <1>1, <2>2, <3>1, Greatest
    <3>3. stop \in stops
      BY <2>2, <3>2
    <3> QED BY <3>1, <3>3
  <2> QED BY <2>1, <2>2
<1>3. Inserted(sorted, a) = InsertAt(sorted, stop + 1, a)
  BY DEF Inserted
<1> HIDE DEF stop
<1>4. PICK k : k = stop + 1
  OBVIOUS
<1>5. /\ k \in Int /\ k - 1 \in Int /\ Len(sorted) \in Int /\ 1 \in Int
      /\ k >= 1 /\ k - 1 <= Len(sorted)
  BY <1>1, <1>2, <1>4
<1>6. SubSeq(sorted, 1, k - 1) \in Seq(R) /\ SubSeq(sorted, k, Len(sorted)) \in Seq(R)
  <2>1. \A i \in 1..(k - 1) : sorted[i] \in R
    BY <1>1, <1>5
  <2>2. \A i \in k..Len(sorted) : sorted[i] \in R
    BY <1>1, <1>5
  <2> QED BY <1>5, <2>1, <2>2, SubSeqProperties
<1>9. InsertAt(sorted, k, a) = SubSeq(sorted, 1, k - 1) \o <<a>> \o SubSeq(sorted, k, Len(sorted))
  BY DEF InsertAt
<1>7. <<a>> \in Seq(R)
  OBVIOUS
<1>8. SubSeq(sorted, 1, k - 1) \o <<a>> \in Seq(R)
  BY <1>6, <1>7, ConcatProperties
<1>10. InsertAt(sorted, k, a) \in Seq(R)
  BY <1>6, <1>8, <1>9, ConcatProperties
<1> QED BY <1>3, <1>4, <1>10

Sorted(f, actions, n) ==
    f = [k \in 0..n |-> IF k = 0 THEN <<>>
                        ELSE IF actions[k].op = "remove" THEN Inserted(f[k - 1], actions[k])
                        ELSE f[k - 1]]

LEMMA SortedExists ==
    ASSUME NEW n \in Nat, NEW actions
    PROVE  \E f : Sorted(f, actions, n)
<1> DEFINE S == {m \in 0..n : ~\E f : Sorted(f, actions, m)}
           next(s, k) == IF actions[k].op = "remove" THEN Inserted(s, actions[k]) ELSE s
<1> SUFFICES ASSUME S # {} PROVE FALSE
  <2>1. n \in 0..n
    OBVIOUS
  <2> QED BY <2>1
<1>1. PICK m \in S : \A j \in S : m <= j
  <2>1. S \in SUBSET Nat
    OBVIOUS
  <2> HIDE DEF S
  <2> QED BY <2>1, Least
<1>2. m \in 0..n /\ ~\E f : Sorted(f, actions, m)
  OBVIOUS
<1>3. CASE m = 0
  <2> DEFINE f == [k \in 0..0 |-> <<>>]
  <2>1. f = [k \in 0..0 |-> IF k = 0 THEN <<>> ELSE next(f[k - 1], k)]
    OBVIOUS
  <2> HIDE DEF f
  <2>2. Sorted(f, actions, m)
    BY <1>3, <2>1 DEF Sorted
  <2> QED BY <1>2, <2>2
<1>4. CASE m # 0
  <2>1. m - 1 \in 0..n /\ ~(m <= m - 1)
    BY <1>2, <1>4
  <2>2. m - 1 \notin S
    <3> HIDE DEF S
    <3> QED BY <1>1, <2>1
  <2>3. PICK g : Sorted(g, actions, m - 1)
    BY <2>1, <2>2
  <2> DEFINE f == [k \in 0..m |-> IF k = m THEN next(g[m - 1], m) ELSE g[k]]
  <2>4. ASSUME NEW k \in 0..m
        PROVE  f[k] = IF k = 0 THEN <<>> ELSE next(f[k - 1], k)
    <3>1. CASE k = m
      <4>1. k - 1 \in 0..m /\ k - 1 # m /\ k # 0
        BY <1>2, <1>4, <3>1
      <4>2. f[k - 1] = g[k - 1] /\ f[k] = next(g[m - 1], m)
        BY <3>1, <4>1
      <4> HIDE DEF f, next
      <4> QED BY <3>1, <4>1, <4>2
    <3>2. CASE k # m
      <4>1. k \in 0..(m - 1) /\ f[k] = g[k]
        BY <1>2, <1>4, <3>2
      <4>2. g[k] = IF k = 0 THEN <<>> ELSE next(g[k - 1], k)
        BY <2>3, <4>1 DEF Sorted
      <4>3. k # 0 => f[k - 1] = g[k - 1]
        <5>1. k # 0 => k - 1 \in 0..m /\ k - 1 # m
          BY <1>2, <3>2, <4>1
        <5> QED BY <5>1
      <4> HIDE DEF f, next
      <4> QED BY <4>1, <4>2, <4>3
    <3> QED BY <3>1, <3>2
  <2>5. f = [k \in 0..m |-> f[k]]
    OBVIOUS
  <2> HIDE DEF f
  <2>6. Sorted(f, actions, m)
    BY <2>4, <2>5 DEF Sorted
  <2> QED BY <1>2, <2>6
<1> QED BY <1>3, <1>4

LEMMA RemovesIn ==
    ASSUME NEW actions, Len(actions) \in Nat,
           NEW R, R = {actions[i] : i \in {j \in 1..Len(actions) : actions[j].op = "remove"}}
    PROVE  Removes(actions) \in Seq(R)
<1> DEFINE n == Len(actions)
           removes == CHOOSE f : f = [k \in 0..n |->
                        IF k = 0 THEN <<>>
                        ELSE IF actions[k].op = "remove" THEN Inserted(f[k - 1], actions[k])
                        ELSE f[k - 1]]
<1>1. Removes(actions) = removes[n]
  BY DEF Removes
<1>2. removes = CHOOSE f : Sorted(f, actions, n)
  BY DEF Sorted
<1> HIDE DEF removes
<1>3. Sorted(removes, actions, n)
  BY <1>2, SortedExists
<1> DEFINE S == {k \in 0..n : removes[k] \notin Seq(R)}
<1>4. S = {}
  <2> SUFFICES ASSUME S # {} PROVE FALSE
    OBVIOUS
  <2>1. PICK m \in S : \A j \in S : m <= j
    <3>1. S \in SUBSET Nat
      OBVIOUS
    <3> HIDE DEF S
    <3> QED BY <3>1, Least
  <2>2. m \in 0..n /\ removes[m] \notin Seq(R)
    OBVIOUS
  <2>3. removes[m] = IF m = 0 THEN <<>>
                     ELSE IF actions[m].op = "remove" THEN Inserted(removes[m - 1], actions[m])
                     ELSE removes[m - 1]
    BY <1>3, <2>2 DEF Sorted
  <2>4. m # 0
    BY <2>2, <2>3
  <2>5. m - 1 \in 0..n /\ ~(m <= m - 1) /\ m \in 1..n
    BY <2>2, <2>4
  <2>6. removes[m - 1] \in Seq(R)
    <3>1. m - 1 \notin S
      <4> HIDE DEF S
      <4> QED BY <2>1, <2>5
    <3> QED BY <2>5, <3>1
  <2>7. CASE actions[m].op = "remove"
    <3>1. actions[m] \in R
      BY <2>5, <2>7
    <3> QED BY <2>2, <2>3, <2>4, <2>6, <2>7, <3>1, InsertedIn
  <2> QED BY <2>2, <2>3, <2>4, <2>6, <2>7
<1>5. n \in 0..n
  OBVIOUS
<1> QED BY <1>1, <1>4, <1>5

-----------------------------------------------------------------------------
(* Updates                                                                 *)

LEMMA ParsedActions ==
    ASSUME NEW u \in Updates
    PROVE  Len(u.actions) \in Nat /\ \A i \in 1..Len(u.actions) : IsAction(u.actions[i])
<1>1. u.actions \in Seq({u.actions[i] : i \in DOMAIN u.actions})
      /\ \A i \in DOMAIN u.actions : IsAction(u.actions[i])
  BY UpdatesAssumption DEF UpdatesAssumption
<1>2. Len(u.actions) \in Nat /\ DOMAIN u.actions = 1..Len(u.actions)
  BY <1>1, LenProperties
<1> QED BY <1>1, <1>2

(* Validation refuses paths that overlap.                                  *)
LEMMA ValidatedApart ==
    ASSUME NEW u \in Updates, ~Malformed(u.actions)
    PROVE  Apart(u.actions)
<1> DEFINE as == u.actions
<1>1. Len(as) \in Nat /\ \A i \in 1..Len(as) : IsAction(as[i])
  BY ParsedActions
<1> HIDE DEF as
<1>2. \A i, j \in 1..Len(as) : i < j => ~pathsOverlap(as[i].path, as[j].path)
  BY DEF Malformed, as
<1>3. \A i \in 1..Len(as) : as[i].path \in Paths \ {Here}
  BY <1>1 DEF IsAction, AttributePaths, Here
<1>4. Named(as) \subseteq Paths \ {Here}
  BY <1>3 DEF Named
<1>5. ASSUME NEW p \in Named(as), NEW q \in Named(as), IsPrefix(p, q) PROVE p = q
  <2>1. PICK i \in 1..Len(as) : p = as[i].path
    BY DEF Named
  <2>2. PICK j \in 1..Len(as) : q = as[j].path
    BY DEF Named
  <2>3. i < j \/ j < i \/ i = j
    BY <1>1
  <2>4. pathsOverlap(p, q) /\ pathsOverlap(q, p)
    BY <1>5 DEF pathsOverlap
  <2> QED BY <1>2, <2>1, <2>2, <2>3, <2>4
<1>6. Apart(as)
  BY <1>4, <1>5 DEF Apart
<1> QED BY <1>6 DEF as

(* What a request can name: the attributes, without what was sent.         *)
Visible(p) == p = Here \/ ~p[1].isIdx
Ground(at) == IsTree(DOMAIN at) /\ \A p \in DOMAIN at : Visible(p)

SentAt(v) == {Join(RefPath(v), q) : q \in DOMAIN Refs[v]}

LEMMA SentPaths ==
    ASSUME NEW v \in DOMAIN Refs, NEW q \in DOMAIN Refs[v]
    PROVE  /\ q \in Paths /\ Join(RefPath(v), q) \in Paths /\ Join(RefPath(v), q) # Here
           /\ Len(Join(RefPath(v), q)) = Len(q) + 1
           /\ Join(RefPath(v), q)[1] = Index(v) /\ ~Visible(Join(RefPath(v), q))
           /\ Tail(Join(RefPath(v), q)) = q
<1>1. v \in Nat /\ q \in Paths
  BY RefsAssumption DEF RefsAssumption, IsValue, IsTree
<1>2. RefPath(v) \in Paths /\ Len(RefPath(v)) = 1 /\ RefPath(v)[1] = Index(v) /\ RefPath(v)[1].isIdx
  BY RefPathFacts
<1>3. PICK p : p = Join(RefPath(v), q)
  OBVIOUS
<1>4. /\ p \in Paths /\ Len(p) = Len(q) + 1 /\ p[1] = Index(v) /\ p[1].isIdx
      /\ \A i \in 1..Len(q) : p[1 + i] = q[i]
  <2>1. PICK r \in Paths : r = RefPath(v) /\ Len(r) = 1 /\ r[1] = Index(v) /\ r[1].isIdx
    BY <1>2
  <2>2. p = r \o q
    BY <1>3, <2>1 DEF Join
  <2>3. /\ p \in Paths /\ Len(p) = Len(r) + Len(q)
        /\ \A i \in 1..Len(r) : p[i] = r[i]
        /\ \A i \in 1..Len(q) : p[Len(r) + i] = q[i]
    BY <1>1, <2>2, JoinFacts
  <2>4. Len(q) \in Nat
    BY <1>1, PathFacts
  <2> QED BY <2>1, <2>3, <2>4
<1>5. Len(q) \in Nat /\ p # Here
  BY <1>1, <1>4, PathFacts DEF Here
<1>6. Tail(p) \in Paths /\ Len(Tail(p)) = Len(q) /\ \A i \in 1..Len(q) : Tail(p)[i] = q[i]
  <2>1. p \in Seq(Steps) /\ p # <<>>
    BY <1>4, <1>5 DEF Paths, Here
  <2>2. Tail(p) \in Seq(Steps) /\ Len(Tail(p)) = Len(p) - 1 /\ \A i \in 1..Len(Tail(p)) : Tail(p)[i] = p[i + 1]
    BY <2>1, HeadTailProperties
  <2> QED BY <1>4, <1>5, <2>2 DEF Paths
<1>7. Tail(p) = q
  BY <1>1, <1>6, SamePath
<1> QED BY <1>1, <1>3, <1>4, <1>5, <1>7 DEF Visible

LEMMA SentFacts ==
    /\ DOMAIN Sent = UNION {SentAt(v) : v \in DOMAIN Refs}
    /\ \A v \in DOMAIN Refs : \A q \in DOMAIN Refs[v] :
          /\ Join(RefPath(v), q) \in DOMAIN Sent
          /\ Sent[Join(RefPath(v), q)] = Refs[v][q]
<1>1. DOMAIN Sent = UNION {SentAt(v) : v \in DOMAIN Refs}
  BY DEF Sent, SentAt, Join
<1>2. ASSUME NEW v \in DOMAIN Refs, NEW q \in DOMAIN Refs[v]
      PROVE  /\ Join(RefPath(v), q) \in DOMAIN Sent
             /\ Sent[Join(RefPath(v), q)] = Refs[v][q]
  <2>1. PICK p : p = Join(RefPath(v), q)
    OBVIOUS
  <2>2. p \in SentAt(v)
    BY <2>1 DEF SentAt
  <2>3. p \in DOMAIN Sent
    BY <1>1, <2>2
  <2>4. p[1] = Index(v) /\ Tail(p) = q
    BY <2>1, SentPaths
  <2>5. p[1].index = v
    <3>1. Index(v).index = v
      BY DEF Index
    <3> QED BY <2>4, <3>1
  <2>6. Sent[p] = Refs[p[1].index][Tail(p)]
    BY <2>3 DEF Sent
  <2> QED BY <2>1, <2>3, <2>4, <2>5, <2>6
<1> QED BY <1>1, <1>2

LEMMA SentFinite == IsFiniteSet(DOMAIN Sent)
<1> DEFINE f == [v \in DOMAIN Refs |-> SentAt(v)]
<1>1. IsFiniteSet(DOMAIN Refs) /\ \A v \in DOMAIN Refs : IsFiniteSet(DOMAIN Refs[v])
  BY RefsAssumption DEF RefsAssumption, IsValue, IsTree
<1>2. IsFiniteSet({f[v] : v \in DOMAIN Refs})
  <2> HIDE DEF f
  <2>1. DOMAIN f = DOMAIN Refs /\ f = [v \in DOMAIN Refs |-> f[v]]
    BY DEF f
  <2> QED BY <1>1, <2>1, FiniteImage
<1>3. ASSUME NEW v \in DOMAIN Refs PROVE IsFiniteSet(SentAt(v))
  <2> DEFINE g == [q \in DOMAIN Refs[v] |-> Join(RefPath(v), q)]
  <2>1. DOMAIN g = DOMAIN Refs[v] /\ g = [q \in DOMAIN Refs[v] |-> g[q]]
    OBVIOUS
  <2>2. SentAt(v) = {g[q] : q \in DOMAIN Refs[v]}
    BY DEF SentAt
  <2> HIDE DEF g
  <2>3. IsFiniteSet({g[q] : q \in DOMAIN Refs[v]})
    BY <1>1, <2>1, FiniteImage
  <2> QED BY <2>2, <2>3
<1>4. {SentAt(v) : v \in DOMAIN Refs} = {f[v] : v \in DOMAIN Refs}
  OBVIOUS
<1>5. \A T \in {SentAt(v) : v \in DOMAIN Refs} : IsFiniteSet(T)
  BY <1>3
<1>6. IsFiniteSet({SentAt(v) : v \in DOMAIN Refs})
  BY <1>2, <1>4
<1>7. IsFiniteSet(UNION {SentAt(v) : v \in DOMAIN Refs})
  BY <1>5, <1>6, FS_UNION
<1> QED BY <1>7, SentFacts

(* A clone: the attributes, with what was sent beside them.                *)
Clones(doc, at) ==
    /\ DOMAIN doc.at = DOMAIN at \union DOMAIN Sent /\ DOMAIN doc.ref = DOMAIN doc.at
    /\ \A p \in DOMAIN doc.at : doc.ref[p] = Read(p)
    /\ \A p \in DOMAIN at : doc.at[p] = at[p]
    /\ \A p \in DOMAIN Sent : p \notin DOMAIN at /\ doc.at[p] = Sent[p]

LEMMA CloneFacts ==
    ASSUME NEW at, Ground(at)
    PROVE  Clones(cloneItem(at), at)
<1>1. \A p \in DOMAIN Sent : ~Visible(p)
  BY SentFacts, SentPaths DEF SentAt
<1>2. \A p \in DOMAIN Sent : p \notin DOMAIN at
  BY <1>1 DEF Ground
<1>3. PICK all :
         /\ DOMAIN all = DOMAIN at \union DOMAIN Sent
         /\ \A p \in DOMAIN all : all[p] = IF p \in DOMAIN at THEN at[p] ELSE Sent[p]
         /\ cloneItem(at) = [at |-> all, ref |-> [p \in DOMAIN all |-> Read(p)]]
  BY DEF cloneItem
<1>4. /\ cloneItem(at).at = all /\ DOMAIN cloneItem(at).ref = DOMAIN all
      /\ \A p \in DOMAIN all : cloneItem(at).ref[p] = Read(p)
  BY <1>3
<1> QED BY <1>2, <1>3, <1>4 DEF Clones

LEMMA CloneRooted ==
    ASSUME NEW at, Ground(at)
    PROVE  Rooted(cloneItem(at))
<1> DEFINE doc == cloneItem(at)
<1>1. Clones(doc, at) /\ IsTree(DOMAIN at)
  BY CloneFacts DEF Ground
<1> HIDE DEF doc
<1>2. IsFiniteSet(DOMAIN doc.at)
  <2>1. IsFiniteSet(DOMAIN at) /\ DOMAIN doc.at = DOMAIN at \union DOMAIN Sent
    BY <1>1 DEF Clones, IsTree
  <2> QED BY <2>1, SentFinite, FS_Union
<1>3. ASSUME NEW p \in DOMAIN Sent
      PROVE  p \in Paths /\ p # Here /\ Front(p) \in DOMAIN doc.at
  <2>0. PICK v \in DOMAIN Refs : p \in SentAt(v)
    BY SentFacts
  <2>1. PICK q \in DOMAIN Refs[v] : p = Join(RefPath(v), q)
    BY <2>0 DEF SentAt
  <2>2. p \in Paths /\ p # Here /\ q \in Paths /\ Len(p) = Len(q) + 1
    BY <2>1, SentPaths
  <2>3. CASE q = Here
    <3>1. Len(Front(p)) = 0 /\ Front(p) \in Paths
      BY <2>2, <2>3, FrontFacts, PathFacts
    <3>2. Front(p) = Here
      BY <3>1, PathFacts
    <3> QED BY <1>1, <2>2, <3>2 DEF Clones, IsTree
  <2>4. CASE q # Here
    <3>1. Front(q) \in DOMAIN Refs[v]
      BY <2>4, RefsAssumption DEF RefsAssumption, IsValue, IsTree
    <3>2. Front(p) = Join(RefPath(v), Front(q))
      BY <2>1, <2>2, <2>4, FrontOfJoin, RefPathFacts DEF Join
    <3> QED BY <1>1, <2>2, <3>1, <3>2, SentFacts DEF Clones
  <2> QED BY <2>3, <2>4
<1>4. \A p \in DOMAIN at : p \in Paths /\ (p # Here => Front(p) \in DOMAIN at)
  BY <1>1 DEF IsTree
<1>5. IsTree(DOMAIN doc.at)
  BY <1>1, <1>2, <1>3, <1>4 DEF Clones, IsTree
<1>6. Tree(doc)
  BY <1>1, <1>5 DEF Tree, Clones
<1>7. Sole(doc)
  <2>1. \A p : Read(p) = Read(Here) <=> p = Here
    BY DEF Read
  <2> QED BY <1>1, <2>1 DEF Clones, Sole
<1>8. Holds(doc)
  <2> SUFFICES ASSUME NEW v \in DOMAIN Refs PROVE RefPath(v) \in DOMAIN doc.at
    BY DEF Holds
  <2>1. Here \in DOMAIN Refs[v]
    BY RefsAssumption DEF RefsAssumption, IsValue, IsTree
  <2>2. Join(RefPath(v), Here) = RefPath(v)
    <3>1. RefPath(v) \in Paths /\ RefPath(v) \in Seq(Steps)
      BY RefPathFacts DEF Paths
    <3> QED BY <3>1 DEF Join, Here
  <2> QED BY <1>1, <2>1, <2>2, SentFacts DEF Clones
<1>9. Rooted(doc)
  BY <1>6, <1>7, <1>8 DEF Rooted
<1> QED BY <1>9 DEF doc

LEMMA CloneGood ==
    ASSUME NEW at, Ground(at), NEW as, NEW left
    PROVE  Good(cloneItem(at), as, left, cloneItem(at).at)
<1> DEFINE doc == cloneItem(at)
<1>1. Rooted(doc) /\ Clones(doc, at)
  BY CloneRooted, CloneFacts
<1> HIDE DEF doc
<1>3. Owns(doc, as, left)
  <2>1. \A p : Read(p).place = p
    BY DEF Read
  <2>2. \A p \in DOMAIN doc.at : doc.ref[p] = Read(p)
    BY <1>1 DEF Clones
  <2> QED BY <2>1, <2>2 DEF Owns
<1>4. Keeps(doc, as, doc.at)
  BY DEF Keeps, Agree
<1>5. Good(doc, as, left, doc.at)
  BY <1>1, <1>3, <1>4 DEF Good
<1> QED BY <1>5 DEF doc

(* What is steady when only REMOVEs are left was steady before.            *)
LEMMA GoodLater ==
    ASSUME NEW doc, NEW as, NEW at, Good(doc, as, AllOps, at)
    PROVE  Good(doc, as, {"remove"}, at)
<1>1. PathsOf(as, {"remove"}) \subseteq PathsOf(as, AllOps)
  BY DEF PathsOf, AllOps
<1>2. \A p : Steady(p, as, {"remove"}) => Steady(p, as, AllOps)
  BY <1>1 DEF Steady
<1>3. Owns(doc, as, AllOps) => Owns(doc, as, {"remove"})
  BY <1>2 DEF Owns
<1> QED BY <1>3 DEF Good

LEMMA UpdateGood ==
    ASSUME NEW base, Ground(base), NEW at, at = cloneItem(base).at,
           NEW u \in Updates, ~Malformed(u.actions), NEW doc \in applyUpdate(base, u.actions)
    PROVE  Good(doc, u.actions, {"remove"}, at)
<1> DEFINE as == u.actions
           first == {"set", "add", "delete"}
           R == {as[i] : i \in {j \in 1..Len(as) : as[j].op = "remove"}}
           docs == applyEach({cloneItem(base)}, as, first)
<1>1. Len(as) \in Nat /\ \A i \in 1..Len(as) : IsAction(as[i])
  BY ParsedActions
<1>2. Apart(as)
  BY ValidatedApart
<1>3. doc \in applyEach(docs, Removes(as), {"remove"})
  BY DEF applyUpdate
<1> HIDE DEF as
<1>4. \A k \in 1..Len(as) : as[k].op \in first =>
        \E i \in 1..Len(as) : as[k] = as[i] /\ Phase(AllOps, as[i].op) /\ IsAction(as[i])
  <2> SUFFICES ASSUME NEW k \in 1..Len(as), as[k].op \in first
               PROVE  Phase(AllOps, as[k].op) /\ IsAction(as[k])
    OBVIOUS
  <2> QED BY <1>1 DEF Phase
<1>5. \A d \in {cloneItem(base)} : Good(d, as, AllOps, at)
  BY CloneGood
<1>6. ASSUME NEW d \in docs PROVE Good(d, as, {"remove"}, at)
  <2>1. Good(d, as, AllOps, at)
    <3> HIDE DEF first
    <3> QED BY <1>1, <1>2, <1>4, <1>5, EachGood
  <2> QED BY <2>1, GoodLater
<1>7. Removes(as) \in Seq(R)
  BY <1>1, RemovesIn
<1>8. Len(Removes(as)) \in Nat /\ \A k \in 1..Len(Removes(as)) : Removes(as)[k] \in R
  <2> HIDE DEF R
  <2> QED BY <1>7, LenProperties
<1>9. \A k \in 1..Len(Removes(as)) : Removes(as)[k].op \in {"remove"} =>
        \E i \in 1..Len(as) : Removes(as)[k] = as[i] /\ Phase({"remove"}, as[i].op) /\ IsAction(as[i])
  <2> SUFFICES ASSUME NEW k \in 1..Len(Removes(as))
               PROVE  \E i \in 1..Len(as) :
                        Removes(as)[k] = as[i] /\ Phase({"remove"}, as[i].op) /\ IsAction(as[i])
    OBVIOUS
  <2>1. PICK i \in 1..Len(as) : as[i].op = "remove" /\ Removes(as)[k] = as[i]
    BY <1>8
  <2>2. Phase({"remove"}, as[i].op)
    BY <2>1 DEF Phase
  <2> QED BY <1>1, <2>1, <2>2
<1> HIDE DEF docs, R
<1>10. Good(doc, as, {"remove"}, at)
  BY <1>2, <1>3, <1>6, <1>8, <1>9, EachGood
<1> QED BY <1>10 DEF as

(* A stored item has all that leads to its paths, which are a request's.   *)
Stored == item # NoItem => Ground(item)

(* The attributes of a key are not lists and maps.                         *)
LEMMA KeyGround == Ground(KeyAttributes)
<1>1. /\ IsTree(DOMAIN KeyAttributes) /\ KeyAttributes[Here].type = "M"
      /\ \A p \in DOMAIN KeyAttributes \ {Here} :
            /\ KeyAttributes[Front(p)].type = IF Last(p).isIdx THEN "L" ELSE "M"
            /\ KeyAttributes[p].type \in {"S", "N", "B"}
  BY KeyAttributesAssumption DEF KeyAttributesAssumption, IsValue
<1>2. ASSUME NEW p \in DOMAIN KeyAttributes, p # Here PROVE ~p[1].isIdx
  <2>1. Front(p) \in DOMAIN KeyAttributes /\ p \in Paths
    BY <1>1, <1>2 DEF IsTree
  <2>2. Front(p) = Here
    <3>1. KeyAttributes[Front(p)].type \in {"L", "M"}
      BY <1>1, <1>2
    <3> QED BY <1>1, <2>1, <3>1
  <2>3. ~Last(p).isIdx
    BY <1>1, <1>2, <2>2
  <2>4. Len(p) - 1 = 0 /\ Len(p) \in Nat
    BY <1>2, <2>1, <2>2, FrontFacts, PathFacts, HereLeads
  <2>5. Last(p) = p[1]
    BY <2>4 DEF Last
  <2> QED BY <2>3, <2>5
<1> QED BY <1>1, <1>2 DEF Ground, Visible

LEMMA BaseGround == Stored => Ground(Base)
BY KeyGround DEF Stored, Base

LEMMA BaseTree == Stored => IsTree(DOMAIN Base)
BY BaseGround DEF Ground

LEMMA AttributesFacts ==
    ASSUME NEW doc
    PROVE  /\ \A p : p \in DOMAIN Attributes(doc) <=> p \in DOMAIN doc.at /\ Visible(p)
           /\ \A p \in DOMAIN Attributes(doc) : Attributes(doc)[p] = doc.at[p]
BY DEF Attributes, Visible

LEMMA AttributesGround ==
    ASSUME NEW doc, Tree(doc)
    PROVE  Ground(Attributes(doc))
<1> DEFINE D == DOMAIN Attributes(doc)
<1>1. IsTree(DOMAIN doc.at)
  BY DEF Tree
<1>2. \A p : p \in D <=> p \in DOMAIN doc.at /\ Visible(p)
  BY AttributesFacts
<1> HIDE DEF D
<1>3. D \subseteq DOMAIN doc.at /\ D \subseteq Paths /\ Here \in D
  BY <1>1, <1>2 DEF IsTree, Visible
<1>4. IsFiniteSet(D)
  BY <1>1, <1>3, FS_Subset DEF IsTree
<1>5. ASSUME NEW p \in D \ {Here} PROVE Front(p) \in D
  <2>1. p \in Paths /\ Front(p) \in DOMAIN doc.at /\ ~p[1].isIdx
    BY <1>1, <1>2, <1>3 DEF IsTree, Visible
  <2>2. Front(p) \in Paths /\ Len(Front(p)) = Len(p) - 1
        /\ \A i \in 1..(Len(p) - 1) : Front(p)[i] = p[i]
    BY <1>5, <2>1, FrontFacts
  <2>3. Front(p) # Here => 1 \in 1..(Len(p) - 1)
    BY <2>2, PathFacts
  <2>4. Visible(Front(p))
    BY <2>1, <2>2, <2>3 DEF Visible
  <2> QED BY <1>2, <2>1, <2>4
<1>6. IsTree(D)
  BY <1>3, <1>4, <1>5 DEF IsTree
<1> QED BY <1>2, <1>6 DEF Ground, D

(* Beside what was sent a clone agrees with the item.                      *)
LEMMA BaseAgrees ==
    ASSUME NEW base, Ground(base), NEW doc, NEW p, Agree(p, cloneItem(base).at, doc.at)
    PROVE  Agree(p, base, Attributes(doc))
<1>1. Clones(cloneItem(base), base)
  BY CloneFacts
<1>2. \A q \in DOMAIN Sent : ~Visible(q)
  BY SentFacts, SentPaths DEF SentAt
<1>3. \A q \in DOMAIN base : Visible(q)
  BY DEF Ground
<1> QED BY <1>1, <1>2, <1>3, AttributesFacts DEF Agree, Clones

LEMMA Updated ==
    ASSUME Stored, NEW u \in Updates, Update(u)
    PROVE  /\ Ground(item')
           /\ Independent(u.actions) => \A p \in Paths : Untouched(p, u.actions) => Agree(p, Base, item')
<1>1. PICK doc \in applyUpdate(Base, u.actions) : Verdicts({doc}) = {"ok"} /\ item' = Attributes(doc)
  BY DEF Update
<1>2. Ground(Base) /\ Good(doc, u.actions, {"remove"}, cloneItem(Base).at)
  BY BaseGround, UpdateGood DEF Update
<1>3. doc # Cyclic
  <2>1. ASSUME doc = Cyclic PROVE "died" \in Verdicts({doc})
    BY <2>1 DEF Verdicts
  <2> QED BY <1>1, <2>1
<1>4. Tree(doc) /\ (Independent(u.actions) => Keeps(doc, u.actions, cloneItem(Base).at))
  BY <1>2, <1>3 DEF Good, Rooted
<1>5. Ground(item')
  BY <1>1, <1>4, AttributesGround
<1>6. ASSUME Independent(u.actions), NEW p \in Paths, Untouched(p, u.actions) PROVE Agree(p, Base, item')
  BY <1>1, <1>2, <1>4, <1>6, BaseAgrees DEF Keeps
<1> QED BY <1>5, <1>6

(* The answers of the other requests.                                      *)
LEMMA Otherwise ==
    ASSUME NEW u \in Updates, Refuse(u) \/ FailCondition(u) \/ FailUpdate(u)
    PROVE  reply'.outcome # "ok" /\ item' = item
<1>1. ASSUME NEW outcome, outcome # "ok", Answer(u, outcome)
      PROVE  reply'.outcome # "ok" /\ item' = item
  BY <1>1 DEF Answer
<1>2. CASE Refuse(u)
  BY <1>1, <1>2 DEF Refuse
<1>3. CASE FailCondition(u)
  BY <1>1, <1>3 DEF FailCondition
<1>4. CASE FailUpdate(u)
  <2> DEFINE verdicts == Verdicts(applyUpdate(Base, u.actions))
             outcome == IF verdicts = {} THEN "invalid" ELSE CHOOSE v \in verdicts : TRUE
  <2>1. "ok" \notin verdicts /\ Answer(u, outcome)
    BY <1>4 DEF FailUpdate
  <2> HIDE DEF verdicts
  <2>2. outcome # "ok"
    <3>1. verdicts # {} => (CHOOSE v \in verdicts : TRUE) \in verdicts
      OBVIOUS
    <3> QED BY <2>1, <3>1
  <2> HIDE DEF outcome
  <2> QED BY <1>1, <2>1, <2>2
<1> QED BY <1>2, <1>3, <1>4

LEMMA StoredStays == Stored /\ [Next]_vars => Stored'
<1> SUFFICES ASSUME Stored, [Next]_vars PROVE Stored'
  OBVIOUS
<1>1. CASE UNCHANGED vars
  BY <1>1 DEF vars, Stored
<1>2. ASSUME NEW u \in Updates, Refuse(u) \/ FailCondition(u) \/ FailUpdate(u) PROVE Stored'
  BY <1>2, Otherwise DEF Stored
<1>3. ASSUME NEW u \in Updates, Update(u) PROVE Stored'
  BY <1>3, Updated DEF Stored
<1> QED BY <1>1, <1>2, <1>3 DEF Next

LEMMA InitStored == Init => Stored
BY KeyGround DEF Init, Stored

(* OnlyNamedChange, of one step.                                           *)
NamedChange ==
    LET as == reply'.request.actions IN
    IF reply'.outcome # "ok" THEN item' = item
    ELSE Independent(as) =>
         \A p \in DOMAIN Base \union DOMAIN item' :
             \/ \E i \in 1..Len(as) : pathsOverlap(as[i].path, p)
             \/ Moves(p, as)
             \/ Agree(p, Base, item')

LEMMA ChangesNamed == Stored /\ [Next]_vars => [NamedChange]_vars
<1> SUFFICES ASSUME Stored, [Next]_vars PROVE [NamedChange]_vars
  OBVIOUS
<1>1. CASE UNCHANGED vars
  BY <1>1
<1>2. ASSUME NEW u \in Updates, Refuse(u) \/ FailCondition(u) \/ FailUpdate(u) PROVE NamedChange
  BY <1>2, Otherwise DEF NamedChange
<1>3. ASSUME NEW u \in Updates, Update(u) PROVE NamedChange
  <2> DEFINE as == u.actions
  <2>1. reply'.request.actions = as /\ reply'.outcome = "ok"
    BY <1>3 DEF Update
  <2>2. DOMAIN Base \subseteq Paths /\ DOMAIN item' \subseteq Paths
    BY <1>3, BaseTree, Updated DEF Ground, IsTree
  <2>3. ASSUME Independent(as), NEW p \in DOMAIN Base \union DOMAIN item',
               ~\E i \in 1..Len(as) : pathsOverlap(as[i].path, p), ~Moves(p, as)
        PROVE  Agree(p, Base, item')
    <3>1. Untouched(p, as)
      BY <2>3 DEF Untouched, Named
    <3>2. p \in Paths
      BY <2>2
    <3> QED BY <1>3, <2>3, <3>1, <3>2, Updated
  <2> HIDE DEF as
  <2> QED BY <2>1, <2>3 DEF NamedChange
<1> QED BY <1>1, <1>2, <1>3 DEF Next

(* Whatever the actions of an update and the item they work on, one that   *)
(* fails changes nothing, and one that succeeds only what its paths lead   *)
(* to or through and the elements after those it removes, although SET and *)
(* list_append share containers (applyUpdate on cloneItem's copy).         *)
THEOREM OnlyNamedChangeHolds == Spec => OnlyNamedChange
<1>1. OnlyNamedChange <=> [][NamedChange]_vars
  BY PTL DEF OnlyNamedChange, NamedChange
<1> QED BY <1>1, InitStored, StoredStays, ChangesNamed, PTL DEF Spec

(* The first steps of the paths of an update.                              *)
LEMMA FirstSteps ==
    ASSUME NEW p \in Paths \ {Here}, NEW q \in Paths \ {Here}, pathsOverlap(q, p)
    PROVE  p[1] = q[1]
<1>1. 1 \in 1..Len(p) /\ 1 \in 1..Len(q)
  BY PathFacts
<1> QED BY <1>1, LeadsPointwise DEF pathsOverlap

LEMMA OtherAttributes ==
    ASSUME NEW u \in Updates, NEW p \in Paths \ {Here}, p[1].name \notin Touched(u.actions)
    PROVE  Untouched(p, u.actions)
<1> DEFINE as == u.actions
<1>1. Len(as) \in Nat /\ \A i \in 1..Len(as) : IsAction(as[i])
  BY ParsedActions
<1> HIDE DEF as
<1>2. \A i \in 1..Len(as) : p[1].name # as[i].path[1].name
  BY DEF Touched, as
<1>3. ASSUME NEW q \in Named(as)
      PROVE  q \in Paths \ {Here} /\ ~q[1].isIdx /\ p[1] # q[1]
  <2>1. PICK i \in 1..Len(as) : q = as[i].path
    BY DEF Named
  <2> QED BY <1>1, <1>2, <2>1 DEF IsAction, AttributePaths, Here
<1>4. ASSUME NEW q \in Named(as), pathsOverlap(q, p) PROVE FALSE
  BY <1>3, <1>4, FirstSteps
<1>5. ASSUME NEW r \in Leaving(as), Follows(p, r) PROVE FALSE
  <2>1. r \in Named(as)
    BY PathsOfNamed
  <2>2. r \in Paths /\ r # Here /\ ~r[1].isIdx /\ p[1] # r[1]
    BY <1>3, <2>1
  <2>3. Len(p) >= Len(r) /\ Prefix(p, Len(r) - 1) = Front(r) /\ p[Len(r)].isIdx /\ Last(r).isIdx
    BY <1>5 DEF Follows, Leaving
  <2>4. /\ Len(r) \in Nat \ {0} /\ \A i \in 1..(Len(r) - 1) : Front(r)[i] = r[i]
    BY <2>2, FrontFacts
  <2>5. Len(r) # 1
    BY <2>2, <2>3 DEF Last
  <2>6. 1 \in 1..(Len(r) - 1) /\ Len(r) - 1 \in 0..Len(p)
    <3>1. Len(p) \in Nat
      BY PathFacts
    <3>2. Len(r) \in Nat /\ Len(r) # 0 /\ Len(r) # 1 /\ Len(p) >= Len(r)
      BY <2>3, <2>4, <2>5
    <3>3. PICK n \in Nat : n = Len(r)
      BY <3>2
    <3>4. 1 \in 1..(n - 1) /\ n - 1 \in 0..Len(p)
      BY <3>1, <3>2, <3>3
    <3> QED BY <3>3, <3>4
  <2>7. Prefix(p, Len(r) - 1)[1] = p[1]
    BY <2>6, PrefixFacts
  <2> QED BY <2>2, <2>3, <2>4, <2>6, <2>7
<1>6. Untouched(p, as)
  BY <1>4, <1>5 DEF Untouched, Moves
<1> QED BY <1>6 DEF as

(* Paths into the key begin with its names.                                *)
LEMMA InKey ==
    ASSUME NEW p \in DOMAIN KeyAttributes \ {Here}
    PROVE  p[1].name \in KeyNames
<1>1. IsTree(DOMAIN KeyAttributes) /\ p \in Paths /\ p # Here
  BY KeyGround DEF Ground, IsTree
<1>2. 1 \in 0..Len(p) /\ 1 \in 1..Len(p)
  BY <1>1, PathFacts
<1>3. PICK q : q = Prefix(p, 1)
  OBVIOUS
<1>4. q \in Paths /\ Len(q) = 1 /\ q[1] = p[1] /\ IsPrefix(q, p)
  <2>1. /\ Prefix(p, 1) \in Paths /\ Len(Prefix(p, 1)) = 1
        /\ \A i \in 1..1 : Prefix(p, 1)[i] = p[i]
    BY <1>1, <1>2, PrefixFacts
  <2>2. IsPrefix(Prefix(p, 1), p)
    BY <1>1, <1>2, PrefixLeads
  <2> QED BY <1>3, <2>1, <2>2
<1>5. q \in DOMAIN KeyAttributes
  BY <1>1, <1>4, LeadsInto
<1>6. Len(Here) = 0 /\ IsPrefix(Here, q)
  BY <1>4, HereLeads, PathFacts
<1>7. q[Len(q)] \in Elements(KeyAttributes, Here)
  <2>1. Len(q) = Len(Here) + 1
    BY <1>4, <1>6
  <2>2. q \in {r \in DOMAIN KeyAttributes : Len(r) = Len(Here) + 1 /\ IsPrefix(Here, r)}
    BY <1>5, <1>6, <2>1
  <2> QED BY <2>2, Zenon DEF Elements
<1> QED BY <1>4, <1>7 DEF KeyNames, Names

(* ChangeReported, of one step.                                            *)
Reported ==
    reply'.outcome = "ok" /\ Independent(reply'.request.actions) =>
        \A p \in (DOMAIN Base \union DOMAIN item') \ {Here} :
            Agree(p, Base, item') \/ (Agree(p, Base, reply'.old) /\ Agree(p, item', reply'.new))

LEMMA PickedAgree ==
    ASSUME NEW at, NEW names, NEW p, p # Here, p[1].name \in names
    PROVE  Agree(p, at, pickUpdated(at, names))
BY DEF Agree, pickUpdated

LEMMA Reports == Stored /\ [Next]_vars => [Reported]_vars
<1> SUFFICES ASSUME Stored, [Next]_vars PROVE [Reported]_vars
  OBVIOUS
<1>1. CASE UNCHANGED vars
  BY <1>1
<1>2. ASSUME NEW u \in Updates, Refuse(u) \/ FailCondition(u) \/ FailUpdate(u) PROVE Reported
  BY <1>2, Otherwise DEF Reported
<1>3. ASSUME NEW u \in Updates, Update(u) PROVE Reported
  <2> DEFINE as == u.actions
             names == Touched(as)
  <2>1. /\ reply'.request.actions = as /\ reply'.outcome = "ok"
        /\ reply'.old = pickUpdated(Current, names) /\ reply'.new = pickUpdated(item', names)
    BY <1>3 DEF Update
  <2>2. DOMAIN Base \subseteq Paths /\ DOMAIN item' \subseteq Paths
    BY <1>3, BaseTree, Updated DEF Ground, IsTree
  <2>3. ASSUME NEW p \in Paths \ {Here}, p[1].name \in names
        PROVE  Agree(p, Base, reply'.old) /\ Agree(p, item', reply'.new)
    <3>1. Agree(p, item', reply'.new)
      BY <2>1, <2>3, PickedAgree
    <3>2. Agree(p, Current, reply'.old)
      BY <2>1, <2>3, PickedAgree
    <3>3. CASE item # NoItem
      BY <3>1, <3>2, <3>3 DEF Base, Current
    <3>4. CASE item = NoItem
      <4>1. PICK i \in 1..Len(as) : p[1].name = as[i].path[1].name
        BY <2>3 DEF Touched
      <4>2. p[1].name \notin KeyNames
        BY <1>3, <4>1 DEF Update, Malformed
      <4>3. p \notin DOMAIN Base
        BY <2>3, <3>4, <4>2, InKey DEF Base
      <4>4. p \notin DOMAIN Current
        BY <3>4 DEF Current, Nothing
      <4> QED BY <3>1, <3>2, <4>3, <4>4 DEF Agree
    <3> QED BY <3>3, <3>4
  <2>4. ASSUME Independent(as), NEW p \in Paths \ {Here}, p[1].name \notin names
        PROVE  Agree(p, Base, item')
    <3>1. Untouched(p, as)
      BY <2>4, OtherAttributes
    <3> QED BY <1>3, <2>4, <3>1, Updated
  <2> HIDE DEF as, names
  <2> QED BY <2>1, <2>2, <2>3, <2>4 DEF Reported
<1> QED BY <1>1, <1>2, <1>3 DEF Next

(* UPDATED_OLD and UPDATED_NEW tell all that an update changed: whatever   *)
(* its actions share, no attribute they do not name is another after it    *)
(* (applyUpdate's updated, pickUpdated).                                   *)
THEOREM ChangeReportedHolds == Spec => ChangeReported
<1>1. ChangeReported <=> [][Reported]_vars
  BY PTL DEF ChangeReported, Reported
<1> QED BY <1>1, InitStored, StoredStays, Reports, PTL DEF Spec

-----------------------------------------------------------------------------
(* Steps into a value                                                      *)

(* What is in the container at p has its kind, and follows what precedes it. *)
Shaped(at, p) ==
    \A e \in Steps : Slot(p, e) \in DOMAIN at =>
        /\ at[p].type = IF e.isIdx THEN "L" ELSE "M"
        /\ e.isIdx /\ e.index > 0 => Slot(p, Index(e.index - 1)) \in DOMAIN at

LEMMA SlotFacts ==
    ASSUME NEW p \in Paths, NEW e \in Steps
    PROVE  /\ Slot(p, e) \in Paths /\ Slot(p, e) # Here
           /\ Len(Slot(p, e)) = Len(p) + 1
           /\ Front(Slot(p, e)) = p /\ Last(Slot(p, e)) = e
           /\ \A i \in 1..Len(p) : Slot(p, e)[i] = p[i]
           /\ Slot(p, e)[Len(p) + 1] = e
<1>1. PICK s : s = Append(p, e)
  OBVIOUS
<1>2. s \in Paths /\ Len(s) = Len(p) + 1 /\ Len(p) \in Nat
  BY <1>1, StepFacts, PathFacts
<1>3. s # Here
  BY <1>2, PathFacts
<1>4. Front(s) = p /\ Last(s) = e
  BY <1>1, FrontOfStep
<1>5. (\A i \in 1..Len(p) : s[i] = p[i]) /\ s[Len(p) + 1] = e
  BY <1>1, StepFacts
<1> QED BY <1>1, <1>2, <1>3, <1>4, <1>5 DEF Slot

LEMMA IndexIs == \A n : Index(n).index = n /\ Index(n).isIdx
BY DEF Index

LEMMA ValueShaped ==
    ASSUME NEW value, IsValue(value), NEW p \in Paths
    PROVE  Shaped(value, p)
<1> SUFFICES ASSUME NEW e \in Steps, Slot(p, e) \in DOMAIN value
             PROVE  /\ value[p].type = IF e.isIdx THEN "L" ELSE "M"
                    /\ e.isIdx /\ e.index > 0 => Slot(p, Index(e.index - 1)) \in DOMAIN value
  BY DEF Shaped
<1>1. PICK r : r = Slot(p, e)
  OBVIOUS
<1>2. r \in DOMAIN value /\ r # Here /\ Front(r) = p /\ Last(r) = e
  BY <1>1, SlotFacts
<1>3. /\ value[Front(r)].type = IF Last(r).isIdx THEN "L" ELSE "M"
      /\ Last(r).isIdx /\ Last(r).index > 0
           => Append(Front(r), Index(Last(r).index - 1)) \in DOMAIN value
  BY <1>2 DEF IsValue
<1> QED BY <1>2, <1>3 DEF Slot

-----------------------------------------------------------------------------
(* What a projection shows                                                 *)

(* How many elements below n of the list at x are in K.                    *)
Lower(K, x, n) == {m \in 0..(n - 1) : Slot(x, Index(m)) \in K}
Rank(K, x, n) == Cardinality(Lower(K, x, n))

(* Where q is when K is all there is.                                      *)
Ranked(K, q) ==
    [i \in 1..Len(q) |->
        IF q[i].isIdx THEN Index(Rank(K, Prefix(q, i - 1), q[i].index)) ELSE q[i]]

(* out has what of at is in K.                                             *)
Shows(out, at, K) ==
    /\ out = [p \in {Ranked(K, q) : q \in K} |-> out[p]]
    /\ \A q \in K : out[Ranked(K, q)] = at[q]

Rooting(K) == K \subseteq Paths /\ Here \in K /\ \A q \in K : \A x \in Paths : IsPrefix(x, q) => x \in K

LEMMA PrefixStep ==
    ASSUME NEW q \in Paths, NEW i \in 1..Len(q)
    PROVE  /\ Prefix(q, i - 1) \in Paths /\ Len(Prefix(q, i - 1)) = i - 1
           /\ IsPrefix(Prefix(q, i - 1), q)
           /\ q[i] \in Steps
           /\ IsPrefix(Slot(Prefix(q, i - 1), q[i]), q)
<1>1. Len(q) \in Nat /\ i - 1 \in 0..Len(q) /\ q[i] \in Steps
  BY PathFacts
<1>2. PICK x : x = Prefix(q, i - 1)
  OBVIOUS
<1>3. x \in Paths /\ Len(x) = i - 1 /\ IsPrefix(x, q)
  BY <1>1, <1>2, PrefixFacts, PrefixLeads
<1>4. Len(x) < Len(q) /\ q[Len(x) + 1] = q[i]
  BY <1>1, <1>3
<1>5. IsPrefix(Append(x, q[i]), q)
  BY <1>1, <1>3, <1>4, StepLeads
<1> QED BY <1>1, <1>2, <1>3, <1>5 DEF Slot

LEMMA LowerFacts ==
    ASSUME NEW K, NEW x, NEW n \in Nat
    PROVE  IsFiniteSet(Lower(K, x, n)) /\ Rank(K, x, n) \in Nat /\ Lower(K, x, n) \subseteq Nat
<1>1. IsFiniteSet(0..(n - 1))
  BY FS_Interval
<1>2. Lower(K, x, n) \in SUBSET (0..(n - 1))
  BY DEF Lower
<1>3. IsFiniteSet(Lower(K, x, n))
  BY <1>1, <1>2, FS_Subset
<1> QED BY <1>2, <1>3, FS_CardinalityType DEF Rank

LEMMA RankRises ==
    ASSUME NEW K, NEW x, NEW n \in Nat, NEW m \in Nat, m < n, Slot(x, Index(m)) \in K
    PROVE  Rank(K, x, m) # Rank(K, x, n)
<1>1. PICK A, B : A = Lower(K, x, m) /\ B = Lower(K, x, n)
  OBVIOUS
<1>2. IsFiniteSet(A) /\ IsFiniteSet(B)
  BY <1>1, LowerFacts
<1>3. A \in SUBSET B /\ m \in B /\ m \notin A
  BY <1>1 DEF Lower
<1>4. Cardinality(A) # Cardinality(B)
  BY <1>2, <1>3, FS_Subset
<1> QED BY <1>1, <1>4 DEF Rank

LEMMA RankedFacts ==
    ASSUME NEW K, NEW q \in Paths
    PROVE  /\ Ranked(K, q) \in Paths /\ Len(Ranked(K, q)) = Len(q)
           /\ \A i \in 1..Len(q) :
                /\ ~q[i].isIdx => Ranked(K, q)[i] = q[i]
                /\ q[i].isIdx => Ranked(K, q)[i] = Index(Rank(K, Prefix(q, i - 1), q[i].index))
<1>1. PICK n \in Nat : n = Len(q)
  BY PathFacts
<1>2. PICK r : r = Ranked(K, q)
  OBVIOUS
<1>3. /\ r = [i \in 1..n |-> r[i]]
      /\ \A i \in 1..n : r[i] = IF q[i].isIdx THEN Index(Rank(K, Prefix(q, i - 1), q[i].index)) ELSE q[i]
  BY <1>1, <1>2 DEF Ranked
<1>4. ASSUME NEW i \in 1..n PROVE r[i] \in Steps
  <2>1. q[i] \in Steps /\ q[i].index \in Nat
    BY <1>1, PathFacts, StepIndex
  <2>2. Index(Rank(K, Prefix(q, i - 1), q[i].index)) \in Steps
    BY <2>1, LowerFacts, IndexStep
  <2> QED BY <1>3, <2>1, <2>2
<1>5. r \in Seq(Steps) /\ Len(r) = n
  <2>1. r \in [1..n -> Steps]
    BY <1>3, <1>4
  <2> QED BY <2>1
<1> QED BY <1>1, <1>2, <1>3, <1>5 DEF Paths

(* No two go to one place.                                                 *)
LEMMA RankedOnce ==
    ASSUME NEW K, Rooting(K), NEW q \in K, NEW r \in K, Ranked(K, q) = Ranked(K, r)
    PROVE  q = r
<1> SUFFICES ASSUME q # r PROVE FALSE
  OBVIOUS
<1>1. q \in Paths /\ r \in Paths
  BY DEF Rooting
<1>2. PICK n \in Nat : n = Len(q)
  BY <1>1, PathFacts
<1>3. Len(r) = n
  BY <1>1, <1>2, RankedFacts
<1> DEFINE off == {i \in 1..n : q[i] # r[i]}
<1>4. PICK m \in off : \A j \in off : m <= j
  <2>1. off # {}
    BY <1>1, <1>2, <1>3, SamePath
  <2>2. off \in SUBSET Nat
    OBVIOUS
  <2> HIDE DEF off
  <2> QED BY <2>1, <2>2, Least
<1>5. m \in 1..n /\ q[m] # r[m] /\ \A j \in 1..(m - 1) : q[j] = r[j]
  BY <1>2, <1>4
<1> HIDE DEF off
<1>6. PICK x : x = Prefix(q, m - 1)
  OBVIOUS
<1>7. x \in Paths /\ x = Prefix(r, m - 1)
  <2>1. m - 1 \in 0..Len(q) /\ m - 1 \in 0..Len(r)
    BY <1>2, <1>3, <1>5
  <2>2. /\ Prefix(q, m - 1) \in Paths /\ Len(Prefix(q, m - 1)) = m - 1
        /\ \A j \in 1..(m - 1) : Prefix(q, m - 1)[j] = q[j]
    BY <1>1, <2>1, PrefixFacts
  <2>3. /\ Prefix(r, m - 1) \in Paths /\ Len(Prefix(r, m - 1)) = m - 1
        /\ \A j \in 1..(m - 1) : Prefix(r, m - 1)[j] = r[j]
    BY <1>1, <2>1, PrefixFacts
  <2>4. Prefix(q, m - 1) = Prefix(r, m - 1)
    BY <1>5, <2>2, <2>3, SamePath
  <2> QED BY <1>6, <2>2, <2>4
<1>8. PICK u \in Steps, v \in Steps : u = q[m] /\ v = r[m] /\ u # v
  BY <1>1, <1>2, <1>3, <1>5, PathFacts
<1>9. Slot(x, u) \in K /\ Slot(x, v) \in K
  <2>1. IsPrefix(Slot(x, u), q) /\ IsPrefix(Slot(x, v), r)
    BY <1>1, <1>2, <1>3, <1>5, <1>6, <1>7, <1>8, PrefixStep
  <2>2. Slot(x, u) \in Paths /\ Slot(x, v) \in Paths
    BY <1>7, <1>8, SlotFacts
  <2> QED BY <2>1, <2>2 DEF Rooting
<1>10. /\ Ranked(K, q)[m] = IF u.isIdx THEN Index(Rank(K, x, u.index)) ELSE u
       /\ Ranked(K, r)[m] = IF v.isIdx THEN Index(Rank(K, x, v.index)) ELSE v
  BY <1>1, <1>2, <1>3, <1>5, <1>6, <1>7, <1>8, RankedFacts
<1>11. (IF u.isIdx THEN Index(Rank(K, x, u.index)) ELSE u) = (IF v.isIdx THEN Index(Rank(K, x, v.index)) ELSE v)
  BY <1>10
<1>12. u.isIdx /\ v.isIdx
  BY <1>8, <1>11, IndexIs
<1>13. u = Index(u.index) /\ v = Index(v.index) /\ u.index \in Nat /\ v.index \in Nat
  BY <1>8, <1>12, IndexesAre, StepIndex
<1>14. Rank(K, x, u.index) = Rank(K, x, v.index)
  BY <1>11, <1>12, IndexIs
<1>15. Slot(x, Index(u.index)) \in K /\ Slot(x, Index(v.index)) \in K
  BY <1>9, <1>13
<1>16. u.index < v.index \/ v.index < u.index
  BY <1>8, <1>13
<1> QED BY <1>13, <1>14, <1>15, <1>16, RankRises

LEMMA ShowsOnce ==
    ASSUME NEW a, NEW b, NEW at, NEW K, Shows(a, at, K), Shows(b, at, K)
    PROVE  a = b
<1>1. PICK D : D = {Ranked(K, q) : q \in K}
  OBVIOUS
<1>2. a = [p \in D |-> a[p]] /\ b = [p \in D |-> b[p]]
  BY <1>1 DEF Shows
<1>3. ASSUME NEW p \in D PROVE a[p] = b[p]
  <2>1. PICK q \in K : p = Ranked(K, q)
    BY <1>1
  <2> QED BY <2>1 DEF Shows
<1> QED BY <1>2, <1>3

-----------------------------------------------------------------------------
(* What paths lead to and through                                          *)

Led(at, F) == {q \in DOMAIN at : q = Here \/ \E p \in F : IsPrefix(p, q) \/ IsPrefix(q, p)}
Trail(at, P) == {q \in DOMAIN at : IsPrefix(P, q) \/ IsPrefix(q, P)}

(* Lists have no gaps.                                                     *)
LEMMA Downward ==
    ASSUME NEW at, IsValue(at), NEW x \in Paths, NEW n \in Nat, Slot(x, Index(n)) \in DOMAIN at,
           NEW m \in 0..n
    PROVE  Slot(x, Index(m)) \in DOMAIN at
<1> DEFINE off == {k \in 0..n : Slot(x, Index(n - k)) \notin DOMAIN at}
<1> SUFFICES ASSUME Slot(x, Index(m)) \notin DOMAIN at PROVE FALSE
  OBVIOUS
<1>1. PICK k \in off : \A j \in off : k <= j
  <2>1. off # {}
    <3>1. n - m \in 0..n /\ n - (n - m) = m
      OBVIOUS
    <3> QED BY <3>1
  <2>2. off \in SUBSET Nat
    OBVIOUS
  <2> HIDE DEF off
  <2> QED BY <2>1, <2>2, Least
<1>2. k \in 0..n /\ Slot(x, Index(n - k)) \notin DOMAIN at
  OBVIOUS
<1>3. k # 0
  BY <1>2
<1>4. k - 1 \in 0..n /\ k - 1 \notin off
  BY <1>1, <1>2, <1>3
<1>5. PICK e \in Nat : e = n - (k - 1)
  BY <1>4
<1>6. Slot(x, Index(e)) \in DOMAIN at
  BY <1>4, <1>5
<1>7. Index(e) \in Steps /\ Index(e).isIdx /\ Index(e).index = e /\ e > 0
  BY <1>2, <1>5, IndexStep, IndexIs
<1>8. Slot(x, Index(e - 1)) \in DOMAIN at
  BY <1>6, <1>7, ValueShaped DEF Shaped
<1>9. e - 1 = n - k
  BY <1>5, <1>2
<1> QED BY <1>2, <1>8, <1>9

LEMMA TreeStep ==
    ASSUME NEW at, IsValue(at), NEW q \in DOMAIN at, NEW i \in 1..Len(q)
    PROVE  /\ q \in Paths /\ Prefix(q, i - 1) \in DOMAIN at
           /\ Slot(Prefix(q, i - 1), q[i]) \in DOMAIN at
           /\ at[Prefix(q, i - 1)].type = IF q[i].isIdx THEN "L" ELSE "M"
<1>1. q \in Paths /\ IsTree(DOMAIN at)
  BY DEF IsValue, IsTree
<1>2. PICK x : x = Prefix(q, i - 1)
  OBVIOUS
<1>3. x \in Paths /\ IsPrefix(x, q) /\ q[i] \in Steps /\ IsPrefix(Slot(x, q[i]), q)
  BY <1>1, <1>2, PrefixStep
<1>4. Slot(x, q[i]) \in Paths
  BY <1>3, SlotFacts
<1>5. x \in DOMAIN at /\ Slot(x, q[i]) \in DOMAIN at
  BY <1>1, <1>3, <1>4, LeadsInto
<1>6. at[x].type = IF q[i].isIdx THEN "L" ELSE "M"
  BY <1>3, <1>5, ValueShaped DEF Shaped
<1> QED BY <1>1, <1>2, <1>5, <1>6

LEMMA LedRooting ==
    ASSUME NEW at, IsValue(at), NEW F, F \subseteq Paths
    PROVE  Rooting(Led(at, F)) /\ Led(at, F) \subseteq DOMAIN at
<1>1. IsTree(DOMAIN at) /\ Here \in DOMAIN at /\ DOMAIN at \subseteq Paths
  BY DEF IsValue, IsTree
<1>2. Here \in Led(at, F) /\ Led(at, F) \subseteq DOMAIN at
  BY <1>1 DEF Led
<1>3. ASSUME NEW q \in Led(at, F), NEW x \in Paths, IsPrefix(x, q) PROVE x \in Led(at, F)
  <2>1. q \in DOMAIN at /\ q \in Paths
    BY <1>1 DEF Led
  <2>2. x \in DOMAIN at
    BY <1>1, <1>3, <2>1, LeadsInto
  <2>3. CASE q = Here
    <3>1. Len(x) = 0
      BY <1>1, <1>3, <2>1, <2>3, LeadsPointwise, PathFacts
    <3>2. x = Here
      BY <3>1, PathFacts
    <3> QED BY <1>2, <3>2
  <2>4. CASE q # Here
    <3>1. PICK p \in F : IsPrefix(p, q) \/ IsPrefix(q, p)
      BY <2>4 DEF Led
    <3>2. p \in Paths
      OBVIOUS
    <3>3. IsPrefix(p, x) \/ IsPrefix(x, p)
      <4>1. CASE IsPrefix(q, p)
        BY <1>3, <2>1, <3>2, <4>1, LeadsOn
      <4>2. CASE IsPrefix(p, q)
        <5>1. Len(p) \in Nat /\ Len(x) \in Nat
          BY <3>2, PathFacts
        <5>2. Len(p) <= Len(x) \/ Len(x) <= Len(p)
          BY <5>1
        <5> QED BY <1>3, <2>1, <3>2, <4>2, <5>2, BothLead
      <4> QED BY <3>1, <4>1, <4>2
    <3> QED BY <2>2, <3>3 DEF Led
  <2> QED BY <2>3, <2>4
<1> QED BY <1>1, <1>2, <1>3 DEF Rooting

LEMMA TrailLed ==
    ASSUME NEW at, IsValue(at), NEW P \in Paths
    PROVE  Trail(at, P) = Led(at, {P}) /\ Rooting(Trail(at, P)) /\ Trail(at, P) \subseteq DOMAIN at
<1>1. Trail(at, P) = Led(at, {P})
  BY HereLeads DEF Trail, Led
<1>2. Rooting(Led(at, {P})) /\ Led(at, {P}) \subseteq DOMAIN at
  BY LedRooting
<1> QED BY <1>1, <1>2

LEMMA TrailAgrees ==
    ASSUME NEW at, IsValue(at), NEW P \in Paths, NEW q \in Trail(at, P)
    PROVE  /\ q \in Paths
           /\ \A i \in 1..Len(q) : i <= Len(P) => q[i] = P[i]
           /\ Len(q) <= Len(P) => q = Prefix(P, Len(q)) /\ Len(q) \in 0..Len(P)
           /\ Len(P) <= Len(q) => IsPrefix(P, q)
<1>1. q \in Paths /\ (IsPrefix(P, q) \/ IsPrefix(q, P))
  BY DEF Trail, IsValue, IsTree
<1>2. Len(q) \in Nat /\ Len(P) \in Nat
  BY <1>1, PathFacts
<1>3. /\ IsPrefix(P, q) <=> Len(P) <= Len(q) /\ \A i \in 1..Len(P) : q[i] = P[i]
      /\ IsPrefix(q, P) <=> Len(q) <= Len(P) /\ \A i \in 1..Len(q) : P[i] = q[i]
  BY <1>1, LeadsPointwise
<1>4. \A i \in 1..Len(q) : i <= Len(P) => q[i] = P[i]
  BY <1>1, <1>2, <1>3
<1>5. Len(q) <= Len(P) => IsPrefix(q, P)
  BY <1>2, <1>3, <1>4
<1>6. Len(P) <= Len(q) => IsPrefix(P, q)
  BY <1>2, <1>3, <1>4
<1> QED BY <1>1, <1>4, <1>5, <1>6, LeadsAs

(* A path alone: its lists have one element each, and what it leads to is  *)
(* as it was.                                                              *)
LEMMA TrailRanks ==
    ASSUME NEW at, IsValue(at), NEW P \in Paths, NEW q \in Trail(at, P), NEW i \in 1..Len(q), q[i].isIdx
    PROVE  Rank(Trail(at, P), Prefix(q, i - 1), q[i].index) = IF i <= Len(P) THEN 0 ELSE q[i].index
<1>1. q \in Paths /\ q \in DOMAIN at /\ Len(P) \in Nat /\ Len(q) \in Nat
  BY TrailAgrees, PathFacts DEF Trail
<1>2. PICK x : x = Prefix(q, i - 1)
  OBVIOUS
<1>3. PICK k \in Nat : k = q[i].index /\ q[i] = Index(k) /\ q[i] \in Steps
  BY <1>1, PathFacts, StepIndex, IndexesAre
<1>4. x \in Paths /\ Len(x) = i - 1 /\ IsPrefix(x, q)
  BY <1>1, <1>2, PrefixStep
<1>5. CASE i <= Len(P)
  <2>1. q[i] = P[i]
    BY <1>5, TrailAgrees
  <2>2. ASSUME NEW m \in 0..(k - 1), Slot(x, Index(m)) \in Trail(at, P) PROVE FALSE
    <3>1. PICK s : s = Slot(x, Index(m))
      OBVIOUS
    <3>2. m \in Nat /\ Index(m) \in Steps
      BY <1>3, IndexStep
    <3>3. Len(s) = i /\ s[i] = Index(m)
      <4>1. Len(s) = Len(x) + 1 /\ s[Len(x) + 1] = Index(m)
        BY <1>4, <3>1, <3>2, SlotFacts
      <4>2. Len(x) + 1 = i
        BY <1>4
      <4> QED BY <4>1, <4>2
    <3>4. i \in 1..Len(s)
      BY <3>3
    <3>5. s[i] = P[i]
      BY <1>5, <2>2, <3>1, <3>4, TrailAgrees
    <3>6. Index(m) = Index(k)
      BY <1>3, <2>1, <3>3, <3>5
    <3>7. m = k
      BY <3>6, IndexIs
    <3> QED BY <3>7
  <2>3. Lower(Trail(at, P), x, k) = {}
    BY <2>2 DEF Lower
  <2> QED BY <1>2, <1>3, <1>5, <2>3, FS_EmptySet DEF Rank
<1>6. CASE ~(i <= Len(P))
  <2>1. IsPrefix(P, x)
    <3>1. IsPrefix(P, q)
      BY <1>1, <1>6, TrailAgrees
    <3>2. Len(P) <= Len(x)
      BY <1>1, <1>4, <1>6
    <3> QED BY <1>1, <1>4, <3>1, <3>2, BothLead
  <2>2. Slot(x, Index(k)) \in DOMAIN at
    BY <1>1, <1>2, <1>3, TreeStep
  <2>3. ASSUME NEW m \in 0..(k - 1) PROVE Slot(x, Index(m)) \in Trail(at, P)
    <3>1. m \in 0..k /\ m \in Nat
      BY <1>3
    <3>2. Slot(x, Index(m)) \in DOMAIN at
      BY <1>3, <1>4, <2>2, <3>1, Downward
    <3>3. Index(m) \in Steps
      BY <3>1, IndexStep
    <3>4. PICK s : s = Slot(x, Index(m))
      OBVIOUS
    <3>5. s \in Paths /\ IsPrefix(s, s)
      BY <1>4, <3>3, <3>4, SlotFacts, LeadsToItself
    <3>6. IsPrefix(x, s)
      BY <1>4, <3>3, <3>4, <3>5, StepLeads DEF Slot
    <3>7. IsPrefix(P, s)
      BY <1>4, <2>1, <3>5, <3>6, LeadsOn
    <3> QED BY <3>2, <3>4, <3>7 DEF Trail
  <2>4. Lower(Trail(at, P), x, k) = 0..(k - 1)
    BY <2>3 DEF Lower
  <2>5. Cardinality(0..(k - 1)) = k
    <3>1. 0 \in Int /\ k - 1 \in Int
      BY <1>3
    <3>2. Cardinality(0..(k - 1)) = IF 0 > k - 1 THEN 0 ELSE k - 1 - 0 + 1
      BY <3>1, FS_Interval
    <3> QED BY <1>3, <3>2
  <2> QED BY <1>2, <1>3, <1>6, <2>4, <2>5 DEF Rank
<1> QED BY <1>5, <1>6

-----------------------------------------------------------------------------
(* One path, wrapped                                                       *)

Wrapped(P) == [i \in 1..Len(P) |-> IF P[i].isIdx THEN Index(0) ELSE P[i]]
Above(P) == {Prefix(Wrapped(P), n) : n \in 0..(Len(P) - 1)}
PastOf(P, p) == SubSeq(p, Len(P) + 1, Len(p))
Bare(list) == [type |-> IF list THEN "L" ELSE "M"]

WrapGives(w, v, P) ==
    /\ DOMAIN w = Above(P) \union {Join(Wrapped(P), t) : t \in DOMAIN v}
    /\ w = [p \in DOMAIN w |-> w[p]]
    /\ \A p \in DOMAIN w :
          w[p] = IF p \notin Above(P) THEN v[PastOf(P, p)] ELSE Bare(P[Len(p) + 1].isIdx)

LEMMA WrapIs ==
    ASSUME NEW at, NEW P
    PROVE  WrapGives(wrapPath(at, P), At(at, P), P)
BY DEF wrapPath, WrapGives, Above, Wrapped, Prefix, Join, PastOf, Bare

LEMMA WrappedFacts ==
    ASSUME NEW P \in Paths
    PROVE  /\ Wrapped(P) \in Paths /\ Len(Wrapped(P)) = Len(P)
           /\ \A i \in 1..Len(P) : Wrapped(P)[i] = IF P[i].isIdx THEN Index(0) ELSE P[i]
<1>1. PICK n \in Nat : n = Len(P)
  BY PathFacts
<1>2. PICK r : r = Wrapped(P)
  OBVIOUS
<1>3. r = [i \in 1..n |-> r[i]] /\ \A i \in 1..n : r[i] = IF P[i].isIdx THEN Index(0) ELSE P[i]
  BY <1>1, <1>2 DEF Wrapped
<1>4. ASSUME NEW i \in 1..n PROVE r[i] \in Steps
  BY <1>1, <1>3, PathFacts, IndexStep
<1>5. r \in Seq(Steps) /\ Len(r) = n
  <2>1. r \in [1..n -> Steps]
    BY <1>3, <1>4
  <2> QED BY <2>1
<1> QED BY <1>1, <1>2, <1>3, <1>5 DEF Paths

LEMMA BareNodes == \A node \in Node : node.type \in {"L", "M"} => node = Bare(node.type = "L")
<1> SUFFICES ASSUME NEW node \in Node, node.type \in {"L", "M"} PROVE node = Bare(node.type = "L")
  OBVIOUS
<1>1. node \in [type : {"NULL", "L", "M"}]
  BY DEF Node
<1>2. node = [type |-> node.type]
  BY <1>1
<1> QED BY <1>2 DEF Bare

(* Where the nodes of a path go when it is wrapped.                        *)
LEMMA TrailGoes ==
    ASSUME NEW at, IsValue(at), NEW P \in Paths, NEW q \in Trail(at, P), NEW p, p = Ranked(Trail(at, P), q)
    PROVE  /\ p \in Paths /\ Len(p) = Len(q) /\ q \in Paths
           /\ \A i \in 1..Len(q) : p[i] = IF i <= Len(P) /\ q[i].isIdx THEN Index(0) ELSE q[i]
<1>1. q \in Paths
  BY TrailAgrees
<1>2. /\ p \in Paths /\ Len(p) = Len(q)
      /\ \A i \in 1..Len(q) :
            /\ ~q[i].isIdx => p[i] = q[i]
            /\ q[i].isIdx => p[i] = Index(Rank(Trail(at, P), Prefix(q, i - 1), q[i].index))
  BY <1>1, RankedFacts
<1>3. ASSUME NEW i \in 1..Len(q) PROVE p[i] = IF i <= Len(P) /\ q[i].isIdx THEN Index(0) ELSE q[i]
  <2>1. CASE ~q[i].isIdx
    BY <1>2, <2>1
  <2>2. CASE q[i].isIdx
    <3>1. Rank(Trail(at, P), Prefix(q, i - 1), q[i].index) = IF i <= Len(P) THEN 0 ELSE q[i].index
      BY <2>2, TrailRanks
    <3>2. q[i] = Index(q[i].index)
      BY <1>1, <2>2, PathFacts, IndexesAre
    <3> QED BY <1>2, <2>2, <3>1, <3>2
  <2> QED BY <2>1, <2>2
<1> QED BY <1>1, <1>2, <1>3

LEMMA TrailAbove ==
    ASSUME NEW at, IsValue(at), NEW P \in DOMAIN at, NEW q \in Trail(at, P), Len(q) < Len(P)
    PROVE  Ranked(Trail(at, P), q) = Prefix(Wrapped(P), Len(q)) /\ at[q] = Bare(P[Len(q) + 1].isIdx)
<1>1. P \in Paths /\ q \in Paths /\ q \in DOMAIN at
  BY TrailAgrees DEF IsValue, IsTree, Trail
<1>2. Len(q) \in Nat /\ Len(P) \in Nat /\ Len(q) \in 0..Len(P)
  BY <1>1, PathFacts
<1>3. PICK p : p = Ranked(Trail(at, P), q)
  OBVIOUS
<1>4. /\ p \in Paths /\ Len(p) = Len(q)
      /\ \A i \in 1..Len(q) : p[i] = IF i <= Len(P) /\ q[i].isIdx THEN Index(0) ELSE q[i]
  BY <1>1, <1>3, TrailGoes
<1>5. PICK w : w = Wrapped(P)
  OBVIOUS
<1>6. w \in Paths /\ Len(w) = Len(P) /\ \A i \in 1..Len(P) : w[i] = IF P[i].isIdx THEN Index(0) ELSE P[i]
  BY <1>1, <1>5, WrappedFacts
<1>7. PICK r : r = Prefix(w, Len(q))
  OBVIOUS
<1>8. r \in Paths /\ Len(r) = Len(q) /\ \A i \in 1..Len(q) : r[i] = w[i]
  BY <1>2, <1>6, <1>7, PrefixFacts
<1>9. ASSUME NEW i \in 1..Len(q) PROVE p[i] = r[i]
  <2>1. q[i] = P[i] /\ i <= Len(P)
    BY <1>1, <1>2, TrailAgrees
  <2> QED BY <1>2, <1>4, <1>6, <1>8, <2>1
<1>10. p = r
  BY <1>4, <1>8, <1>9, SamePath
<1>11. at[q] = Bare(P[Len(q) + 1].isIdx)
  <2>1. Len(q) + 1 \in 1..Len(P) /\ Len(q) + 1 - 1 = Len(q)
    BY <1>2
  <2>2. at[Prefix(P, Len(q))].type = IF P[Len(q) + 1].isIdx THEN "L" ELSE "M"
    BY <2>1, TreeStep
  <2>3. q = Prefix(P, Len(q))
    BY <1>1, <1>2, TrailAgrees
  <2>4. PICK node \in Node : node = at[q]
    BY <1>1 DEF IsValue
  <2>5. node.type = IF P[Len(q) + 1].isIdx THEN "L" ELSE "M"
    BY <2>2, <2>3, <2>4
  <2>6. node = Bare(node.type = "L")
    BY <2>5, BareNodes
  <2>7. Bare(node.type = "L") = Bare(P[Len(q) + 1].isIdx)
    BY <2>5 DEF Bare
  <2> QED BY <2>4, <2>6, <2>7
<1> QED BY <1>3, <1>5, <1>7, <1>10, <1>11

LEMMA TrailPast ==
    ASSUME NEW at, IsValue(at), NEW P \in DOMAIN at, NEW t \in Paths, Join(P, t) \in DOMAIN at
    PROVE  /\ Join(P, t) \in Trail(at, P)
           /\ Ranked(Trail(at, P), Join(P, t)) = Join(Wrapped(P), t)
<1>1. P \in Paths
  BY DEF IsValue, IsTree
<1>2. PICK q : q = Join(P, t)
  OBVIOUS
<1>3. /\ q \in Paths /\ Len(q) = Len(P) + Len(t)
      /\ \A i \in 1..Len(P) : q[i] = P[i]
      /\ \A i \in 1..Len(t) : q[Len(P) + i] = t[i]
  BY <1>1, <1>2, JoinFacts DEF Join
<1>4. q \in Trail(at, P)
  BY <1>1, <1>2, JoinLeads DEF Join, Trail
<1>5. PICK w : w = Wrapped(P)
  OBVIOUS
<1>6. w \in Paths /\ Len(w) = Len(P) /\ \A i \in 1..Len(P) : w[i] = IF P[i].isIdx THEN Index(0) ELSE P[i]
  BY <1>1, <1>5, WrappedFacts
<1>7. PICK r : r = Join(w, t)
  OBVIOUS
<1>8. /\ r \in Paths /\ Len(r) = Len(w) + Len(t)
      /\ \A i \in 1..Len(w) : r[i] = w[i]
      /\ \A i \in 1..Len(t) : r[Len(w) + i] = t[i]
  BY <1>6, <1>7, JoinFacts DEF Join
<1>9. PICK p : p = Ranked(Trail(at, P), q)
  OBVIOUS
<1>10. /\ p \in Paths /\ Len(p) = Len(q)
       /\ \A i \in 1..Len(q) : p[i] = IF i <= Len(P) /\ q[i].isIdx THEN Index(0) ELSE q[i]
  BY <1>1, <1>4, <1>9, TrailGoes
<1>11. PICK l \in Nat, m \in Nat : l = Len(P) /\ m = Len(t)
  BY <1>1, PathFacts
<1>12. ASSUME NEW i \in 1..Len(p) PROVE p[i] = r[i]
  <2>1. i \in 1..Len(q) /\ i \in 1..(l + m)
    BY <1>3, <1>10, <1>11
  <2>2. CASE i <= l
    <3>1. i \in 1..l
      BY <2>1, <2>2
    <3> QED BY <1>3, <1>6, <1>8, <1>10, <1>11, <2>1, <2>2, <3>1
  <2>3. CASE ~(i <= l)
    <3>1. i - l \in 1..m /\ l + (i - l) = i
      BY <2>1, <2>3
    <3>2. PICK k \in 1..m : k = i - l /\ l + k = i
      BY <3>1
    <3>4. q[l + k] = t[k] /\ r[l + k] = t[k]
      BY <1>3, <1>6, <1>8, <1>11
    <3>3. p[i] = q[i]
      BY <1>10, <1>11, <2>1, <2>3
    <3> QED BY <3>2, <3>3, <3>4
  <2> QED BY <2>2, <2>3
<1>13. p = r
  BY <1>3, <1>6, <1>8, <1>10, <1>12, SamePath
<1> QED BY <1>2, <1>4, <1>5, <1>7, <1>9, <1>13

LEMMA WrapShows ==
    ASSUME NEW at, IsValue(at), NEW P \in DOMAIN at
    PROVE  Shows(wrapPath(at, P), at, Trail(at, P))
<1>1. P \in Paths /\ DOMAIN at \subseteq Paths /\ Len(P) \in Nat
  BY PathFacts DEF IsValue, IsTree
<1>2. PICK w, Q, v : w = wrapPath(at, P) /\ Q = Trail(at, P) /\ v = At(at, P)
  OBVIOUS
<1>3. /\ DOMAIN w = Above(P) \union {Join(Wrapped(P), t) : t \in DOMAIN v}
      /\ w = [p \in DOMAIN w |-> w[p]]
      /\ \A p \in DOMAIN w :
            w[p] = IF p \notin Above(P) THEN v[PastOf(P, p)] ELSE Bare(P[Len(p) + 1].isIdx)
  <2>1. WrapGives(w, v, P)
    BY <1>2, WrapIs
  <2> QED BY <2>1 DEF WrapGives
<1>4. /\ DOMAIN v \subseteq Paths
      /\ \A t \in Paths : t \in DOMAIN v <=> Join(P, t) \in DOMAIN at
      /\ \A t \in DOMAIN v : v[t] = at[Join(P, t)]
  <2>1. DOMAIN v = Onward(DOMAIN at, P) /\ \A t \in DOMAIN v : v[t] = at[P \o t]
    BY <1>2 DEF At, Onward
  <2> QED BY <1>1, <2>1, OnwardFacts DEF Join
<1>5. \A p \in Above(P) : p \in Paths /\ Len(p) < Len(P)
  <2> SUFFICES ASSUME NEW n \in 0..(Len(P) - 1)
               PROVE  Prefix(Wrapped(P), n) \in Paths /\ Len(Prefix(Wrapped(P), n)) < Len(P)
    BY DEF Above
  <2>1. Wrapped(P) \in Paths /\ n \in 0..Len(Wrapped(P))
    BY <1>1, WrappedFacts
  <2>2. Prefix(Wrapped(P), n) \in Paths /\ Len(Prefix(Wrapped(P), n)) = n
    BY <2>1, PrefixFacts
  <2> QED BY <1>1, <2>2
<1>6. ASSUME NEW q \in Q
      PROVE  Ranked(Q, q) \in DOMAIN w /\ w[Ranked(Q, q)] = at[q]
  <2>1. q \in Paths /\ q \in DOMAIN at /\ Len(q) \in Nat
    BY <1>1, <1>2, PathFacts DEF Trail
  <2>2. PICK p : p = Ranked(Q, q)
    OBVIOUS
  <2>3. CASE Len(q) < Len(P)
    <3>1. p = Prefix(Wrapped(P), Len(q)) /\ at[q] = Bare(P[Len(q) + 1].isIdx)
      BY <1>2, <2>2, <2>3, TrailAbove
    <3>2. Len(q) \in 0..(Len(P) - 1)
      BY <1>1, <2>1, <2>3
    <3>3. p \in Above(P)
      BY <3>1, <3>2 DEF Above
    <3>4. Len(p) = Len(q)
      BY <2>1, <2>2, RankedFacts
    <3> QED BY <1>3, <2>2, <3>1, <3>3, <3>4
  <2>4. CASE ~(Len(q) < Len(P))
    <3>1. IsPrefix(P, q)
      BY <1>1, <1>2, <2>1, <2>4, TrailAgrees
    <3>2. PICK t \in Paths : q = Join(P, t)
      BY <1>1, <2>1, <3>1, Rejoined DEF Join
    <3>3. p = Join(Wrapped(P), t)
      BY <1>2, <2>1, <2>2, <3>2, TrailPast
    <3>4. t \in DOMAIN v /\ v[t] = at[q]
      BY <1>4, <2>1, <3>2
    <3>5. Wrapped(P) \in Paths /\ Len(Wrapped(P)) = Len(P)
      BY <1>1, WrappedFacts
    <3>6. PastOf(P, p) = t
      BY <3>2, <3>3, <3>5, JoinLeads DEF PastOf, Join
    <3>7. p \notin Above(P)
      <4>1. Len(p) = Len(q)
        BY <2>1, <2>2, RankedFacts
      <4> QED BY <1>1, <1>5, <2>1, <2>4, <4>1
    <3> QED BY <1>3, <2>2, <3>3, <3>4, <3>6, <3>7
  <2> QED BY <2>3, <2>4
<1>7. ASSUME NEW p \in DOMAIN w PROVE \E q \in Q : p = Ranked(Q, q)
  <2>1. CASE p \in Above(P)
    <3>1. PICK n \in 0..(Len(P) - 1) : p = Prefix(Wrapped(P), n)
      BY <2>1 DEF Above
    <3>2. n \in 0..Len(P)
      BY <1>1
    <3>3. PICK q : q = Prefix(P, n)
      OBVIOUS
    <3>4. q \in Paths /\ Len(q) = n /\ IsPrefix(q, P)
      BY <1>1, <3>2, <3>3, PrefixFacts, PrefixLeads
    <3>5. q \in DOMAIN at
      BY <3>4, LeadsInto DEF IsValue
    <3>6. q \in Q
      BY <1>2, <3>4, <3>5 DEF Trail
    <3>7. Len(q) < Len(P)
      BY <1>1, <3>4
    <3>8. Ranked(Q, q) = Prefix(Wrapped(P), n)
      BY <1>2, <3>4, <3>6, <3>7, TrailAbove
    <3> QED BY <3>1, <3>6, <3>8
  <2>2. CASE p \notin Above(P)
    <3>1. PICK t \in DOMAIN v : p = Join(Wrapped(P), t)
      BY <1>3, <2>2
    <3>2. t \in Paths /\ Join(P, t) \in DOMAIN at
      BY <1>4
    <3>3. Join(P, t) \in Trail(at, P) /\ Ranked(Trail(at, P), Join(P, t)) = Join(Wrapped(P), t)
      BY <3>2, TrailPast
    <3> QED BY <1>2, <3>1, <3>3
  <2> QED BY <2>1, <2>2
<1>8. DOMAIN w = {Ranked(Q, q) : q \in Q}
  BY <1>6, <1>7
<1>9. w = [p \in {Ranked(Q, q) : q \in Q} |-> w[p]]
  BY <1>3, <1>8
<1>10. Shows(w, at, Q)
  BY <1>6, <1>9 DEF Shows
<1> QED BY <1>2, <1>10

-----------------------------------------------------------------------------
(* One path more                                                           *)

Wider(K, at, P) == K \union Trail(at, P)

(* P leaves K after d names, at a list behind all its elements.            *)
Leaves(at, K, P, d) ==
    /\ IsValue(at) /\ Rooting(K) /\ K \subseteq DOMAIN at /\ P \in DOMAIN at
    /\ d \in 0..(Len(P) - 1)
    /\ Prefix(P, d) \in K /\ Slot(Prefix(P, d), P[d + 1]) \notin K
    /\ \A i \in 1..d : ~P[i].isIdx
    /\ P[d + 1].isIdx =>
          \A m \in Nat : Slot(Prefix(P, d), Index(m)) \in K => m < P[d + 1].index

LEMMA LeavesFacts ==
    ASSUME NEW at, NEW K, NEW P, NEW d, Leaves(at, K, P, d)
    PROVE  /\ P \in Paths /\ Len(P) \in Nat /\ d \in Nat /\ d + 1 \in 1..Len(P) /\ d \in 0..Len(P)
           /\ Prefix(P, d) \in Paths /\ Len(Prefix(P, d)) = d /\ P[d + 1] \in Steps
           /\ Slot(Prefix(P, d), P[d + 1]) \in Paths
           /\ Len(Slot(Prefix(P, d), P[d + 1])) = d + 1
           /\ at[Prefix(P, d)].type = IF P[d + 1].isIdx THEN "L" ELSE "M"
           /\ \A i \in 1..d : Prefix(P, d)[i] = P[i]
<1>1. P \in Paths /\ Len(P) \in Nat
  BY PathFacts DEF Leaves, IsValue, IsTree
<1>2. d \in Nat /\ d + 1 \in 1..Len(P) /\ d \in 0..Len(P) /\ d + 1 - 1 = d
  BY <1>1 DEF Leaves
<1>3. Prefix(P, d) \in Paths /\ Len(Prefix(P, d)) = d /\ \A i \in 1..d : Prefix(P, d)[i] = P[i]
  BY <1>1, <1>2, PrefixFacts
<1>4. P[d + 1] \in Steps
  BY <1>1, <1>2, PathFacts
<1>5. Slot(Prefix(P, d), P[d + 1]) \in Paths /\ Len(Slot(Prefix(P, d), P[d + 1])) = d + 1
  BY <1>3, <1>4, SlotFacts
<1>6. at[Prefix(P, d)].type = IF P[d + 1].isIdx THEN "L" ELSE "M"
  BY <1>2, TreeStep DEF Leaves
<1> QED BY <1>1, <1>2, <1>3, <1>4, <1>5, <1>6

(* Of the path what is up to there was in K.                               *)
LEMMA LeavesAt ==
    ASSUME NEW at, NEW K, NEW P, NEW d, Leaves(at, K, P, d), NEW q \in Trail(at, P)
    PROVE  /\ q \in Paths /\ Len(q) \in Nat
           /\ Len(q) <= d => q \in K /\ q = Prefix(P, Len(q)) /\ \A i \in 1..Len(q) : ~q[i].isIdx
           /\ d < Len(q) => /\ q \notin K /\ Prefix(q, d) = Prefix(P, d) /\ q[d + 1] = P[d + 1]
                            /\ IsPrefix(Prefix(P, d), q)
                            /\ IsPrefix(Slot(Prefix(P, d), P[d + 1]), q)
<1>1. /\ P \in Paths /\ Len(P) \in Nat /\ d \in Nat /\ d + 1 \in 1..Len(P) /\ d \in 0..Len(P)
      /\ Prefix(P, d) \in Paths /\ Len(Prefix(P, d)) = d /\ P[d + 1] \in Steps
      /\ Slot(Prefix(P, d), P[d + 1]) \in Paths
      /\ \A i \in 1..d : Prefix(P, d)[i] = P[i]
  BY LeavesFacts
<1>2. IsValue(at) /\ Rooting(K) /\ P \in DOMAIN at /\ d <= Len(P)
  BY <1>1 DEF Leaves
<1>3. /\ q \in Paths /\ \A i \in 1..Len(q) : i <= Len(P) => q[i] = P[i]
      /\ Len(q) <= Len(P) => q = Prefix(P, Len(q)) /\ Len(q) \in 0..Len(P)
  BY <1>1, <1>2, TrailAgrees
<1>4. Len(q) \in Nat
  BY <1>3, PathFacts
<1>5. PICK x : x = Prefix(P, d)
  OBVIOUS
<1>6. ASSUME Len(q) <= d
      PROVE  q \in K /\ q = Prefix(P, Len(q)) /\ \A i \in 1..Len(q) : ~q[i].isIdx
  <2>1. q = Prefix(P, Len(q)) /\ Len(q) \in 0..Len(P)
    BY <1>1, <1>3, <1>4, <1>6
  <2>2. \A i \in 1..Len(q) : i \in 1..d /\ q[i] = P[i]
    BY <1>1, <1>3, <1>4, <1>6
  <2>3. IsPrefix(q, x)
    <3>1. \A i \in 1..Len(q) : x[i] = q[i]
      BY <1>1, <1>5, <2>2
    <3> QED BY <1>1, <1>3, <1>5, <1>6, <3>1, LeadsPointwise
  <2>4. q \in K
    BY <1>2, <1>3, <1>5, <2>3 DEF Rooting, Leaves
  <2>5. \A i \in 1..Len(q) : ~q[i].isIdx
    BY <2>2 DEF Leaves
  <2> QED BY <2>1, <2>4, <2>5
<1>7. ASSUME d < Len(q)
      PROVE  /\ q \notin K /\ Prefix(q, d) = x /\ q[d + 1] = P[d + 1]
             /\ IsPrefix(x, q) /\ IsPrefix(Slot(x, P[d + 1]), q)
  <2>1. \A i \in 1..d : q[i] = x[i]
    BY <1>1, <1>3, <1>4, <1>5, <1>7
  <2>2. IsPrefix(x, q)
    BY <1>1, <1>3, <1>4, <1>5, <1>7, <2>1, LeadsPointwise
  <2>3. Prefix(q, d) = x
    <3>1. x = Prefix(q, Len(x))
      BY <1>1, <1>3, <1>5, <2>2, LeadsAs
    <3> QED BY <1>1, <1>5, <3>1
  <2>4. q[d + 1] = P[d + 1]
    BY <1>1, <1>3, <1>4, <1>7
  <2>5. IsPrefix(Slot(x, P[d + 1]), q)
    BY <1>1, <1>3, <1>5, <1>7, <2>2, <2>4, StepLeads DEF Slot
  <2>6. q \notin K
    BY <1>1, <1>2, <1>5, <2>5 DEF Rooting, Leaves
  <2> QED BY <2>2, <2>3, <2>4, <2>5, <2>6
<1> QED BY <1>3, <1>4, <1>5, <1>6, <1>7

(* What was in K stays where it was.                                       *)
LEMMA KeepsRank ==
    ASSUME NEW at, NEW K, NEW P, NEW d, Leaves(at, K, P, d), NEW q \in K, NEW i \in 1..Len(q), q[i].isIdx
    PROVE  Rank(Wider(K, at, P), Prefix(q, i - 1), q[i].index) = Rank(K, Prefix(q, i - 1), q[i].index)
<1>1. /\ P \in Paths /\ d \in Nat /\ Prefix(P, d) \in Paths /\ Len(Prefix(P, d)) = d /\ P[d + 1] \in Steps
      /\ Slot(Prefix(P, d), P[d + 1]) \in Paths /\ Len(Slot(Prefix(P, d), P[d + 1])) = d + 1
  BY LeavesFacts
<1>2. Rooting(K) /\ q \in Paths
  BY DEF Leaves, Rooting
<1>3. PICK x : x = Prefix(q, i - 1)
  OBVIOUS
<1>4. PICK k \in Nat : k = q[i].index /\ q[i] = Index(k)
  BY <1>2, PathFacts, StepIndex, IndexesAre
<1>5. x \in Paths /\ Len(x) = i - 1 /\ IsPrefix(x, q) /\ IsPrefix(Slot(x, Index(k)), q) /\ Index(k) \in Steps
  BY <1>2, <1>3, <1>4, PrefixStep, IndexStep
<1>6. x \in K /\ Slot(x, Index(k)) \in K
  <2>1. Slot(x, Index(k)) \in Paths
    BY <1>5, SlotFacts
  <2> QED BY <1>2, <1>5, <2>1 DEF Rooting
<1>7. ASSUME NEW m \in 0..(k - 1), Slot(x, Index(m)) \in Trail(at, P) PROVE Slot(x, Index(m)) \in K
  <2> SUFFICES ASSUME Slot(x, Index(m)) \notin K PROVE FALSE
    OBVIOUS
  <2>1. PICK s : s = Slot(x, Index(m))
    OBVIOUS
  <2>2. m \in Nat /\ Index(m) \in Steps
    BY <1>4, IndexStep
  <2>3. /\ s \in Paths /\ Len(s) = Len(x) + 1 /\ s[Len(x) + 1] = Index(m)
    BY <1>5, <2>1, <2>2, SlotFacts
  <2>4. Len(x) \in Nat
    BY <1>5, PathFacts
  <2>5. IsPrefix(x, s)
    BY <1>5, <2>1, <2>2, <2>3, LeadsToItself, StepLeads DEF Slot
  <2>6. d < Len(s)
    BY <1>1, <1>7, <2>1, <2>3, <2>4, LeavesAt
  <2>7. /\ Prefix(s, d) = Prefix(P, d) /\ s[d + 1] = P[d + 1]
        /\ IsPrefix(Slot(Prefix(P, d), P[d + 1]), s)
    BY <1>7, <2>1, <2>6, LeavesAt
  <2>8. CASE d < Len(x)
    <3>1. Len(Slot(Prefix(P, d), P[d + 1])) <= Len(x)
      BY <1>1, <2>4, <2>8
    <3>2. IsPrefix(Slot(Prefix(P, d), P[d + 1]), x)
      BY <1>1, <1>5, <2>3, <2>5, <2>7, <3>1, BothLead
    <3> QED BY <1>1, <1>2, <1>6, <3>2 DEF Rooting, Leaves
  <2>9. CASE ~(d < Len(x))
    <3>1. Len(x) = d
      BY <1>1, <2>3, <2>4, <2>6, <2>9
    <3>2. x = Prefix(P, d)
      BY <1>5, <2>3, <2>5, <2>7, <3>1, LeadsAs
    <3>3. P[d + 1] = Index(m)
      BY <2>3, <2>7, <3>1
    <3>4. P[d + 1].isIdx /\ P[d + 1].index = m
      BY <3>3, IndexIs
    <3>5. k < m
      BY <1>6, <3>2, <3>4 DEF Leaves
    <3> QED BY <1>4, <3>5
  <2> QED BY <2>8, <2>9
<1>8. Lower(Wider(K, at, P), x, k) = Lower(K, x, k)
  BY <1>7 DEF Lower, Wider
<1> QED BY <1>3, <1>4, <1>8 DEF Rank

LEMMA KeepsPlace ==
    ASSUME NEW at, NEW K, NEW P, NEW d, Leaves(at, K, P, d), NEW q \in K
    PROVE  Ranked(Wider(K, at, P), q) = Ranked(K, q)
<1>1. q \in Paths
  BY DEF Leaves, Rooting
<1>2. PICK K2 : K2 = Wider(K, at, P)
  OBVIOUS
<1>3. PICK r, s : r = Ranked(K2, q) /\ s = Ranked(K, q)
  OBVIOUS
<1>4. /\ r \in Paths /\ Len(r) = Len(q)
      /\ \A i \in 1..Len(q) :
            /\ ~q[i].isIdx => r[i] = q[i]
            /\ q[i].isIdx => r[i] = Index(Rank(K2, Prefix(q, i - 1), q[i].index))
  BY <1>1, <1>3, RankedFacts
<1>5. /\ s \in Paths /\ Len(s) = Len(q)
      /\ \A i \in 1..Len(q) :
            /\ ~q[i].isIdx => s[i] = q[i]
            /\ q[i].isIdx => s[i] = Index(Rank(K, Prefix(q, i - 1), q[i].index))
  BY <1>1, <1>3, RankedFacts
<1>6. ASSUME NEW i \in 1..Len(q) PROVE r[i] = s[i]
  <2>1. ASSUME q[i].isIdx
        PROVE  Rank(K2, Prefix(q, i - 1), q[i].index) = Rank(K, Prefix(q, i - 1), q[i].index)
    <3>1. Rank(Wider(K, at, P), Prefix(q, i - 1), q[i].index) = Rank(K, Prefix(q, i - 1), q[i].index)
      BY <2>1, KeepsRank
    <3> QED BY <1>2, <3>1
  <2> QED BY <1>4, <1>5, <2>1
<1>7. r = s
  BY <1>4, <1>5, <1>6, SamePath
<1> QED BY <1>2, <1>3, <1>7

(* What is new goes behind what was there.                                 *)
LEMMA NewRanks ==
    ASSUME NEW at, NEW K, NEW P, NEW d, Leaves(at, K, P, d), NEW q \in Trail(at, P),
           NEW i \in 1..Len(q), q[i].isIdx, d < i
    PROVE  Rank(Wider(K, at, P), Prefix(q, i - 1), q[i].index) =
              IF i = d + 1 THEN Rank(K, Prefix(P, d), P[d + 1].index)
              ELSE Rank(Trail(at, P), Prefix(q, i - 1), q[i].index)
<1>1. /\ P \in Paths /\ d \in Nat /\ Prefix(P, d) \in Paths /\ Len(Prefix(P, d)) = d /\ P[d + 1] \in Steps
      /\ Slot(Prefix(P, d), P[d + 1]) \in Paths /\ Len(Slot(Prefix(P, d), P[d + 1])) = d + 1
  BY LeavesFacts
<1>2. Rooting(K) /\ q \in Paths /\ Len(q) \in Nat
  BY LeavesAt DEF Leaves
<1>3. PICK x : x = Prefix(q, i - 1)
  OBVIOUS
<1>4. PICK k \in Nat : k = q[i].index /\ q[i] = Index(k)
  BY <1>2, PathFacts, StepIndex, IndexesAre
<1>5. x \in Paths /\ Len(x) = i - 1 /\ IsPrefix(x, q)
  BY <1>2, <1>3, PrefixStep
<1>6. d < Len(q)
  BY <1>1, <1>2
<1>7. /\ Prefix(q, d) = Prefix(P, d) /\ q[d + 1] = P[d + 1]
      /\ IsPrefix(Slot(Prefix(P, d), P[d + 1]), q)
  BY <1>6, LeavesAt
<1>8. ASSUME NEW m \in 0..(k - 1) PROVE Slot(x, Index(m)) \in Paths /\ IsPrefix(x, Slot(x, Index(m)))
  <2>1. Index(m) \in Steps
    BY <1>4, IndexStep
  <2>2. PICK s : s = Slot(x, Index(m))
    OBVIOUS
  <2>3. s \in Paths /\ IsPrefix(s, s)
    BY <1>5, <2>1, <2>2, SlotFacts, LeadsToItself
  <2>4. IsPrefix(x, s)
    BY <1>5, <2>1, <2>2, <2>3, StepLeads DEF Slot
  <2> QED BY <2>2, <2>3, <2>4
<1>9. CASE i = d + 1
  <2>1. x = Prefix(P, d) /\ k = P[d + 1].index
    <3>1. i - 1 = d
      BY <1>1, <1>9
    <3>2. x = Prefix(P, d)
      BY <1>3, <1>7, <3>1
    <3>3. q[i] = P[d + 1]
      BY <1>7, <1>9
    <3> QED BY <1>4, <3>2, <3>3
  <2>2. ASSUME NEW m \in 0..(k - 1), Slot(x, Index(m)) \in Trail(at, P) PROVE FALSE
    <3>1. PICK s : s = Slot(x, Index(m))
      OBVIOUS
    <3>2. m \in Nat /\ Index(m) \in Steps
      BY <1>4, IndexStep
    <3>3. Len(s) = Len(x) + 1 /\ s[Len(x) + 1] = Index(m)
      BY <1>5, <3>1, <3>2, SlotFacts
    <3>4. Len(s) = d + 1 /\ s[d + 1] = Index(m)
      BY <1>1, <2>1, <3>3
    <3>5. d < Len(s)
      BY <1>1, <3>4
    <3>6. s[d + 1] = P[d + 1]
      BY <2>2, <3>1, <3>5, LeavesAt
    <3>7. P[d + 1].index = m
      BY <3>4, <3>6, IndexIs
    <3> QED BY <1>4, <2>1, <3>7
  <2>3. Lower(Wider(K, at, P), x, k) = Lower(K, x, k)
    BY <2>2 DEF Lower, Wider
  <2> QED BY <1>3, <1>4, <1>9, <2>1, <2>3 DEF Rank
<1>10. CASE i # d + 1
  <2>1. ASSUME NEW m \in 0..(k - 1), Slot(x, Index(m)) \in K PROVE FALSE
    <3>1. x \in K
      BY <1>2, <1>5, <1>8, <2>1 DEF Rooting
    <3>2. Len(Slot(Prefix(P, d), P[d + 1])) <= Len(x)
      BY <1>1, <1>5, <1>10
    <3>3. IsPrefix(Slot(Prefix(P, d), P[d + 1]), x)
      BY <1>1, <1>2, <1>5, <1>7, <3>2, BothLead
    <3> QED BY <1>1, <1>2, <3>1, <3>3 DEF Rooting, Leaves
  <2>2. Lower(Wider(K, at, P), x, k) = Lower(Trail(at, P), x, k)
    BY <2>1 DEF Lower, Wider
  <2> QED BY <1>3, <1>4, <1>10, <2>2 DEF Rank
<1> QED BY <1>9, <1>10

LEMMA NewPlace ==
    ASSUME NEW at, NEW K, NEW P, NEW d, Leaves(at, K, P, d), NEW q \in Trail(at, P),
           NEW r, r = Ranked(Wider(K, at, P), q), NEW s, s = Ranked(Trail(at, P), q)
    PROVE  /\ r \in Paths /\ s \in Paths /\ Len(r) = Len(q) /\ Len(s) = Len(q)
           /\ \A i \in 1..Len(q) :
                r[i] = IF i = d + 1 /\ P[d + 1].isIdx
                       THEN Index(s[i].index + Rank(K, Prefix(P, d), P[d + 1].index)) ELSE s[i]
<1>1. P \in Paths /\ Len(P) \in Nat /\ d \in Nat /\ d + 1 \in 1..Len(P) /\ IsValue(at)
  BY LeavesFacts DEF Leaves
<1>2. q \in Paths /\ Len(q) \in Nat
  BY LeavesAt
<1>3. PICK K2 : K2 = Wider(K, at, P)
  OBVIOUS
<1>4. /\ r \in Paths /\ Len(r) = Len(q)
      /\ \A i \in 1..Len(q) :
            /\ ~q[i].isIdx => r[i] = q[i]
            /\ q[i].isIdx => r[i] = Index(Rank(K2, Prefix(q, i - 1), q[i].index))
  BY <1>2, <1>3, RankedFacts
<1>5. /\ s \in Paths /\ Len(s) = Len(q)
      /\ \A i \in 1..Len(q) :
            /\ ~q[i].isIdx => s[i] = q[i]
            /\ q[i].isIdx => s[i] = Index(Rank(Trail(at, P), Prefix(q, i - 1), q[i].index))
  BY <1>2, RankedFacts
<1>6. PICK c : c = Rank(K, Prefix(P, d), P[d + 1].index)
  OBVIOUS
<1>7. ASSUME NEW i \in 1..Len(q)
      PROVE  r[i] = IF i = d + 1 /\ P[d + 1].isIdx THEN Index(s[i].index + c) ELSE s[i]
  <2>1. CASE i <= d
    <3>1. ~q[i].isIdx
      <4>1. CASE Len(q) <= d
        BY <4>1, LeavesAt
      <4>2. CASE ~(Len(q) <= d)
        <5>1. i \in 1..d /\ i <= Len(P)
          BY <1>1, <2>1
        <5>2. q[i] = P[i]
          BY <1>1, <5>1, TrailAgrees
        <5> QED BY <5>1, <5>2 DEF Leaves
      <4> QED BY <4>1, <4>2
    <3>2. i # d + 1
      BY <1>1, <2>1
    <3> QED BY <1>4, <1>5, <3>1, <3>2
  <2>2. CASE i = d + 1
    <3>1. q[i] = P[d + 1] /\ i <= Len(P) /\ d < i
      <4>1. d < Len(q)
        BY <1>1, <1>2, <2>2
      <4> QED BY <1>1, <2>2, <4>1, LeavesAt
    <3>2. CASE ~q[i].isIdx
      BY <1>4, <1>5, <3>1, <3>2
    <3>3. CASE q[i].isIdx
      <4>1. s[i] = Index(0)
        <5>1. Rank(Trail(at, P), Prefix(q, i - 1), q[i].index) = 0
          BY <1>1, <3>1, <3>3, TrailRanks
        <5> QED BY <1>5, <3>3, <5>1
      <4>2. s[i].index = 0
        BY <4>1, IndexIs
      <4>3. Rank(K2, Prefix(q, i - 1), q[i].index) = c
        <5>1. Rank(Wider(K, at, P), Prefix(q, i - 1), q[i].index) =
                 IF i = d + 1 THEN Rank(K, Prefix(P, d), P[d + 1].index)
                 ELSE Rank(Trail(at, P), Prefix(q, i - 1), q[i].index)
          BY <3>1, <3>3, NewRanks
        <5> QED BY <1>3, <1>6, <2>2, <5>1
      <4>4. c \in Nat
        <5>1. P[d + 1] \in Steps
          BY <1>1, PathFacts
        <5> QED BY <1>6, <5>1, StepIndex, LowerFacts
      <4>5. s[i].index + c = c
        BY <4>2, <4>4
      <4> QED BY <1>4, <2>2, <3>1, <3>3, <4>3, <4>5
    <3> QED BY <3>2, <3>3
  <2>3. CASE ~(i <= d) /\ i # d + 1
    <3>1. CASE ~q[i].isIdx
      BY <1>4, <1>5, <2>3, <3>1
    <3>2. CASE q[i].isIdx
      <4>1. d < i
        BY <1>1, <2>3
      <4>2. Rank(K2, Prefix(q, i - 1), q[i].index) = Rank(Trail(at, P), Prefix(q, i - 1), q[i].index)
        <5>1. Rank(Wider(K, at, P), Prefix(q, i - 1), q[i].index) =
                 IF i = d + 1 THEN Rank(K, Prefix(P, d), P[d + 1].index)
                 ELSE Rank(Trail(at, P), Prefix(q, i - 1), q[i].index)
          BY <3>2, <4>1, NewRanks
        <5> QED BY <1>3, <2>3, <5>1
      <4> QED BY <1>4, <1>5, <2>3, <3>2, <4>2
    <3> QED BY <3>1, <3>2
  <2> QED BY <2>1, <2>2, <2>3
<1> QED BY <1>4, <1>5, <1>6, <1>7

-----------------------------------------------------------------------------
(* Where a path is merged                                                  *)

LEMMA NamesLead ==
    ASSUME NEW K, NEW q \in Paths, NEW r, r = Ranked(K, q), NEW x \in Paths, \A i \in 1..Len(x) : ~x[i].isIdx
    PROVE  IsPrefix(x, r) <=> IsPrefix(x, q)
<1>1. /\ r \in Paths /\ Len(r) = Len(q)
      /\ \A i \in 1..Len(q) :
            /\ ~q[i].isIdx => r[i] = q[i]
            /\ q[i].isIdx => r[i] = Index(Rank(K, Prefix(q, i - 1), q[i].index))
  BY RankedFacts
<1>2. Len(x) \in Nat /\ Len(q) \in Nat
  BY PathFacts
<1>3. ASSUME NEW i \in 1..Len(x), i \in 1..Len(q) PROVE r[i] = x[i] <=> q[i] = x[i]
  <2>1. CASE ~q[i].isIdx
    BY <1>1, <1>3, <2>1
  <2>2. CASE q[i].isIdx
    <3>1. r[i].isIdx
      BY <1>1, <1>3, <2>2, IndexIs
    <3> QED BY <2>2, <3>1
  <2> QED BY <2>1, <2>2
<1>4. /\ IsPrefix(x, r) <=> Len(x) <= Len(r) /\ \A i \in 1..Len(x) : r[i] = x[i]
      /\ IsPrefix(x, q) <=> Len(x) <= Len(q) /\ \A i \in 1..Len(x) : q[i] = x[i]
  BY <1>1, LeadsPointwise
<1>5. Len(x) <= Len(q) => \A i \in 1..Len(x) : i \in 1..Len(q)
  BY <1>2
<1> QED BY <1>1, <1>3, <1>4, <1>5

LEMMA NamesAlone ==
    ASSUME NEW K, NEW q \in Paths, \A i \in 1..Len(q) : ~q[i].isIdx
    PROVE  Ranked(K, q) = q
<1>1. PICK r : r = Ranked(K, q)
  OBVIOUS
<1>2. r \in Paths /\ Len(r) = Len(q) /\ \A i \in 1..Len(q) : r[i] = q[i]
  BY <1>1, RankedFacts
<1> QED BY <1>1, <1>2, SamePath

(* The elements of the list that P adds to.                                *)
LEMMA ElementsCount ==
    ASSUME NEW at, NEW K, NEW P, NEW d, Leaves(at, K, P, d), P[d + 1].isIdx, NEW a, Shows(a, at, K)
    PROVE  Cardinality(Elements(a, Prefix(P, d))) = Rank(K, Prefix(P, d), P[d + 1].index)
<1>0. PICK k \in Nat : k = P[d + 1].index
  BY LeavesFacts, StepIndex
<1>1. PICK x : x = Prefix(P, d) /\ k = P[d + 1].index
  BY <1>0
<1>2. x \in Paths /\ Len(x) = d /\ d \in Nat /\ at[x].type = "L" /\ \A i \in 1..Len(x) : ~x[i].isIdx
  BY <1>1, LeavesFacts DEF Leaves
<1>3. Rooting(K) /\ K \subseteq DOMAIN at /\ K \subseteq Paths /\ IsValue(at) /\ DOMAIN at \subseteq Paths
  BY DEF Leaves, Rooting, IsValue, IsTree
<1>4. PICK L, E : L = Lower(K, x, k) /\ E = Elements(a, x)
  OBVIOUS
<1>5. IsFiniteSet(L) /\ L \subseteq Nat /\ Cardinality(L) = Rank(K, x, k)
  BY <1>4, LowerFacts DEF Rank
<1>6. DOMAIN a = {Ranked(K, q) : q \in K}
  BY DEF Shows
<1>7. PICK f : f = [m \in L |-> Index(Rank(K, x, m))]
  OBVIOUS
<1>8. ASSUME NEW m \in L PROVE f[m] \in E
  <2>1. m \in Nat /\ Index(m) \in Steps /\ Slot(x, Index(m)) \in K
    BY <1>4, <1>5, IndexStep DEF Lower
  <2>2. PICK y \in K : y = Slot(x, Index(m))
    BY <2>1
  <2>3. y \in Paths /\ Len(y) = d + 1 /\ y[d + 1] = Index(m)
    BY <1>2, <2>1, <2>2, SlotFacts
  <2>4. IsPrefix(x, y)
    BY <1>2, <2>1, <2>2, <2>3, LeadsToItself, StepLeads DEF Slot
  <2>5. PICK r : r = Ranked(K, y)
    OBVIOUS
  <2>6. r \in DOMAIN a /\ r \in Paths /\ Len(r) = d + 1 /\ IsPrefix(x, r)
    BY <1>2, <1>6, <2>2, <2>3, <2>4, <2>5, RankedFacts, NamesLead
  <2>7. d + 1 \in 1..Len(y) /\ y[d + 1].isIdx /\ y[d + 1].index = m
    BY <1>2, <2>3, IndexIs
  <2>8. Prefix(y, d) = x
    BY <1>2, <2>3, <2>4, LeadsAs
  <2>9. PICK j \in 1..Len(y) : j = d + 1 /\ j - 1 = d
    BY <1>2, <2>7
  <2>10. r[d + 1] = Index(Rank(K, x, m))
    <3>1. r[j] = Index(Rank(K, Prefix(y, j - 1), y[j].index))
      <4>1. y[j].isIdx
        BY <2>7, <2>9
      <4> QED BY <2>3, <2>5, <4>1, RankedFacts
    <3> QED BY <2>7, <2>8, <2>9, <3>1
  <2>11. r[Len(r)] \in E
    BY <1>2, <1>4, <2>6 DEF Elements
  <2> QED BY <1>7, <2>6, <2>10, <2>11
<1>9. ASSUME NEW e \in E PROVE \E m \in L : f[m] = e
  <2>1. PICK r \in DOMAIN a : Len(r) = d + 1 /\ IsPrefix(x, r) /\ e = r[Len(r)]
    BY <1>2, <1>4 DEF Elements
  <2>2. PICK y \in K : r = Ranked(K, y)
    BY <1>6
  <2>3. y \in Paths /\ Len(y) = d + 1 /\ IsPrefix(x, y)
    BY <1>2, <1>3, <2>1, <2>2, RankedFacts, NamesLead
  <2>4. PICK j \in 1..Len(y) : j = d + 1 /\ j - 1 = d
    <3>1. d + 1 \in 1..Len(y)
      BY <1>2, <2>3
    <3> QED BY <1>2, <3>1
  <2>5. Prefix(y, d) = x
    BY <1>2, <2>3, LeadsAs
  <2>6. /\ Slot(Prefix(y, j - 1), y[j]) \in DOMAIN at
        /\ at[Prefix(y, j - 1)].type = IF y[j].isIdx THEN "L" ELSE "M"
    BY <1>3, <2>4, TreeStep
  <2>7. y[j].isIdx
    BY <1>2, <2>4, <2>5, <2>6
  <2>8. PICK m \in Nat : m = y[j].index /\ y[j] = Index(m)
    BY <2>3, <2>4, <2>7, PathFacts, StepIndex, IndexesAre
  <2>9. Slot(x, Index(m)) \in K
    <3>1. IsPrefix(Slot(Prefix(y, j - 1), y[j]), y)
      BY <2>3, <2>4, PrefixStep
    <3>2. Slot(Prefix(y, j - 1), y[j]) \in Paths
      BY <1>3, <2>6
    <3>3. Slot(Prefix(y, j - 1), y[j]) \in K
      BY <1>3, <3>1, <3>2 DEF Rooting
    <3> QED BY <2>4, <2>5, <2>8, <3>3
  <2>10. m < k
    BY <1>1, <2>9 DEF Leaves
  <2>11. m \in L
    BY <1>1, <1>4, <2>9, <2>10 DEF Lower
  <2>12. r[d + 1] = Index(Rank(K, x, m))
    <3>1. r[j] = Index(Rank(K, Prefix(y, j - 1), y[j].index))
      BY <2>2, <2>3, <2>4, <2>7, RankedFacts
    <3> QED BY <2>4, <2>5, <2>8, <3>1
  <2> QED BY <1>7, <2>1, <2>11, <2>12
<1>10. ASSUME NEW m \in L, NEW n \in L, f[m] = f[n] PROVE m = n
  <2>1. m \in Nat /\ n \in Nat /\ Slot(x, Index(m)) \in K /\ Slot(x, Index(n)) \in K
    BY <1>4, <1>5 DEF Lower
  <2>2. Index(Rank(K, x, m)) = Index(Rank(K, x, n))
    BY <1>7, <1>10
  <2>3. Rank(K, x, m) = Rank(K, x, n)
    BY <2>2, IndexIs
  <2>4. ~(m < n) /\ ~(n < m)
    BY <2>1, <2>3, RankRises
  <2> QED BY <2>1, <2>4
<1>11. f \in Bijection(L, E)
  <2>1. f \in [L -> E]
    BY <1>7, <1>8
  <2>2. f \in Injection(L, E)
    BY <1>10, <2>1 DEF Injection, IsInjective
  <2>3. f \in Surjection(L, E)
    BY <1>9, <2>1 DEF Surjection
  <2> QED BY <2>2, <2>3 DEF Bijection
<1>12. Cardinality(E) = Cardinality(L)
  <2>1. ExistsBijection(L, E)
    BY <1>11 DEF ExistsBijection
  <2> QED BY <1>5, <2>1, FS_Bijection
<1> QED BY <1>1, <1>4, <1>5, <1>12

(* mergeAV's maps, lists and places.                                       *)
MapsOf(a, b) ==
    {p \in DOMAIN b : \A n \in 0..Len(p) :
        /\ Prefix(p, n) \in DOMAIN a \intersect DOMAIN b
        /\ a[Prefix(p, n)].type = "M" /\ b[Prefix(p, n)].type = "M"}
MeetOf(a, b) ==
    {p \in DOMAIN b : /\ p \in DOMAIN a \intersect DOMAIN b /\ p \notin MapsOf(a, b)
                      /\ (p = Here \/ Front(p) \in MapsOf(a, b))}
ListsOf(a, b) == {p \in MeetOf(a, b) : a[p].type = "L" /\ b[p].type = "L"}
LostOf(a, b) == {p \in DOMAIN a : \E m \in MeetOf(a, b) \ ListsOf(a, b) : IsPrefix(m, p)}
AfterOf(a, b, p) == {m \in ListsOf(a, b) : IsPrefix(m, p) /\ Len(m) < Len(p)}
PlaceOf(a, b, p) ==
    [i \in 1..Len(p) |->
        IF \E m \in AfterOf(a, b, p) : i = Len(m) + 1
        THEN Index(p[i].index + Cardinality(Elements(a, Prefix(p, i - 1)))) ELSE p[i]]
PlacedOf(a, b) == {PlaceOf(a, b, p) : p \in DOMAIN b}
FromOf(a, b, p) == CHOOSE q \in DOMAIN b : PlaceOf(a, b, q) = p

LEMMA MergeIs ==
    ASSUME NEW a, NEW b
    PROVE  mergeAV(a, b) =
              [p \in (DOMAIN a \ LostOf(a, b)) \union PlacedOf(a, b) |->
                  IF p \in PlacedOf(a, b) THEN b[FromOf(a, b, p)] ELSE a[p]]
BY DEF mergeAV, MapsOf, MeetOf, ListsOf, LostOf, AfterOf, PlaceOf, PlacedOf, FromOf, Prefix

(* b is one path that leaves a after x, where nothing is lost.             *)
Grafts(a, b, x, list) ==
    /\ x \in Paths /\ DOMAIN a \subseteq Paths /\ DOMAIN b \subseteq Paths
    /\ \A n \in 0..Len(x) :
          /\ Prefix(x, n) \in DOMAIN a \intersect DOMAIN b
          /\ a[Prefix(x, n)] = Bare(n = Len(x) /\ list = TRUE)
          /\ b[Prefix(x, n)] = Bare(n = Len(x) /\ list = TRUE)
    /\ \A p \in DOMAIN b : Len(p) > Len(x) => IsPrefix(x, p) /\ (list # TRUE => p \notin DOMAIN a)
    /\ \A p \in DOMAIN b : Len(p) <= Len(x) => p = Prefix(x, Len(p))

Shorter(b, x, list) == {p \in DOMAIN b : Len(p) <= Len(x) /\ (list = TRUE => Len(p) < Len(x))}

LEMMA GraftMaps ==
    ASSUME NEW a, NEW b, NEW x, NEW list, Grafts(a, b, x, list)
    PROVE  MapsOf(a, b) = Shorter(b, x, list)
<1>1. x \in Paths /\ Len(x) \in Nat /\ DOMAIN b \subseteq Paths
  BY PathFacts DEF Grafts
<1>2. ASSUME NEW p \in DOMAIN b, Len(p) <= Len(x), list = TRUE => Len(p) < Len(x), NEW n \in 0..Len(p)
      PROVE  /\ Prefix(p, n) \in DOMAIN a \intersect DOMAIN b
             /\ a[Prefix(p, n)].type = "M" /\ b[Prefix(p, n)].type = "M"
  <2>1. p \in Paths /\ Len(p) \in Nat /\ n \in 0..Len(x)
    BY <1>1, <1>2, PathFacts
  <2>2. Prefix(p, n) = Prefix(x, n)
    <3>1. p = Prefix(x, Len(p)) /\ Len(p) \in 0..Len(x)
      BY <1>1, <1>2, <2>1 DEF Grafts
    <3>2. Prefix(p, n) \in Paths /\ Len(Prefix(p, n)) = n /\ \A i \in 1..n : Prefix(p, n)[i] = p[i]
      BY <2>1, PrefixFacts
    <3>3. Prefix(x, n) \in Paths /\ Len(Prefix(x, n)) = n /\ \A i \in 1..n : Prefix(x, n)[i] = x[i]
      BY <1>1, <2>1, PrefixFacts
    <3>4. \A i \in 1..Len(p) : Prefix(x, Len(p))[i] = x[i]
      BY <1>1, <3>1, PrefixFacts
    <3>5. \A i \in 1..n : p[i] = x[i]
      BY <2>1, <3>1, <3>4
    <3> QED BY <3>2, <3>3, <3>5, SamePath
  <2>3. /\ Prefix(x, n) \in DOMAIN a \intersect DOMAIN b
        /\ a[Prefix(x, n)] = Bare(n = Len(x) /\ list = TRUE)
        /\ b[Prefix(x, n)] = Bare(n = Len(x) /\ list = TRUE)
    BY <2>1 DEF Grafts
  <2>4. ~(n = Len(x) /\ list = TRUE)
    BY <1>1, <1>2, <2>1
  <2>5. Bare(n = Len(x) /\ list = TRUE).type = "M"
    BY <2>4 DEF Bare
  <2> QED BY <2>2, <2>3, <2>5
<1>3. ASSUME NEW p \in MapsOf(a, b) PROVE Len(p) <= Len(x) /\ (list = TRUE => Len(p) < Len(x))
  <2>1. p \in DOMAIN b /\ p \in Paths /\ Len(p) \in Nat
    BY <1>1, PathFacts DEF MapsOf
  <2>2. Prefix(p, Len(p)) = p
    BY <2>1, LeadsToItself, LeadsAs
  <2>3. p \in DOMAIN a
    <3>1. Len(p) \in 0..Len(p)
      BY <2>1
    <3> QED BY <2>2, <3>1 DEF MapsOf
  <2>4. CASE list = TRUE
    <3>1. SUFFICES ASSUME ~(Len(p) < Len(x)) PROVE FALSE
      BY <1>1, <2>1
    <3>2. Len(x) \in 0..Len(p)
      BY <1>1, <2>1, <3>1
    <3>3. Prefix(p, Len(x)) = x
      <4>1. CASE Len(p) > Len(x)
        BY <1>1, <2>1, <4>1, LeadsAs DEF Grafts
      <4>2. CASE ~(Len(p) > Len(x))
        <5>1. Len(p) = Len(x)
          BY <1>1, <2>1, <3>1, <4>2
        <5>2. p = Prefix(x, Len(p))
          BY <1>1, <2>1, <5>1 DEF Grafts
        <5>3. Prefix(x, Len(x)) = x
          BY <1>1, LeadsToItself, LeadsAs
        <5> QED BY <2>2, <5>1, <5>2, <5>3
      <4> QED BY <4>1, <4>2
    <3>4. b[x].type = "M"
      BY <3>2, <3>3 DEF MapsOf
    <3>5. b[x] = Bare(Len(x) = Len(x) /\ list = TRUE)
      <4>1. Len(x) \in 0..Len(x) /\ Prefix(x, Len(x)) = x
        BY <1>1, LeadsToItself, LeadsAs
      <4> QED BY <4>1 DEF Grafts
    <3>6. b[x].type = "L"
      BY <2>4, <3>5 DEF Bare
    <3> QED BY <3>4, <3>6
  <2>5. CASE list # TRUE
    <3>1. ~(Len(p) > Len(x))
      BY <2>1, <2>3, <2>5 DEF Grafts
    <3>2. Len(p) <= Len(x)
      BY <1>1, <2>1, <3>1
    <3> QED BY <2>5, <3>2
  <2> QED BY <2>4, <2>5
<1>4. ASSUME NEW p \in DOMAIN b, Len(p) <= Len(x), list = TRUE => Len(p) < Len(x)
      PROVE  p \in MapsOf(a, b)
  BY <1>2, <1>4 DEF MapsOf
<1>5. MapsOf(a, b) \subseteq DOMAIN b
  BY DEF MapsOf
<1> QED BY <1>3, <1>4, <1>5 DEF Shorter

LEMMA GraftLists ==
    ASSUME NEW a, NEW b, NEW x, NEW list, Grafts(a, b, x, list)
    PROVE  /\ MeetOf(a, b) = ListsOf(a, b)
           /\ ListsOf(a, b) = IF list = TRUE THEN {x} ELSE {}
<1>1. x \in Paths /\ Len(x) \in Nat /\ DOMAIN b \subseteq Paths
  BY PathFacts DEF Grafts
<1>2. /\ MapsOf(a, b) \subseteq DOMAIN b
      /\ \A p \in DOMAIN b : p \in MapsOf(a, b) <=> Len(p) <= Len(x) /\ (list = TRUE => Len(p) < Len(x))
  <2>1. MapsOf(a, b) = Shorter(b, x, list)
    BY GraftMaps
  <2> QED BY <2>1 DEF Shorter
<1>3. ASSUME NEW p \in MeetOf(a, b) PROVE list = TRUE /\ p = x
  <2>1. /\ p \in DOMAIN b /\ p \in DOMAIN a /\ p \notin MapsOf(a, b)
        /\ p = Here \/ Front(p) \in MapsOf(a, b)
    BY DEF MeetOf
  <2>2. p \in Paths /\ Len(p) \in Nat
    BY <1>1, <2>1, PathFacts
  <2>3. list = TRUE
    <3> SUFFICES ASSUME list # TRUE PROVE FALSE
      OBVIOUS
    <3>1. ~(Len(p) <= Len(x))
      BY <1>2, <2>1
    <3> QED BY <1>1, <2>1, <2>2, <3>1 DEF Grafts
  <2>4. ~(Len(p) < Len(x))
    BY <1>1, <1>2, <2>1, <2>2, <2>3
  <2>5. Len(p) <= Len(x)
    <3>1. CASE p = Here
      BY <1>1, <2>2, <3>1, PathFacts
    <3>2. CASE p # Here
      <4>1. Len(Front(p)) = Len(p) - 1 /\ Len(Front(p)) < Len(x)
        BY <1>2, <2>1, <2>2, <2>3, <3>2, FrontFacts
      <4> QED BY <1>1, <2>2, <4>1
    <3> QED BY <3>1, <3>2
  <2>6. p = Prefix(x, Len(x))
    <3>1. Len(p) = Len(x)
      BY <1>1, <2>2, <2>4, <2>5
    <3> QED BY <2>1, <2>5, <3>1 DEF Grafts
  <2>7. Prefix(x, Len(x)) = x
    BY <1>1, LeadsToItself, LeadsAs
  <2> QED BY <2>3, <2>6, <2>7
<1>4. ASSUME list = TRUE PROVE x \in MeetOf(a, b) /\ a[x].type = "L" /\ b[x].type = "L"
  <2>1. Prefix(x, Len(x)) = x /\ Len(x) \in 0..Len(x)
    BY <1>1, LeadsToItself, LeadsAs
  <2>2. /\ x \in DOMAIN a /\ x \in DOMAIN b
        /\ a[x] = Bare(Len(x) = Len(x) /\ list = TRUE) /\ b[x] = Bare(Len(x) = Len(x) /\ list = TRUE)
    BY <2>1 DEF Grafts
  <2>3. a[x].type = "L" /\ b[x].type = "L"
    BY <1>4, <2>2 DEF Bare
  <2>4. x \notin MapsOf(a, b)
    BY <1>1, <1>2, <1>4
  <2>5. x = Here \/ Front(x) \in MapsOf(a, b)
    <3>1. SUFFICES ASSUME x # Here PROVE Front(x) \in MapsOf(a, b)
      OBVIOUS
    <3>2. Len(Front(x)) = Len(x) - 1 /\ Front(x) = Prefix(x, Len(x) - 1) /\ Len(x) \in Nat \ {0}
      BY <1>1, <3>1, FrontFacts
    <3>3. Len(x) - 1 \in 0..Len(x)
      BY <3>2
    <3>4. Front(x) \in DOMAIN b
      BY <3>2, <3>3 DEF Grafts
    <3>5. Len(Front(x)) < Len(x) /\ Len(Front(x)) <= Len(x)
      BY <3>2
    <3> QED BY <1>2, <3>4, <3>5
  <2> QED BY <2>2, <2>3, <2>4, <2>5 DEF MeetOf
<1>5. ListsOf(a, b) \subseteq MeetOf(a, b)
  BY DEF ListsOf
<1>6. CASE list = TRUE
  <2>1. MeetOf(a, b) = {x}
    BY <1>3, <1>4, <1>6
  <2>2. ListsOf(a, b) = {x}
    BY <1>4, <1>6, <2>1 DEF ListsOf
  <2> QED BY <1>6, <2>1, <2>2
<1>7. CASE list # TRUE
  <2>1. MeetOf(a, b) = {}
    BY <1>3, <1>7
  <2> QED BY <1>5, <1>7, <2>1
<1> QED BY <1>6, <1>7

-----------------------------------------------------------------------------
(* Merging one path                                                        *)

ShiftsAt(g, p, x, a, list) ==
    /\ g = [i \in 1..Len(p) |-> g[i]]
    /\ \A i \in 1..Len(p) :
          g[i] = IF list = TRUE /\ i = Len(x) + 1 THEN Index(p[i].index + Cardinality(Elements(a, x)))
                 ELSE p[i]

LEMMA GraftPlaces ==
    ASSUME NEW a, NEW b, NEW x, NEW list, Grafts(a, b, x, list), NEW p \in DOMAIN b
    PROVE  ShiftsAt(PlaceOf(a, b, p), p, x, a, list)
<1>1. x \in Paths /\ Len(x) \in Nat /\ p \in Paths /\ Len(p) \in Nat
  BY PathFacts DEF Grafts
<1>2. ListsOf(a, b) = IF list = TRUE THEN {x} ELSE {}
  BY GraftLists
<1>3. PICK r : r = PlaceOf(a, b, p)
  OBVIOUS
<1>4. /\ r = [i \in 1..Len(p) |-> r[i]]
      /\ \A i \in 1..Len(p) :
            r[i] = IF \E m \in AfterOf(a, b, p) : i = Len(m) + 1
                   THEN Index(p[i].index + Cardinality(Elements(a, Prefix(p, i - 1)))) ELSE p[i]
  BY <1>3 DEF PlaceOf
<1>5. ASSUME NEW i \in 1..Len(p)
      PROVE  r[i] = IF list = TRUE /\ i = Len(x) + 1 THEN Index(p[i].index + Cardinality(Elements(a, x)))
                    ELSE p[i]
  <2>1. CASE list = TRUE /\ i = Len(x) + 1
    <3>1. Len(p) > Len(x)
      BY <1>1, <2>1
    <3>2. IsPrefix(x, p) /\ Len(x) < Len(p)
      BY <1>1, <3>1 DEF Grafts
    <3>3. x \in AfterOf(a, b, p)
      BY <1>2, <2>1, <3>2 DEF AfterOf
    <3>4. i - 1 = Len(x)
      BY <1>1, <2>1
    <3>5. Prefix(p, i - 1) = x
      BY <1>1, <3>2, <3>4, LeadsAs
    <3> QED BY <1>4, <2>1, <3>3, <3>5
  <2>2. CASE ~(list = TRUE /\ i = Len(x) + 1)
    <3>1. ~ \E m \in AfterOf(a, b, p) : i = Len(m) + 1
      BY <1>2, <2>2 DEF AfterOf
    <3> QED BY <1>4, <2>2, <3>1
  <2> QED BY <2>1, <2>2
<1>6. ShiftsAt(r, p, x, a, list)
  BY <1>4, <1>5 DEF ShiftsAt
<1> QED BY <1>3, <1>6

MergeGives(out, a, b) ==
    /\ out = [p \in DOMAIN a \union PlacedOf(a, b) |-> out[p]]
    /\ \A p \in DOMAIN b : out[PlaceOf(a, b, p)] = b[p]
    /\ \A p \in DOMAIN a \ PlacedOf(a, b) : out[p] = a[p]

LEMMA MergeShape ==
    ASSUME NEW a, NEW b, NEW x, NEW list, Grafts(a, b, x, list),
           \A p, q \in DOMAIN b : PlaceOf(a, b, p) = PlaceOf(a, b, q) => p = q
    PROVE  MergeGives(mergeAV(a, b), a, b)
<1>1. LostOf(a, b) = {}
  <2>1. MeetOf(a, b) = ListsOf(a, b)
    BY GraftLists
  <2> QED BY <2>1 DEF LostOf
<1>2. PICK out : out = mergeAV(a, b)
  OBVIOUS
<1>3. PICK D, T : D = DOMAIN a /\ T = PlacedOf(a, b)
  OBVIOUS
<1>4. out = [p \in D \union T |-> IF p \in T THEN b[FromOf(a, b, p)] ELSE a[p]]
  <2>1. out = [p \in (D \ LostOf(a, b)) \union T |-> IF p \in T THEN b[FromOf(a, b, p)] ELSE a[p]]
    BY <1>2, <1>3, MergeIs
  <2>2. (D \ LostOf(a, b)) \union T = D \union T
    BY <1>1
  <2> QED BY <2>1, <2>2
<1>5. out = [p \in D \union T |-> out[p]] /\ \A p \in D \ T : out[p] = a[p]
  BY <1>4
<1>6. ASSUME NEW p \in DOMAIN b PROVE out[PlaceOf(a, b, p)] = b[p]
  <2>1. PICK r : r = PlaceOf(a, b, p)
    OBVIOUS
  <2>2. r \in T
    BY <1>3, <2>1 DEF PlacedOf
  <2>3. FromOf(a, b, r) \in DOMAIN b /\ PlaceOf(a, b, FromOf(a, b, r)) = r
    BY <2>1 DEF FromOf
  <2>4. FromOf(a, b, r) = p
    BY <2>1, <2>3
  <2> QED BY <1>4, <2>1, <2>2, <2>4
<1> QED BY <1>2, <1>3, <1>5, <1>6 DEF MergeGives

LEMMA StepIs == \A s \in Steps : s.isIdx \in BOOLEAN
BY DEF Steps

LEMMA TrailGrafts ==
    ASSUME NEW at, NEW K, NEW P, NEW d, Leaves(at, K, P, d),
           NEW a, Shows(a, at, K), NEW b, Shows(b, at, Trail(at, P))
    PROVE  Grafts(a, b, Prefix(P, d), P[d + 1].isIdx)
<1>1. PICK x, Q, e : x = Prefix(P, d) /\ Q = Trail(at, P) /\ e = P[d + 1]
  OBVIOUS
<1>2. /\ P \in Paths /\ Len(P) \in Nat /\ d \in Nat /\ x \in Paths /\ Len(x) = d /\ e \in Steps
      /\ d + 1 \in 1..Len(P) /\ d \in 0..Len(P)
      /\ \A i \in 1..d : x[i] = P[i]
  BY <1>1, LeavesFacts
<1>3. IsValue(at) /\ Rooting(K) /\ K \subseteq DOMAIN at /\ K \subseteq Paths /\ P \in DOMAIN at /\ x \in K
  BY <1>1 DEF Leaves, Rooting
<1>4. Rooting(Q) /\ Q \subseteq DOMAIN at /\ Q \subseteq Paths
  BY <1>1, <1>2, <1>3, TrailLed DEF Rooting
<1>5. DOMAIN a = {Ranked(K, q) : q \in K} /\ DOMAIN b = {Ranked(Q, q) : q \in Q}
  BY <1>1 DEF Shows
<1>6. DOMAIN a \subseteq Paths /\ DOMAIN b \subseteq Paths
  BY <1>3, <1>4, <1>5, RankedFacts
<1>7. \A i \in 1..Len(x) : ~x[i].isIdx
  BY <1>2 DEF Leaves
<1>8. ASSUME NEW n \in 0..Len(x)
      PROVE  /\ Prefix(x, n) \in DOMAIN a \intersect DOMAIN b
             /\ a[Prefix(x, n)] = Bare(n = Len(x) /\ e.isIdx = TRUE)
             /\ b[Prefix(x, n)] = Bare(n = Len(x) /\ e.isIdx = TRUE)
  <2>1. PICK y : y = Prefix(x, n)
    OBVIOUS
  <2>2. y \in Paths /\ Len(y) = n /\ \A i \in 1..n : y[i] = x[i]
    BY <1>2, <2>1, PrefixFacts
  <2>3. IsPrefix(y, x) /\ IsPrefix(x, P)
    BY <1>1, <1>2, <2>1, PrefixLeads
  <2>4. IsPrefix(y, P)
    BY <1>2, <2>2, <2>3, LeadsOn
  <2>5. y \in K /\ y \in Q
    <3>1. y \in K
      BY <1>3, <2>2, <2>3 DEF Rooting
    <3> QED BY <1>1, <1>3, <2>4, <3>1 DEF Trail
  <2>6. \A i \in 1..Len(y) : ~y[i].isIdx
    BY <1>2, <1>7, <2>2
  <2>7. Ranked(K, y) = y /\ Ranked(Q, y) = y
    BY <2>2, <2>6, NamesAlone
  <2>8. y \in DOMAIN a /\ y \in DOMAIN b /\ a[y] = at[y] /\ b[y] = at[y]
    BY <1>1, <1>5, <2>5, <2>7 DEF Shows
  <2>9. at[y] = Bare(n = Len(x) /\ e.isIdx = TRUE)
    <3>1. PICK j \in 1..Len(P) : j = n + 1 /\ j - 1 = n
      BY <1>2
    <3>2. y = Prefix(P, n)
      BY <1>2, <2>2, <2>4, LeadsAs
    <3>3. at[Prefix(P, j - 1)].type = IF P[j].isIdx THEN "L" ELSE "M"
      BY <1>3, <3>1, TreeStep
    <3>4. PICK node \in Node : node = at[y]
      BY <1>3, <2>5 DEF IsValue
    <3>5. node.type = IF P[j].isIdx THEN "L" ELSE "M"
      BY <3>1, <3>2, <3>3, <3>4
    <3>6. node = Bare(node.type = "L")
      BY <3>5, BareNodes
    <3>7. node.type = "L" <=> (n = Len(x) /\ e.isIdx = TRUE)
      <4>1. CASE n = Len(x)
        <5>1. P[j] = e /\ e.isIdx \in BOOLEAN
          BY <1>1, <1>2, <3>1, <4>1, StepIs
        <5> QED BY <3>5, <4>1, <5>1
      <4>2. CASE n # Len(x)
        <5>1. j \in 1..d
          BY <1>2, <3>1, <4>2
        <5>2. ~P[j].isIdx
          BY <5>1 DEF Leaves
        <5> QED BY <3>5, <4>2, <5>2
      <4> QED BY <4>1, <4>2
    <3>8. Bare(node.type = "L") = Bare(n = Len(x) /\ e.isIdx = TRUE)
      BY <3>7 DEF Bare
    <3> QED BY <3>4, <3>6, <3>8
  <2> QED BY <2>1, <2>8, <2>9
<1>9. ASSUME NEW p \in DOMAIN b, Len(p) > Len(x)
      PROVE  IsPrefix(x, p) /\ (e.isIdx # TRUE => p \notin DOMAIN a)
  <2>1. PICK q \in Q : p = Ranked(Q, q)
    BY <1>5
  <2>2. q \in Paths /\ Len(p) = Len(q) /\ p \in Paths
    BY <1>4, <2>1, RankedFacts
  <2>3. d < Len(q)
    BY <1>2, <1>9, <2>2, PathFacts
  <2>4. IsPrefix(x, q) /\ IsPrefix(Slot(x, e), q)
    BY <1>1, <2>3, LeavesAt
  <2>5. IsPrefix(x, p)
    BY <1>2, <1>7, <2>1, <2>2, <2>4, NamesLead
  <2>6. ASSUME e.isIdx # TRUE, p \in DOMAIN a PROVE FALSE
    <3>1. PICK y \in K : p = Ranked(K, y)
      BY <1>5, <2>6
    <3>2. PICK s : s = Slot(x, e)
      OBVIOUS
    <3>3. /\ s \in Paths /\ Len(s) = d + 1 /\ s[d + 1] = e /\ \A i \in 1..d : s[i] = x[i]
      BY <1>2, <3>2, SlotFacts
    <3>4. ~e.isIdx
      BY <1>2, <2>6, StepIs
    <3>5. \A i \in 1..Len(s) : ~s[i].isIdx
      <4> SUFFICES ASSUME NEW i \in 1..Len(s) PROVE ~s[i].isIdx
        OBVIOUS
      <4>1. i = d + 1 \/ i \in 1..d
        BY <1>2, <3>3
      <4> QED BY <1>2, <1>7, <3>3, <3>4, <4>1
    <3>6. IsPrefix(s, p)
      BY <2>1, <2>2, <2>4, <3>2, <3>3, <3>5, NamesLead
    <3>7. y \in Paths /\ IsPrefix(s, y)
      BY <1>3, <3>1, <3>3, <3>5, <3>6, NamesLead
    <3>8. s \in K
      BY <1>3, <3>3, <3>7 DEF Rooting
    <3> QED BY <1>1, <3>2, <3>8 DEF Leaves
  <2> QED BY <2>5, <2>6
<1>10. ASSUME NEW p \in DOMAIN b, Len(p) <= Len(x) PROVE p = Prefix(x, Len(p))
  <2>1. PICK q \in Q : p = Ranked(Q, q)
    BY <1>5
  <2>2. q \in Paths /\ Len(p) = Len(q) /\ p \in Paths
    BY <1>4, <2>1, RankedFacts
  <2>3. Len(q) <= d /\ Len(q) \in Nat
    BY <1>2, <1>10, <2>2, PathFacts
  <2>4. q = Prefix(P, Len(q)) /\ \A i \in 1..Len(q) : ~q[i].isIdx
    BY <1>1, <2>3, LeavesAt
  <2>5. p = q
    BY <2>1, <2>2, <2>4, NamesAlone
  <2>6. PICK n \in 0..d : n = Len(q) /\ n \in 0..Len(P) /\ n \in 0..Len(x)
    BY <1>2, <2>3
  <2>7. Prefix(P, n) = Prefix(x, n)
    <3>1. Prefix(P, n) \in Paths /\ Len(Prefix(P, n)) = n /\ \A i \in 1..n : Prefix(P, n)[i] = P[i]
      BY <1>2, <2>6, PrefixFacts
    <3>2. Prefix(x, n) \in Paths /\ Len(Prefix(x, n)) = n /\ \A i \in 1..n : Prefix(x, n)[i] = x[i]
      BY <1>2, <2>6, PrefixFacts
    <3>3. \A i \in 1..n : P[i] = x[i]
      BY <1>2, <2>6
    <3> QED BY <3>1, <3>2, <3>3, SamePath
  <2> QED BY <2>4, <2>5, <2>6, <2>7
<1>11. Grafts(a, b, x, e.isIdx)
  BY <1>2, <1>6, <1>8, <1>9, <1>10 DEF Grafts
<1> QED BY <1>1, <1>11

-----------------------------------------------------------------------------
(* One path after the other                                                *)

LEMMA WiderRooting ==
    ASSUME NEW at, NEW K, NEW P, NEW d, Leaves(at, K, P, d)
    PROVE  Rooting(Wider(K, at, P)) /\ Wider(K, at, P) \subseteq DOMAIN at
<1>1. IsValue(at) /\ Rooting(K) /\ K \subseteq DOMAIN at /\ P \in Paths
  BY LeavesFacts DEF Leaves
<1>2. Rooting(Trail(at, P)) /\ Trail(at, P) \subseteq DOMAIN at
  BY <1>1, TrailLed
<1> QED BY <1>1, <1>2 DEF Rooting, Wider

LEMMA MergedPlace ==
    ASSUME NEW at, NEW K, NEW P, NEW d, Leaves(at, K, P, d),
           NEW a, Shows(a, at, K), NEW b, Shows(b, at, Trail(at, P)), NEW q \in Trail(at, P)
    PROVE  PlaceOf(a, b, Ranked(Trail(at, P), q)) = Ranked(Wider(K, at, P), q)
<1>1. PICK r, s : r = Ranked(Wider(K, at, P), q) /\ s = Ranked(Trail(at, P), q)
  OBVIOUS
<1>2. PICK x, e : x = Prefix(P, d) /\ e = P[d + 1]
  OBVIOUS
<1>3. Len(x) = d /\ d \in Nat /\ e \in Steps
  BY <1>2, LeavesFacts
<1>4. PICK c : c = Rank(K, Prefix(P, d), P[d + 1].index)
  OBVIOUS
<1>5. /\ r \in Paths /\ s \in Paths /\ Len(r) = Len(q) /\ Len(s) = Len(q)
      /\ \A i \in 1..Len(q) :
           r[i] = IF i = d + 1 /\ e.isIdx THEN Index(s[i].index + c) ELSE s[i]
  BY <1>1, <1>2, <1>4, NewPlace
<1>6. Grafts(a, b, x, e.isIdx)
  BY <1>2, TrailGrafts
<1>7. s \in DOMAIN b
  BY <1>1 DEF Shows
<1>8. PICK g : g = PlaceOf(a, b, s)
  OBVIOUS
<1>9. /\ g = [i \in 1..Len(s) |-> g[i]]
      /\ \A i \in 1..Len(s) :
            g[i] = IF e.isIdx = TRUE /\ i = Len(x) + 1 THEN Index(s[i].index + Cardinality(Elements(a, x)))
                   ELSE s[i]
  <2>1. ShiftsAt(g, s, x, a, e.isIdx)
    BY <1>6, <1>7, <1>8, GraftPlaces
  <2> QED BY <2>1 DEF ShiftsAt
<1>10. e.isIdx \in BOOLEAN
  BY <1>3, StepIs
<1>11. e.isIdx => Cardinality(Elements(a, x)) = c
  <2>1. ASSUME P[d + 1].isIdx PROVE Cardinality(Elements(a, Prefix(P, d))) = Rank(K, Prefix(P, d), P[d + 1].index)
    BY <2>1, ElementsCount
  <2> QED BY <1>2, <1>4, <2>1
<1>12. \A i \in 1..Len(s) : g[i] = r[i]
  BY <1>3, <1>5, <1>9, <1>10, <1>11
<1>13. g = [i \in 1..Len(r) |-> r[i]]
  BY <1>5, <1>9, <1>12
<1>14. r = [i \in 1..Len(r) |-> r[i]]
  BY <1>5, PathFacts
<1> QED BY <1>1, <1>8, <1>13, <1>14

(* A merge shows what was shown and one path more.                         *)
LEMMA MergeShows ==
    ASSUME NEW at, NEW K, NEW P, NEW d, Leaves(at, K, P, d), NEW a, Shows(a, at, K)
    PROVE  Shows(mergeAV(a, wrapPath(at, P)), at, Wider(K, at, P))
<1>1. PICK b, Q, W : b = wrapPath(at, P) /\ Q = Trail(at, P) /\ W = Wider(K, at, P)
  OBVIOUS
<1>2. IsValue(at) /\ P \in DOMAIN at
  BY DEF Leaves
<1>3. Shows(b, at, Q)
  BY <1>1, <1>2, WrapShows
<1>4. Rooting(W) /\ W = K \union Q
  BY <1>1, WiderRooting DEF Wider
<1>5. Grafts(a, b, Prefix(P, d), P[d + 1].isIdx)
  BY <1>1, <1>3, TrailGrafts
<1>6. \A q \in Q : PlaceOf(a, b, Ranked(Q, q)) = Ranked(W, q)
  BY <1>1, <1>3, MergedPlace
<1>7. \A q \in K : Ranked(W, q) = Ranked(K, q)
  BY <1>1, KeepsPlace
<1>8. DOMAIN a = {Ranked(K, q) : q \in K} /\ DOMAIN b = {Ranked(Q, q) : q \in Q}
  BY <1>3 DEF Shows
<1>9. ASSUME NEW p \in DOMAIN b, NEW r \in DOMAIN b, PlaceOf(a, b, p) = PlaceOf(a, b, r) PROVE p = r
  <2>1. PICK q \in Q, s \in Q : p = Ranked(Q, q) /\ r = Ranked(Q, s)
    BY <1>8
  <2>2. Ranked(W, q) = Ranked(W, s)
    BY <1>6, <1>9, <2>1
  <2>3. q \in W /\ s \in W
    BY <1>4
  <2>4. q = s
    BY <1>4, <2>2, <2>3, RankedOnce
  <2> QED BY <2>1, <2>4
<1>10. PICK out : out = mergeAV(a, b)
  OBVIOUS
<1>11. MergeGives(out, a, b)
  BY <1>5, <1>9, <1>10, MergeShape
<1>12. PlacedOf(a, b) = {Ranked(W, q) : q \in Q}
  BY <1>6, <1>8 DEF PlacedOf
<1>13. DOMAIN a \union PlacedOf(a, b) = {Ranked(W, q) : q \in W}
  BY <1>4, <1>7, <1>8, <1>12
<1>14. out = [p \in {Ranked(W, q) : q \in W} |-> out[p]]
  BY <1>11, <1>13 DEF MergeGives
<1>15. ASSUME NEW q \in W PROVE out[Ranked(W, q)] = at[q]
  <2>1. CASE q \in Q
    <3>1. Ranked(Q, q) \in DOMAIN b /\ b[Ranked(Q, q)] = at[q]
      BY <1>3, <1>8, <2>1 DEF Shows
    <3>2. out[PlaceOf(a, b, Ranked(Q, q))] = b[Ranked(Q, q)]
      BY <1>11, <3>1 DEF MergeGives
    <3> QED BY <1>6, <2>1, <3>1, <3>2
  <2>2. CASE q \notin Q
    <3>1. q \in K
      BY <1>4, <2>2
    <3>2. Ranked(W, q) \notin PlacedOf(a, b)
      <4>1. SUFFICES ASSUME NEW s \in Q, Ranked(W, q) = Ranked(W, s) PROVE FALSE
        BY <1>12
      <4>2. s \in W
        BY <1>4
      <4>3. q = s
        BY <1>4, <4>1, <4>2, RankedOnce
      <4> QED BY <2>2, <4>3
    <3>3. Ranked(W, q) \in DOMAIN a /\ a[Ranked(W, q)] = at[q]
      <4>1. a[Ranked(K, q)] = at[q] /\ Ranked(K, q) \in DOMAIN a
        BY <1>8, <3>1 DEF Shows
      <4>2. Ranked(W, q) = Ranked(K, q)
        BY <1>7, <3>1
      <4> QED BY <4>1, <4>2
    <3> QED BY <1>11, <3>2, <3>3 DEF MergeGives
  <2> QED BY <2>1, <2>2
<1>16. Shows(out, at, W)
  BY <1>14, <1>15 DEF Shows
<1> QED BY <1>1, <1>10, <1>16

(* The paths among the first n that lead to something.                     *)
Found(at, paths, n) == {p \in {paths[i] : i \in 1..n} : p \in DOMAIN at}
LedUpTo(at, paths, n) == Led(at, Found(at, paths, n))

LEMMA OrderlyLeaves ==
    ASSUME NEW at, IsValue(at), NEW paths \in Seq(AttributePaths), Orderly(paths),
           NEW n \in 1..Len(paths), paths[n] \in DOMAIN at
    PROVE  \E d : Leaves(at, LedUpTo(at, paths, n - 1), paths[n], d)
<1>1. PICK P, F, K : P = paths[n] /\ F = Found(at, paths, n - 1) /\ K = LedUpTo(at, paths, n - 1)
  OBVIOUS
<1>2. Len(paths) \in Nat /\ \A i \in 1..Len(paths) : paths[i] \in AttributePaths
  BY ElementOfSeq, LenProperties
<1>3. P \in Paths /\ P # Here /\ P \in DOMAIN at /\ Len(P) \in Nat \ {0}
  <2>1. P \in AttributePaths
    BY <1>1, <1>2
  <2> QED BY <1>1, <2>1, PathFacts DEF AttributePaths, Here
<1>4. F \subseteq Paths /\ F \subseteq DOMAIN at
  BY <1>1 DEF IsValue, IsTree, Found
<1>5. Rooting(K) /\ K \subseteq DOMAIN at /\ K = Led(at, F)
  <2>1. K = Led(at, F)
    BY <1>1 DEF LedUpTo
  <2> QED BY <1>4, <2>1, LedRooting
(* Of a path before P: they do not overlap, and at a common list it is     *)
(* lower.                                                                  *)
<1>6. ASSUME NEW p \in F
      PROVE  /\ ~IsPrefix(p, P) /\ ~IsPrefix(P, p)
             /\ \A m \in 1..Len(p) :
                   m <= Len(P) /\ Prefix(p, m - 1) = Prefix(P, m - 1) /\ p[m].isIdx /\ P[m].isIdx
                   => p[m].index < P[m].index
  <2>1. PICK k \in 1..(n - 1) : p = paths[k]
    BY <1>1 DEF Found
  <2>2. k \in 1..Len(paths) /\ k < n
    BY <1>2
  <2>3. /\ ~pathsOverlap(paths[k], paths[n])
        /\ \A m \in 1..Len(paths[k]) :
              m <= Len(paths[n]) /\ Prefix(paths[k], m - 1) = Prefix(paths[n], m - 1)
              /\ paths[k][m].isIdx /\ paths[n][m].isIdx
              => paths[k][m].index < paths[n][m].index
    BY <2>2 DEF Orderly
  <2> QED BY <1>1, <2>1, <2>3 DEF pathsOverlap
<1>7. P \notin K
  BY <1>3, <1>5, <1>6 DEF Led
<1> DEFINE off == {j \in 0..Len(P) : Prefix(P, j) \notin K}
<1>8. PICK l \in off : \A j \in off : l <= j
  <2>1. Len(P) \in 0..Len(P) /\ Prefix(P, Len(P)) = P
    BY <1>3, LeadsToItself, LeadsAs
  <2>2. Len(P) \in off
    BY <1>7, <2>1
  <2>3. off # {}
    BY <2>2
  <2>4. off \in SUBSET Nat
    OBVIOUS
  <2> HIDE DEF off
  <2> QED BY <2>3, <2>4, Least
<1>9. l \in 0..Len(P) /\ Prefix(P, l) \notin K /\ \A j \in 0..(l - 1) : Prefix(P, j) \in K
  <2>1. l \in 0..Len(P) /\ Prefix(P, l) \notin K
    OBVIOUS
  <2>2. ASSUME NEW j \in 0..(l - 1) PROVE Prefix(P, j) \in K
    <3>1. j \in 0..Len(P) /\ ~(l <= j)
      BY <1>3, <2>1
    <3>2. j \notin off
      BY <1>8, <3>1
    <3> QED BY <3>1, <3>2
  <2> QED BY <2>1, <2>2
<1> HIDE DEF off
<1>10. l # 0
  <2>1. Prefix(P, 0) = Here
    BY <1>3, PrefixFacts, PathFacts
  <2> QED BY <1>5, <1>9, <2>1 DEF Rooting
<1>11. PICK d \in 0..(Len(P) - 1) : d = l - 1 /\ d + 1 = l
  BY <1>3, <1>9, <1>10
<1>12. Prefix(P, d) \in K
  BY <1>9, <1>11
<1>13. Slot(Prefix(P, d), P[d + 1]) = Prefix(P, d + 1)
  <2>1. PICK x : x = Prefix(P, d)
    OBVIOUS
  <2>2. /\ x \in Paths /\ Len(x) = d /\ IsPrefix(x, P) /\ P[d + 1] \in Steps
        /\ d + 1 \in 1..Len(P) /\ Len(x) < Len(P)
    <3>1. d \in 0..Len(P) /\ d + 1 \in 1..Len(P)
      BY <1>3
    <3> QED BY <1>3, <2>1, <3>1, PrefixFacts, PrefixLeads, PathFacts
  <2>3. PICK s : s = Slot(x, P[d + 1])
    OBVIOUS
  <2>4. s \in Paths /\ Len(s) = d + 1
    BY <2>2, <2>3, SlotFacts
  <2>5. IsPrefix(s, P)
    BY <1>3, <2>2, <2>3, StepLeads DEF Slot
  <2>6. s = Prefix(P, Len(s))
    BY <1>3, <2>4, <2>5, LeadsAs
  <2> QED BY <2>1, <2>3, <2>4, <2>6
(* A step of P to an element beside one of K.                              *)
<1>14. ASSUME NEW i \in 1..(d + 1), NEW e \in Steps, Slot(Prefix(P, i - 1), e) \in K, e.isIdx, P[i].isIdx
       PROVE  e.index < P[i].index
  <2>1. PICK x : x = Prefix(P, i - 1)
    OBVIOUS
  <2>2. x \in Paths /\ Len(x) = i - 1 /\ IsPrefix(x, P) /\ i \in 1..Len(P)
    <3>1. i - 1 \in 0..Len(P) /\ i \in 1..Len(P)
      BY <1>3
    <3> QED BY <1>3, <2>1, <3>1, PrefixFacts, PrefixLeads
  <2>3. PICK s : s = Slot(x, e)
    OBVIOUS
  <2>4. s \in Paths /\ s # Here /\ Len(s) = i /\ s[i] = e
    <3>1. s \in Paths /\ s # Here /\ Len(s) = Len(x) + 1 /\ s[Len(x) + 1] = e
      BY <2>2, <2>3, SlotFacts
    <3>2. Len(x) + 1 = i
      BY <2>2
    <3> QED BY <3>1, <3>2
  <2>5. PICK p \in F : IsPrefix(p, s) \/ IsPrefix(s, p)
    BY <1>5, <1>14, <2>1, <2>3, <2>4 DEF Led
  <2>6. p \in Paths /\ Len(p) \in Nat /\ IsPrefix(x, s)
    BY <1>4, <2>2, <2>3, <2>4, PathFacts, LeadsToItself, StepLeads DEF Slot
  <2>7. IsPrefix(s, p)
    <3>1. SUFFICES ASSUME IsPrefix(p, s) PROVE IsPrefix(s, p)
      BY <2>5
    <3>2. ~(Len(p) <= Len(x))
      <4> SUFFICES ASSUME Len(p) <= Len(x) PROVE FALSE
        OBVIOUS
      <4>1. IsPrefix(p, x)
        BY <2>2, <2>4, <2>6, <3>1, BothLead
      <4>2. IsPrefix(p, P)
        BY <1>3, <2>2, <2>6, <4>1, LeadsOn
      <4> QED BY <1>6, <4>2
    <3>3. Len(s) <= Len(p)
      BY <2>2, <2>4, <2>6, <3>2
    <3>4. IsPrefix(s, s)
      BY <2>4, LeadsToItself
    <3> QED BY <2>4, <2>6, <3>1, <3>3, <3>4, BothLead
  <2>8. IsPrefix(x, p) /\ i \in 1..Len(p) /\ p[i] = e
    <3>1. IsPrefix(x, p)
      BY <2>2, <2>4, <2>6, <2>7, LeadsOn
    <3>2. Len(s) <= Len(p) /\ \A j \in 1..Len(s) : p[j] = s[j]
      BY <2>4, <2>6, <2>7, LeadsPointwise
    <3> QED BY <2>4, <2>6, <3>1, <3>2
  <2>9. Prefix(p, i - 1) = Prefix(P, i - 1)
    <3>1. x = Prefix(p, Len(x))
      BY <2>2, <2>6, <2>8, LeadsAs
    <3> QED BY <2>1, <2>2, <3>1
  <2>10. i <= Len(P)
    BY <2>2
  <2> QED BY <1>6, <1>14, <2>8, <2>9, <2>10
<1>15. ASSUME NEW i \in 1..d, P[i].isIdx PROVE FALSE
  <2>1. i \in 1..Len(P) /\ i \in 1..(d + 1) /\ i \in 0..Len(P) /\ i \in 0..(l - 1)
    BY <1>3, <1>11
  <2>2. PICK e \in Steps : e = P[i] /\ e.index \in Nat
    BY <1>3, <2>1, PathFacts, StepIndex
  <2>3. Slot(Prefix(P, i - 1), e) \in K
    <3>1. Prefix(P, i) \in K
      BY <1>9, <2>1
    <3>2. IsPrefix(Slot(Prefix(P, i - 1), P[i]), P)
      BY <1>3, <2>1, PrefixStep
    <3>3. Prefix(P, i - 1) \in Paths /\ Len(Prefix(P, i - 1)) = i - 1
      BY <1>3, <2>1, PrefixStep
    <3>4. PICK s : s = Slot(Prefix(P, i - 1), P[i])
      OBVIOUS
    <3>5. s \in Paths /\ Len(s) = Len(Prefix(P, i - 1)) + 1
      BY <2>2, <3>3, <3>4, SlotFacts
    <3>6. Len(s) = i
      BY <2>1, <3>3, <3>5
    <3>7. s = Prefix(P, i)
      BY <1>3, <3>2, <3>4, <3>5, <3>6, LeadsAs
    <3> QED BY <2>2, <3>1, <3>4, <3>7
  <2>4. e.index < P[i].index
    BY <1>14, <1>15, <2>1, <2>2, <2>3
  <2> QED BY <2>2, <2>4
<1>16. ASSUME P[d + 1].isIdx, NEW m \in Nat, Slot(Prefix(P, d), Index(m)) \in K PROVE m < P[d + 1].index
  <2>1. PICK i \in 1..(d + 1) : i = d + 1 /\ i - 1 = d
    OBVIOUS
  <2>2. PICK e \in Steps : e = Index(m) /\ e.isIdx /\ e.index = m
    BY IndexStep, IndexIs
  <2>3. e.index < P[i].index
    BY <1>14, <1>16, <2>1, <2>2
  <2> QED BY <2>1, <2>2, <2>3
<1>17. Leaves(at, K, P, d)
  <2>1. Slot(Prefix(P, d), P[d + 1]) \notin K
    BY <1>9, <1>11, <1>13
  <2> QED BY <1>3, <1>5, <1>12, <1>15, <1>16, <2>1 DEF Leaves
<1> QED BY <1>1, <1>17

-----------------------------------------------------------------------------
(* Path by path                                                            *)

ProjectStep(out, at, P) == IF P \in DOMAIN at THEN mergeAV(out, wrapPath(at, P)) ELSE out

Projected(f, at, paths, n) ==
    f = [k \in 0..n |-> IF k = 0 THEN Root ELSE ProjectStep(f[k - 1], at, paths[k])]

LEMMA ProjectedExists ==
    ASSUME NEW n \in Nat, NEW at, NEW paths
    PROVE  \E f : Projected(f, at, paths, n)
<1> DEFINE S == {m \in 0..n : ~\E f : Projected(f, at, paths, m)}
<1> SUFFICES ASSUME S # {} PROVE FALSE
  <2>1. n \in 0..n
    OBVIOUS
  <2> QED BY <2>1
<1>1. PICK m \in S : \A j \in S : m <= j
  <2>1. S \in SUBSET Nat
    OBVIOUS
  <2> HIDE DEF S
  <2> QED BY <2>1, Least
<1>2. m \in 0..n /\ ~\E f : Projected(f, at, paths, m)
  OBVIOUS
<1>3. CASE m = 0
  <2> DEFINE f == [k \in 0..0 |-> Root]
  <2>1. f = [k \in 0..0 |-> IF k = 0 THEN Root ELSE ProjectStep(f[k - 1], at, paths[k])]
    OBVIOUS
  <2> HIDE DEF f
  <2>2. Projected(f, at, paths, m)
    BY <1>3, <2>1 DEF Projected
  <2> QED BY <1>2, <2>2
<1>4. CASE m # 0
  <2>1. m - 1 \in 0..n /\ ~(m <= m - 1)
    BY <1>2, <1>4
  <2>2. m - 1 \notin S
    <3> HIDE DEF S
    <3> QED BY <1>1, <2>1
  <2>3. PICK g : Projected(g, at, paths, m - 1)
    BY <2>1, <2>2
  <2> DEFINE f == [k \in 0..m |-> IF k = m THEN ProjectStep(g[m - 1], at, paths[m]) ELSE g[k]]
  <2>4. ASSUME NEW k \in 0..m
        PROVE  f[k] = IF k = 0 THEN Root ELSE ProjectStep(f[k - 1], at, paths[k])
    <3>1. CASE k = m
      <4>1. k - 1 \in 0..m /\ k - 1 # m /\ k # 0
        BY <1>2, <1>4, <3>1
      <4>2. f[k - 1] = g[k - 1] /\ f[k] = ProjectStep(g[m - 1], at, paths[m])
        BY <3>1, <4>1
      <4> QED BY <3>1, <4>1, <4>2
    <3>2. CASE k # m
      <4>1. k \in 0..(m - 1) /\ f[k] = g[k]
        BY <1>2, <1>4, <3>2
      <4>2. g[k] = IF k = 0 THEN Root ELSE ProjectStep(g[k - 1], at, paths[k])
        BY <2>3, <4>1 DEF Projected
      <4>3. k # 0 => f[k - 1] = g[k - 1]
        <5>1. k # 0 => k - 1 \in 0..m /\ k - 1 # m
          BY <1>2, <3>2, <4>1
        <5> QED BY <5>1
      <4> QED BY <4>1, <4>2, <4>3
    <3> QED BY <3>1, <3>2
  <2>5. f = [k \in 0..m |-> f[k]]
    OBVIOUS
  <2> HIDE DEF f
  <2>6. Projected(f, at, paths, m)
    BY <2>4, <2>5 DEF Projected
  <2> QED BY <1>2, <2>6
<1> QED BY <1>3, <1>4

LEMMA ProjectIs ==
    ASSUME NEW at, NEW paths, Len(paths) \in Nat
    PROVE  \E f : Projected(f, at, paths, Len(paths)) /\ projectItem(at, paths) = f[Len(paths)]
<1> DEFINE n == Len(paths)
           out == CHOOSE f : f = [k \in 0..n |->
                      IF k = 0 THEN Root
                      ELSE IF paths[k] \in DOMAIN at THEN mergeAV(f[k - 1], wrapPath(at, paths[k]))
                      ELSE f[k - 1]]
<1>1. projectItem(at, paths) = out[n]
  BY DEF projectItem
<1>2. out = CHOOSE f : Projected(f, at, paths, n)
  BY DEF Projected, ProjectStep
<1> HIDE DEF out
<1>3. Projected(out, at, paths, n)
  BY <1>2, ProjectedExists
<1> QED BY <1>1, <1>3

(* Before the first path an item shows its root.                           *)
LEMMA RootShows ==
    ASSUME NEW at, IsValue(at), at[Here].type = "M", NEW paths
    PROVE  Shows(Root, at, LedUpTo(at, paths, 0))
<1>1. Here \in DOMAIN at /\ Here \in Paths /\ at[Here] \in Node
  BY HereLeads DEF IsValue, IsTree
<1>2. PICK K : K = LedUpTo(at, paths, 0)
  OBVIOUS
<1>3. K = {Here}
  <2>1. Found(at, paths, 0) = {}
    BY DEF Found
  <2> QED BY <1>1, <1>2, <2>1 DEF LedUpTo, Led
<1>4. Ranked(K, Here) = Here
  <2>1. \A i \in 1..Len(Here) : ~Here[i].isIdx
    BY DEF Here
  <2> QED BY <1>1, <2>1, NamesAlone
<1>5. at[Here] = [type |-> "M"]
  BY <1>1, BareNodes DEF Bare
<1>6. {Ranked(K, q) : q \in K} = {Here}
  BY <1>3, <1>4
<1>7. Root[Here] = at[Here] /\ Root = [p \in {Here} |-> Root[p]]
  BY <1>5 DEF Root, Scalar
<1> QED BY <1>2, <1>3, <1>4, <1>6, <1>7 DEF Shows

LEMMA LedStep ==
    ASSUME NEW at, NEW paths, NEW n \in Nat \ {0}
    PROVE  LedUpTo(at, paths, n) =
               IF paths[n] \in DOMAIN at THEN Wider(LedUpTo(at, paths, n - 1), at, paths[n])
               ELSE LedUpTo(at, paths, n - 1)
<1>1. PICK F, G, P : F = Found(at, paths, n) /\ G = Found(at, paths, n - 1) /\ P = paths[n]
  OBVIOUS
<1>2. F = IF P \in DOMAIN at THEN G \union {P} ELSE G
  <2>1. ASSUME NEW p PROVE (\E i \in 1..n : p = paths[i]) <=> (p = P \/ \E i \in 1..(n - 1) : p = paths[i])
    <3>1. \A i \in 1..n : i = n \/ i \in 1..(n - 1)
      OBVIOUS
    <3>2. n \in 1..n /\ \A i \in 1..(n - 1) : i \in 1..n
      OBVIOUS
    <3> QED BY <1>1, <3>1, <3>2
  <2>2. ASSUME NEW p PROVE p \in F <=> p \in DOMAIN at /\ (p = P \/ \E i \in 1..(n - 1) : p = paths[i])
    BY <1>1, <2>1 DEF Found
  <2>3. ASSUME NEW p PROVE p \in G <=> p \in DOMAIN at /\ \E i \in 1..(n - 1) : p = paths[i]
    BY <1>1 DEF Found
  <2> QED BY <2>2, <2>3
<1>3. LedUpTo(at, paths, n) = Led(at, F) /\ LedUpTo(at, paths, n - 1) = Led(at, G)
  BY <1>1 DEF LedUpTo
<1>4. Led(at, G \union {P}) = Wider(Led(at, G), at, P)
  BY DEF Led, Wider, Trail
<1> QED BY <1>1, <1>2, <1>3, <1>4

LEMMA ProjectShows ==
    ASSUME NEW at, IsValue(at), at[Here].type = "M",
           NEW paths \in Seq(AttributePaths), Orderly(paths)
    PROVE  Shows(projectItem(at, paths), at, LedUpTo(at, paths, Len(paths)))
<1>1. Len(paths) \in Nat
  BY LenProperties
<1>2. PICK n \in Nat : n = Len(paths)
  BY <1>1
<1>3. PICK f : Projected(f, at, paths, n) /\ projectItem(at, paths) = f[n]
  BY <1>1, <1>2, ProjectIs
<1> DEFINE good(k) == Shows(f[k], at, LedUpTo(at, paths, k))
           S == {k \in 0..n : ~good(k)}
<1>4. S = {}
  <2> SUFFICES ASSUME S # {} PROVE FALSE
    OBVIOUS
  <2>1. PICK m \in S : \A j \in S : m <= j
    <3> HIDE DEF good
    <3>1. S \in SUBSET Nat
      OBVIOUS
    <3> HIDE DEF S
    <3> QED BY <3>1, Least
  <2>2. m \in 0..n /\ ~good(m)
    OBVIOUS
  <2>3. f[m] = IF m = 0 THEN Root ELSE ProjectStep(f[m - 1], at, paths[m])
    BY <1>3, <2>2 DEF Projected
  <2>4. m # 0
    <3> SUFFICES ASSUME m = 0 PROVE FALSE
      OBVIOUS
    <3>1. Shows(Root, at, LedUpTo(at, paths, 0))
      BY RootShows
    <3> QED BY <2>2, <2>3, <3>1
  <2>5. m - 1 \in 0..n /\ ~(m <= m - 1) /\ m \in 1..n /\ m \in Nat \ {0}
    BY <2>2, <2>4
  <2>6. good(m - 1)
    <3>1. m - 1 \notin S
      <4> HIDE DEF S
      <4> QED BY <2>1, <2>5
    <3> QED BY <2>5, <3>1
  <2>7. PICK K, P, out : K = LedUpTo(at, paths, m - 1) /\ P = paths[m] /\ out = f[m - 1]
    OBVIOUS
  <2>8. Shows(out, at, K)
    BY <2>6, <2>7
  <2>9. LedUpTo(at, paths, m) = IF P \in DOMAIN at THEN Wider(K, at, P) ELSE K
    BY <2>5, <2>7, LedStep
  <2>10. f[m] = ProjectStep(out, at, P)
    BY <2>3, <2>4, <2>7
  <2>11. CASE P \in DOMAIN at
    <3>1. PICK d : Leaves(at, K, P, d)
      BY <1>2, <2>5, <2>7, <2>11, OrderlyLeaves
    <3>2. Shows(mergeAV(out, wrapPath(at, P)), at, Wider(K, at, P))
      BY <2>8, <3>1, MergeShows
    <3> QED BY <2>2, <2>9, <2>10, <2>11, <3>2 DEF ProjectStep
  <2>12. CASE P \notin DOMAIN at
    BY <2>2, <2>8, <2>9, <2>10, <2>12 DEF ProjectStep
  <2> QED BY <2>11, <2>12
<1>5. good(n)
  BY <1>4
<1> QED BY <1>2, <1>3, <1>5

(* What is asked for shows the same.                                       *)
LEMMA AskedShows ==
    ASSUME NEW at, IsValue(at), NEW paths \in Seq(AttributePaths)
    PROVE  Shows(Asked(at, paths), at, LedUpTo(at, paths, Len(paths)))
<1>1. PICK F, K : F = Found(at, paths, Len(paths)) /\ K = LedUpTo(at, paths, Len(paths))
  OBVIOUS
<1>2. Rooting(K) /\ K \subseteq DOMAIN at /\ K = Led(at, F)
  <2>1. K = Led(at, F)
    BY <1>1 DEF LedUpTo
  <2>2. F \subseteq Paths
    BY <1>1 DEF Found, IsValue, IsTree
  <2> QED BY <2>1, <2>2, LedRooting
<1>3. Asked(at, paths) = [p \in {Ranked(K, q) : q \in K} |-> at[CHOOSE q \in K : Ranked(K, q) = p]]
  BY <1>1, <1>2 DEF Asked, Found, Led, Ranked, Rank, Lower, Slot, Prefix
<1>4. PICK D, out : D = {Ranked(K, q) : q \in K} /\ out = Asked(at, paths)
  OBVIOUS
<1>5. out = [p \in D |-> out[p]]
  BY <1>3, <1>4
<1>6. ASSUME NEW q \in K PROVE out[Ranked(K, q)] = at[q]
  <2>1. PICK p : p = Ranked(K, q)
    OBVIOUS
  <2>2. p \in D /\ \E r \in K : Ranked(K, r) = p
    BY <1>4, <2>1
  <2>3. PICK c : c = CHOOSE r \in K : Ranked(K, r) = p
    OBVIOUS
  <2>4. c \in K /\ Ranked(K, c) = p
    BY <2>2, <2>3
  <2>5. c = q
    BY <1>2, <2>1, <2>4, RankedOnce
  <2>6. out[p] = at[c]
    BY <1>3, <1>4, <2>2, <2>3
  <2> QED BY <2>1, <2>5, <2>6
<1> QED BY <1>1, <1>4, <1>5, <1>6 DEF Shows

LEMMA ProjectsExactly ==
    ASSUME NEW at, IsValue(at), at[Here].type = "M",
           NEW paths \in Seq(AttributePaths), Orderly(paths)
    PROVE  projectItem(at, paths) = Asked(at, paths)
BY ProjectShows, AskedShows, ShowsOnce

-----------------------------------------------------------------------------
(* What removals leave                                                     *)

Standing(at, R) == {p \in DOMAIN at : \A r \in R : ~IsPrefix(r, p)}

(* The elements below n of the list at x that are named.                   *)
Gone(R, x, n) == {m \in 0..(n - 1) : Slot(x, Index(m)) \in R}

(* Nothing that is named precedes a step of P in its list.                 *)
Clear(P, R) ==
    \A i \in 1..Len(P) : P[i].isIdx =>
        \A m \in 0..P[i].index : Slot(Prefix(P, i - 1), Index(m)) \notin R

LEMMA StandingRooting ==
    ASSUME NEW at, IsValue(at), NEW R, R \subseteq AttributePaths
    PROVE  Rooting(Standing(at, R)) /\ Standing(at, R) \subseteq DOMAIN at
<1>1. IsTree(DOMAIN at) /\ Here \in DOMAIN at /\ DOMAIN at \subseteq Paths
  BY DEF IsValue, IsTree
<1>2. \A r \in R : r \in Paths /\ r # Here
  BY DEF AttributePaths, Here
<1>3. Here \in Standing(at, R)
  <2>1. ASSUME NEW r \in R, IsPrefix(r, Here) PROVE FALSE
    <3>1. r \in Paths /\ Here \in Paths /\ Len(Here) = 0
      BY <1>2, <2>1, HereLeads, PathFacts
    <3>2. Len(r) <= 0 /\ Len(r) \in Nat
      BY <2>1, <3>1, LeadsPointwise, PathFacts
    <3> QED BY <1>2, <3>1, <3>2, PathFacts
  <2> QED BY <1>1, <2>1 DEF Standing
<1>4. ASSUME NEW q \in Standing(at, R), NEW x \in Paths, IsPrefix(x, q) PROVE x \in Standing(at, R)
  <2>1. q \in DOMAIN at /\ \A r \in R : ~IsPrefix(r, q)
    BY DEF Standing
  <2>2. x \in DOMAIN at
    BY <1>1, <1>4, <2>1, LeadsInto
  <2>3. ASSUME NEW r \in R, IsPrefix(r, x) PROVE FALSE
    <3>1. q \in Paths /\ r \in Paths
      BY <1>1, <1>2, <2>1
    <3> QED BY <1>4, <2>1, <2>3, <3>1, LeadsOn
  <2> QED BY <2>2, <2>3 DEF Standing
<1>5. Standing(at, R) \subseteq DOMAIN at
  BY DEF Standing
<1> QED BY <1>1, <1>3, <1>4, <1>5 DEF Rooting

LEMMA SlotAfter ==
    ASSUME NEW x \in Paths, NEW e \in Steps
    PROVE  IsPrefix(x, Slot(x, e))
<1>1. Slot(x, e) \in Paths /\ Len(Slot(x, e)) = Len(x) + 1 /\ Len(x) \in Nat
      /\ \A i \in 1..Len(x) : Slot(x, e)[i] = x[i]
  BY SlotFacts, PathFacts
<1> QED BY <1>1, LeadsPointwise

LEMMA LeadsToSlot ==
    ASSUME NEW r \in Paths, NEW x \in Paths, NEW e \in Steps, IsPrefix(r, Slot(x, e))
    PROVE  r = Slot(x, e) \/ IsPrefix(r, x)
<1>1. PICK s : s = Slot(x, e)
  OBVIOUS
<1>2. s \in Paths /\ Len(s) = Len(x) + 1 /\ Front(s) = x /\ s # Here /\ Len(x) \in Nat /\ Len(r) \in Nat
  BY <1>1, SlotFacts, PathFacts
<1>3. IsPrefix(r, s) /\ Len(r) <= Len(s)
  BY <1>1, <1>2, LeadsPointwise
<1>4. CASE Len(r) = Len(s)
  <2>1. \A i \in 1..Len(r) : s[i] = r[i]
    BY <1>2, <1>3, LeadsPointwise
  <2> QED BY <1>1, <1>2, <1>4, <2>1, SamePath
<1>5. CASE Len(r) # Len(s)
  <2>1. Len(r) <= Len(x)
    BY <1>2, <1>3, <1>5
  <2>2. IsPrefix(x, s)
    BY <1>1, <1>2, SlotAfter
  <2> QED BY <1>2, <1>3, <2>1, <2>2, BothLead
<1> QED BY <1>4, <1>5

LEMMA StandingSlot ==
    ASSUME NEW at, IsValue(at), NEW R, R \subseteq AttributePaths, NEW x \in Standing(at, R),
           NEW e \in Steps, Slot(x, e) \in DOMAIN at
    PROVE  Slot(x, e) \in Standing(at, R) <=> Slot(x, e) \notin R
<1>1. PICK s : s = Slot(x, e)
  OBVIOUS
<1>2. x \in Paths /\ s \in Paths /\ s \in DOMAIN at /\ \A r \in R : r \in Paths
  BY <1>1, SlotFacts DEF Standing, IsValue, IsTree, AttributePaths
<1>3. \A r \in R : ~IsPrefix(r, x)
  BY DEF Standing
<1>4. \A r \in R : IsPrefix(r, s) => r = s
  BY <1>1, <1>2, <1>3, LeadsToSlot
<1>5. s \in R => ~(\A r \in R : ~IsPrefix(r, s))
  BY <1>2, LeadsToItself
<1> QED BY <1>1, <1>2, <1>4, <1>5 DEF Standing

(* Of an element that stands, those before it stand or are named.          *)
LEMMA StandingBefore ==
    ASSUME NEW at, IsValue(at), NEW R, R \subseteq AttributePaths, NEW q \in Standing(at, R),
           NEW i \in 1..Len(q), q[i].isIdx, NEW x, x = Prefix(q, i - 1), NEW n, n = q[i].index
    PROVE  /\ n \in Nat /\ x \in Standing(at, R) /\ x \in Paths /\ Len(x) = i - 1
           /\ Slot(x, Index(n)) \in Standing(at, R) /\ q[i] = Index(n)
           /\ \A m \in 0..n : Slot(x, Index(m)) \in Standing(at, R) <=> Slot(x, Index(m)) \notin R
<1>1. q \in Paths /\ q \in DOMAIN at /\ Rooting(Standing(at, R))
  BY StandingRooting DEF Standing, IsValue, IsTree
<1>2. n \in Nat /\ q[i] \in Steps /\ q[i] = Index(n)
  BY <1>1, PathFacts, StepIndex, IndexesAre
<1>3. x \in Paths /\ Len(x) = i - 1 /\ IsPrefix(x, q) /\ IsPrefix(Slot(x, q[i]), q)
  BY <1>1, PrefixStep
<1>4. Slot(x, q[i]) \in Paths
  BY <1>2, <1>3, SlotFacts
<1>5. x \in Standing(at, R) /\ Slot(x, q[i]) \in Standing(at, R)
  BY <1>1, <1>3, <1>4 DEF Rooting
<1>6. Slot(x, Index(n)) \in DOMAIN at
  BY <1>2, <1>5, StandingRooting
<1>7. ASSUME NEW m \in 0..n PROVE Slot(x, Index(m)) \in Standing(at, R) <=> Slot(x, Index(m)) \notin R
  <2>1. Slot(x, Index(m)) \in DOMAIN at
    BY <1>2, <1>3, <1>6, Downward
  <2>2. Index(m) \in Steps
    BY <1>2, IndexStep
  <2> QED BY <1>5, <2>1, <2>2, StandingSlot
<1> QED BY <1>2, <1>3, <1>5, <1>7

LEMMA StandingRank ==
    ASSUME NEW at, IsValue(at), NEW R, R \subseteq AttributePaths, NEW q \in Standing(at, R),
           NEW i \in 1..Len(q), q[i].isIdx
    PROVE  /\ IsFiniteSet(Gone(R, Prefix(q, i - 1), q[i].index))
           /\ Rank(Standing(at, R), Prefix(q, i - 1), q[i].index) =
                 q[i].index - Cardinality(Gone(R, Prefix(q, i - 1), q[i].index))
<1>1. PICK x, n, K : x = Prefix(q, i - 1) /\ n = q[i].index /\ K = Standing(at, R)
  OBVIOUS
<1>2. n \in Nat /\ \A m \in 0..n : Slot(x, Index(m)) \in K <=> Slot(x, Index(m)) \notin R
  BY <1>1, StandingBefore
<1>3. PICK A, B, all : A = Lower(K, x, n) /\ B = Gone(R, x, n) /\ all = 0..(n - 1)
  OBVIOUS
<1>4. IsFiniteSet(all) /\ Cardinality(all) = n
  <2>1. 0 \in Int /\ n - 1 \in Int
    BY <1>2
  <2>2. IsFiniteSet(0..(n - 1)) /\ Cardinality(0..(n - 1)) = IF 0 > n - 1 THEN 0 ELSE n - 1 - 0 + 1
    BY <2>1, FS_Interval
  <2> QED BY <1>2, <1>3, <2>2
<1>5. A \subseteq all /\ B \subseteq all /\ A = all \ B /\ all \intersect B = B
  <2>1. \A m \in all : m \in 0..n
    BY <1>2, <1>3
  <2>2. \A m \in all : m \in A <=> m \notin B
    BY <1>2, <1>3, <2>1 DEF Lower, Gone
  <2>3. A \subseteq all /\ B \subseteq all
    BY <1>3 DEF Lower, Gone
  <2> QED BY <2>2, <2>3
<1>6. IsFiniteSet(B) /\ Cardinality(A) = Cardinality(all) - Cardinality(B)
  <2>1. Cardinality(all \ B) = Cardinality(all) - Cardinality(all \intersect B)
    BY <1>4, FS_Difference
  <2>2. IsFiniteSet(B)
    BY <1>4, <1>5, FS_Subset
  <2> QED BY <1>5, <2>1, <2>2
<1> QED BY <1>1, <1>3, <1>4, <1>6 DEF Rank

-----------------------------------------------------------------------------
(* Without shows what stands                                               *)

LowerIn(R, p, i) ==
    {r \in R : /\ Len(r) = i /\ Last(r).isIdx
               /\ Front(r) = Prefix(p, i - 1)
               /\ r[i].index < p[i].index}

PlaceWithout(R, p) ==
    [i \in 1..Len(p) |->
        IF p[i].isIdx THEN Index(p[i].index - Cardinality(LowerIn(R, p, i))) ELSE p[i]]

LEMMA LowerInCount ==
    ASSUME NEW at, IsValue(at), NEW R, R \subseteq AttributePaths, NEW q \in Standing(at, R),
           NEW i \in 1..Len(q), q[i].isIdx
    PROVE  Cardinality(LowerIn(R, q, i)) = Cardinality(Gone(R, Prefix(q, i - 1), q[i].index))
<1>1. PICK x, n : x = Prefix(q, i - 1) /\ n = q[i].index
  OBVIOUS
<1>2. n \in Nat /\ x \in Paths /\ Len(x) = i - 1 /\ i \in Nat
  BY <1>1, StandingBefore
<1>3. PICK G, L : G = Gone(R, x, n) /\ L = LowerIn(R, q, i)
  OBVIOUS
<1>4. IsFiniteSet(G)
  BY <1>1, <1>3, StandingRank
<1>5. PICK f : f = [m \in G |-> Slot(x, Index(m))]
  OBVIOUS
<1>6. ASSUME NEW m \in G
      PROVE  f[m] \in L /\ Last(f[m]) = Index(m)
  <2>1. m \in Nat /\ m < n /\ Slot(x, Index(m)) \in R
    BY <1>2, <1>3 DEF Gone
  <2>2. Index(m) \in Steps
    BY <2>1, IndexStep
  <2>3. PICK s : s = Slot(x, Index(m))
    OBVIOUS
  <2>4. Len(s) = Len(x) + 1 /\ Front(s) = x /\ Last(s) = Index(m) /\ s[Len(x) + 1] = Index(m)
    BY <1>2, <2>2, <2>3, SlotFacts
  <2>5. Len(s) = i /\ s[i] = Index(m)
    BY <1>2, <2>4
  <2>6. Last(s).isIdx /\ s[i].index = m
    BY <2>4, <2>5, IndexIs
  <2>7. s \in L
    BY <1>1, <1>3, <2>1, <2>3, <2>4, <2>5, <2>6 DEF LowerIn
  <2> QED BY <1>5, <2>3, <2>4, <2>7
<1>7. ASSUME NEW r \in L PROVE \E m \in G : r = f[m]
  <2>1. /\ r \in R /\ Len(r) = i /\ Last(r).isIdx /\ Front(r) = x /\ r[i].index < n
    BY <1>1, <1>3 DEF LowerIn
  <2>2. r \in Paths /\ r # Here
    BY <2>1 DEF AttributePaths, Here
  <2>3. Last(r) \in Steps /\ r = Slot(x, Last(r)) /\ Last(r) = r[i]
    BY <2>1, <2>2, FrontFacts DEF Slot, Last
  <2>4. PICK m \in Nat : m = Last(r).index
    BY <2>3, StepIndex
  <2>5. Last(r) = Index(m) /\ m < n
    BY <2>1, <2>3, <2>4, IndexesAre
  <2>6. m \in G
    BY <1>2, <1>3, <2>1, <2>3, <2>5 DEF Gone
  <2> QED BY <1>5, <2>3, <2>5, <2>6
<1>8. \A m, k \in G : f[m] = f[k] => m = k
  <2> SUFFICES ASSUME NEW m \in G, NEW k \in G, f[m] = f[k] PROVE m = k
    OBVIOUS
  <2>1. Index(m) = Index(k)
    BY <1>6
  <2> QED BY <2>1, IndexIs
<1>9. f \in Bijection(G, L)
  <2>1. f \in [G -> L]
    BY <1>5, <1>6
  <2>2. f \in Injection(G, L)
    BY <1>8, <2>1 DEF Injection, IsInjective
  <2>3. f \in Surjection(G, L)
    BY <1>7, <2>1 DEF Surjection
  <2> QED BY <2>2, <2>3 DEF Bijection
<1>10. Cardinality(L) = Cardinality(G)
  <2>1. ExistsBijection(G, L)
    BY <1>9 DEF ExistsBijection
  <2> QED BY <1>4, <2>1, FS_Bijection
<1> QED BY <1>1, <1>3, <1>10

LEMMA PlaceIsRanked ==
    ASSUME NEW at, IsValue(at), NEW R, R \subseteq AttributePaths, NEW q \in Standing(at, R)
    PROVE  PlaceWithout(R, q) = Ranked(Standing(at, R), q)
<1>1. PICK K, n : K = Standing(at, R) /\ n = Len(q)
  OBVIOUS
<1>2. ASSUME NEW i \in 1..n, q[i].isIdx
      PROVE  q[i].index - Cardinality(LowerIn(R, q, i)) = Rank(K, Prefix(q, i - 1), q[i].index)
  BY <1>1, <1>2, LowerInCount, StandingRank
<1>3. PlaceWithout(R, q) =
        [i \in 1..n |-> IF q[i].isIdx THEN Index(q[i].index - Cardinality(LowerIn(R, q, i))) ELSE q[i]]
  BY <1>1 DEF PlaceWithout
<1>4. Ranked(K, q) =
        [i \in 1..n |-> IF q[i].isIdx THEN Index(Rank(K, Prefix(q, i - 1), q[i].index)) ELSE q[i]]
  BY <1>1 DEF Ranked
<1> QED BY <1>1, <1>2, <1>3, <1>4

LEMMA WithoutShows ==
    ASSUME NEW at, IsValue(at), NEW R, R \subseteq AttributePaths
    PROVE  Shows(Without(at, R), at, Standing(at, R))
<1>1. PICK K : K = Standing(at, R)
  OBVIOUS
<1>2. Rooting(K)
  BY <1>1, StandingRooting
<1>3. Without(at, R) =
        [p \in {PlaceWithout(R, q) : q \in K} |-> at[CHOOSE q \in K : PlaceWithout(R, q) = p]]
  BY <1>1 DEF Without, Standing, PlaceWithout, LowerIn
<1>4. \A q \in K : PlaceWithout(R, q) = Ranked(K, q)
  BY <1>1, PlaceIsRanked
<1>5. PICK D, out : D = {Ranked(K, q) : q \in K} /\ out = Without(at, R)
  OBVIOUS
<1>6. D = {PlaceWithout(R, q) : q \in K}
  BY <1>4, <1>5
<1>7. out = [p \in D |-> out[p]]
  BY <1>3, <1>5, <1>6
<1>8. ASSUME NEW q \in K PROVE out[Ranked(K, q)] = at[q]
  <2>1. PICK p : p = Ranked(K, q)
    OBVIOUS
  <2>2. p \in D /\ PlaceWithout(R, q) = p
    BY <1>4, <1>5, <2>1
  <2>3. PICK c : c = CHOOSE r \in K : PlaceWithout(R, r) = p
    OBVIOUS
  <2>4. c \in K /\ PlaceWithout(R, c) = p
    BY <2>2, <2>3
  <2>5. c = q
    BY <1>2, <1>4, <2>1, <2>4, RankedOnce
  <2>6. out[p] = at[c]
    BY <1>3, <1>5, <1>6, <2>2, <2>3
  <2> QED BY <2>1, <2>5, <2>6
<1> QED BY <1>1, <1>5, <1>7, <1>8 DEF Shows

-----------------------------------------------------------------------------
(* Where nothing before it is gone, a path leads to where it led           *)

LEMMA FullRank ==
    ASSUME NEW K, NEW x, NEW n \in Nat, \A m \in 0..(n - 1) : Slot(x, Index(m)) \in K
    PROVE  Rank(K, x, n) = n
<1>1. Lower(K, x, n) = 0..(n - 1)
  BY DEF Lower
<1>2. 0 \in Int /\ n - 1 \in Int
  OBVIOUS
<1>3. Cardinality(0..(n - 1)) = IF 0 > n - 1 THEN 0 ELSE n - 1 - 0 + 1
  BY <1>2, FS_Interval
<1>4. Cardinality(0..(n - 1)) = n
  BY <1>3
<1> QED BY <1>1, <1>4 DEF Rank

LEMMA RankGrows ==
    ASSUME NEW K, NEW x, NEW n \in Nat, NEW m \in Nat, m < n, Slot(x, Index(m)) \in K
    PROVE  Rank(K, x, m) < Rank(K, x, n)
<1>1. PICK A, B : A = Lower(K, x, m) /\ B = Lower(K, x, n)
  OBVIOUS
<1>2. IsFiniteSet(B) /\ Rank(K, x, m) \in Nat /\ Rank(K, x, n) \in Nat
  BY <1>1, LowerFacts
<1>3. A \in SUBSET B
  BY <1>1 DEF Lower
<1>4. Cardinality(A) <= Cardinality(B)
  BY <1>2, <1>3, FS_Subset
<1>5. Rank(K, x, m) <= Rank(K, x, n)
  BY <1>1, <1>4 DEF Rank
<1>6. Rank(K, x, m) # Rank(K, x, n)
  BY RankRises
<1> QED BY <1>2, <1>5, <1>6

LEMMA RankedPrefix ==
    ASSUME NEW K, NEW q \in Paths, NEW n \in 0..Len(q)
    PROVE  Prefix(Ranked(K, q), n) = Ranked(K, Prefix(q, n))
<1>1. PICK r, x, a, b : /\ r = Ranked(K, q) /\ x = Prefix(q, n) /\ a = Prefix(r, n) /\ b = Ranked(K, x)
  OBVIOUS
<1>2. /\ r \in Paths /\ Len(r) = Len(q) /\ Len(q) \in Nat
      /\ \A i \in 1..Len(q) :
           /\ ~q[i].isIdx => r[i] = q[i]
           /\ q[i].isIdx => r[i] = Index(Rank(K, Prefix(q, i - 1), q[i].index))
  BY <1>1, RankedFacts, PathFacts
<1>3. x \in Paths /\ Len(x) = n /\ \A i \in 1..n : x[i] = q[i]
  BY <1>1, PrefixFacts
<1>4. a \in Paths /\ Len(a) = n /\ \A i \in 1..n : a[i] = r[i]
  BY <1>1, <1>2, PrefixFacts
<1>5. /\ b \in Paths /\ Len(b) = n
      /\ \A i \in 1..n :
           /\ ~x[i].isIdx => b[i] = x[i]
           /\ x[i].isIdx => b[i] = Index(Rank(K, Prefix(x, i - 1), x[i].index))
  <2>1. /\ b \in Paths /\ Len(b) = Len(x)
        /\ \A i \in 1..Len(x) :
             /\ ~x[i].isIdx => b[i] = x[i]
             /\ x[i].isIdx => b[i] = Index(Rank(K, Prefix(x, i - 1), x[i].index))
    BY <1>1, <1>3, RankedFacts
  <2>2. Len(x) = n
    BY <1>3
  <2> QED BY <2>1, <2>2
<1>6. ASSUME NEW i \in 1..n PROVE a[i] = b[i]
  <2>1. i \in 1..Len(q) /\ i - 1 \in 0..n /\ i - 1 \in 0..Len(q)
    BY <1>2
  <2>2. PICK y, z : y = Prefix(q, i - 1) /\ z = Prefix(x, i - 1)
    OBVIOUS
  <2>3. y \in Paths /\ Len(y) = i - 1 /\ \A j \in 1..(i - 1) : y[j] = q[j]
    BY <2>1, <2>2, PrefixFacts
  <2>4. z \in Paths /\ Len(z) = i - 1 /\ \A j \in 1..(i - 1) : z[j] = x[j]
    BY <1>3, <2>1, <2>2, PrefixFacts
  <2>5. \A j \in 1..(i - 1) : y[j] = z[j]
    BY <1>3, <2>3, <2>4
  <2>6. y = z
    BY <2>3, <2>4, <2>5, SamePath
  <2> QED BY <1>2, <1>3, <1>4, <1>5, <2>1, <2>2, <2>6
<1> QED BY <1>1, <1>4, <1>5, <1>6, SamePath

LEMMA ClearPlace ==
    ASSUME NEW at, IsValue(at), NEW R, R \subseteq AttributePaths, NEW P \in Standing(at, R), Clear(P, R)
    PROVE  Ranked(Standing(at, R), P) = P
<1>1. PICK K, r : K = Standing(at, R) /\ r = Ranked(K, P)
  OBVIOUS
<1>2. P \in Paths
  BY DEF Standing, IsValue, IsTree
<1>3. /\ r \in Paths /\ Len(r) = Len(P)
      /\ \A i \in 1..Len(P) :
           /\ ~P[i].isIdx => r[i] = P[i]
           /\ P[i].isIdx => r[i] = Index(Rank(K, Prefix(P, i - 1), P[i].index))
  BY <1>1, <1>2, RankedFacts
<1>4. ASSUME NEW i \in 1..Len(P), P[i].isIdx PROVE r[i] = P[i]
  <2>1. PICK x, n : x = Prefix(P, i - 1) /\ n = P[i].index
    OBVIOUS
  <2>2. /\ n \in Nat /\ P[i] = Index(n)
        /\ \A m \in 0..n : Slot(x, Index(m)) \in K <=> Slot(x, Index(m)) \notin R
    BY <1>1, <1>4, <2>1, StandingBefore
  <2>3. \A m \in 0..n : Slot(x, Index(m)) \notin R
    BY <1>4, <2>1 DEF Clear
  <2>4. \A m \in 0..(n - 1) : Slot(x, Index(m)) \in K
    BY <2>2, <2>3
  <2>5. Rank(K, x, n) = n
    BY <2>2, <2>4, FullRank
  <2> QED BY <1>3, <1>4, <2>1, <2>2, <2>5
<1>5. \A i \in 1..Len(P) : r[i] = P[i]
  BY <1>3, <1>4
<1> QED BY <1>1, <1>2, <1>3, <1>5, SamePath

-----------------------------------------------------------------------------
(* What leads through there                                                *)

LEMMA ClearLeads ==
    ASSUME NEW at, IsValue(at), NEW R, R \subseteq AttributePaths, NEW P \in Paths, Clear(P, R),
           NEW q \in Standing(at, R)
    PROVE  IsPrefix(P, Ranked(Standing(at, R), q)) <=> IsPrefix(P, q)
<1>1. PICK K, r : K = Standing(at, R) /\ r = Ranked(K, q)
  OBVIOUS
<1>2. q \in Paths /\ Len(q) \in Nat /\ Len(P) \in Nat /\ Rooting(K)
  BY <1>1, PathFacts, StandingRooting DEF Standing, IsValue, IsTree
<1>3. /\ r \in Paths /\ Len(r) = Len(q)
      /\ \A i \in 1..Len(q) :
           /\ ~q[i].isIdx => r[i] = q[i]
           /\ q[i].isIdx => r[i] = Index(Rank(K, Prefix(q, i - 1), q[i].index))
  BY <1>1, <1>2, RankedFacts
<1>4. ASSUME IsPrefix(P, q) PROVE IsPrefix(P, r)
  <2>1. Len(P) \in 0..Len(q) /\ P = Prefix(q, Len(P))
    BY <1>2, <1>4, LeadsAs
  <2>2. P \in K
    BY <1>1, <1>2, <1>4 DEF Rooting
  <2>3. Ranked(K, P) = P
    BY <1>1, <2>2, ClearPlace
  <2>4. PICK n \in 0..Len(q) : n = Len(P)
    BY <2>1
  <2>5. Prefix(r, n) = Ranked(K, Prefix(q, n))
    BY <1>1, <1>2, RankedPrefix
  <2>6. Prefix(r, n) = P
    BY <2>1, <2>3, <2>4, <2>5
  <2>7. n \in 0..Len(r)
    BY <1>3
  <2>8. IsPrefix(Prefix(r, n), r)
    BY <1>3, <2>7, PrefixLeads
  <2> QED BY <2>6, <2>8
<1>5. ASSUME IsPrefix(P, r) PROVE IsPrefix(P, q)
  <2>1. Len(P) <= Len(q) /\ \A i \in 1..Len(P) : r[i] = P[i]
    BY <1>2, <1>3, <1>5, LeadsPointwise
  <2> DEFINE off == {i \in 1..Len(P) : q[i] # P[i]}
  <2>2. off = {}
    <3> SUFFICES ASSUME off # {} PROVE FALSE
      OBVIOUS
    <3>1. PICK i \in off : \A j \in off : i <= j
      <4>1. off \in SUBSET Nat
        OBVIOUS
      <4> HIDE DEF off
      <4> QED BY <4>1, Least
    <3>2. i \in 1..Len(P) /\ q[i] # P[i] /\ i \in 1..Len(q)
      BY <1>2, <2>1
    <3>3. ASSUME NEW j \in 1..(i - 1) PROVE q[j] = P[j]
      <4>1. j \in 1..Len(P) /\ ~(i <= j)
        BY <1>2, <3>2
      <4>2. j \notin off
        <5> HIDE DEF off
        <5> QED BY <3>1, <4>1
      <4> QED BY <4>1, <4>2
    <3> HIDE DEF off
    <3>4. q[i].isIdx
      BY <1>3, <2>1, <3>2
    <3>5. PICK x, n : x = Prefix(q, i - 1) /\ n = q[i].index
      OBVIOUS
    <3>6. /\ n \in Nat /\ q[i] = Index(n)
          /\ \A m \in 0..n : Slot(x, Index(m)) \in K <=> Slot(x, Index(m)) \notin R
      BY <1>1, <3>2, <3>4, <3>5, StandingBefore
    <3>7. Prefix(P, i - 1) = x
      <4>1. i - 1 \in 0..Len(P) /\ i - 1 \in 0..Len(q)
        BY <1>2, <3>2
      <4>2. PICK y : y = Prefix(P, i - 1)
        OBVIOUS
      <4>3. y \in Paths /\ Len(y) = i - 1 /\ \A j \in 1..(i - 1) : y[j] = P[j]
        BY <4>1, <4>2, PrefixFacts
      <4>4. x \in Paths /\ Len(x) = i - 1 /\ \A j \in 1..(i - 1) : x[j] = q[j]
        BY <1>2, <3>5, <4>1, PrefixFacts
      <4>5. \A j \in 1..(i - 1) : y[j] = x[j]
        BY <3>3, <4>3, <4>4
      <4> QED BY <4>2, <4>3, <4>4, <4>5, SamePath
    <3>8. PICK k \in Nat : k = Rank(K, x, n)
      BY <3>6, LowerFacts
    <3>9. P[i] = Index(k)
      BY <1>3, <2>1, <3>2, <3>4, <3>5, <3>8
    <3>10. P[i].isIdx /\ P[i].index = k
      BY <3>9, IndexIs
    <3>11. \A m \in 0..k : Slot(x, Index(m)) \notin R
      BY <3>2, <3>7, <3>10 DEF Clear
    <3>12. k # n
      BY <3>2, <3>6, <3>9
    <3>13. CASE k < n
      <4>1. \A m \in 0..k : m \in 0..n
        BY <3>6, <3>13
      <4>2. \A m \in 0..k : Slot(x, Index(m)) \in K
        BY <3>6, <3>11, <4>1
      <4>3. Slot(x, Index(k)) \in K /\ \A m \in 0..(k - 1) : Slot(x, Index(m)) \in K
        BY <4>2
      <4>4. Rank(K, x, k) = k
        BY <4>3, FullRank
      <4>5. Rank(K, x, k) < Rank(K, x, n)
        BY <3>6, <3>13, <4>3, RankGrows
      <4> QED BY <3>8, <4>4, <4>5
    <3>14. CASE n < k
      <4>1. \A m \in 0..(n - 1) : m \in 0..n /\ m \in 0..k
        BY <3>6, <3>14
      <4>2. \A m \in 0..(n - 1) : Slot(x, Index(m)) \in K
        BY <3>6, <3>11, <4>1
      <4>3. Rank(K, x, n) = n
        BY <3>6, <4>2, FullRank
      <4> QED BY <3>8, <3>12, <4>3
    <3> QED BY <3>6, <3>12, <3>13, <3>14
  <2>3. \A i \in 1..Len(P) : q[i] = P[i]
    BY <2>2
  <2> QED BY <1>2, <2>1, <2>3, LeadsPointwise
<1> QED BY <1>1, <1>4, <1>5

With(R, P) == R \union {P}

LEMMA StandingLess ==
    ASSUME NEW at, NEW R, NEW P
    PROVE  \A q : q \in Standing(at, With(R, P)) <=> q \in Standing(at, R) /\ ~IsPrefix(P, q)
BY DEF Standing, With

(* One that goes from a list comes off the rank of those behind it.        *)
LEMMA RankLess ==
    ASSUME NEW K, NEW L, L \subseteq K, NEW x \in Paths, NEW n \in Nat, NEW k \in Nat,
           \A m \in 0..(n - 1) : Slot(x, Index(m)) \in L <=> Slot(x, Index(m)) \in K /\ m # k,
           k < n => Slot(x, Index(k)) \in K
    PROVE  Rank(L, x, n) = IF k < n THEN Rank(K, x, n) - 1 ELSE Rank(K, x, n)
<1>1. PICK A, B : A = Lower(L, x, n) /\ B = Lower(K, x, n)
  OBVIOUS
<1>2. IsFiniteSet(B)
  BY <1>1, LowerFacts
<1>3. A = B \ {k}
  BY <1>1 DEF Lower
<1>4. k \in B <=> k < n
  BY <1>1 DEF Lower
<1>5. Cardinality(B \ {k}) = IF k \in B THEN Cardinality(B) - 1 ELSE Cardinality(B)
  BY <1>2, FS_RemoveElement
<1> QED BY <1>1, <1>3, <1>4, <1>5 DEF Rank

(* P can be removed where it was: nothing of it or before it is gone.      *)
Removable(at, R, P) ==
    /\ IsValue(at) /\ R \subseteq AttributePaths /\ P \in AttributePaths
    /\ Clear(P, R)
    /\ Last(P).isIdx => P \in Standing(at, R)

(* It does not precede the steps of P but the last.                        *)
ClearAbove(P, R) ==
    \A i \in 1..(Len(P) - 1) : P[i].isIdx =>
        \A m \in 0..P[i].index : Slot(Prefix(P, i - 1), Index(m)) \notin R

LEMMA ClearFront ==
    ASSUME NEW P \in Paths, P # Here, NEW R, Clear(P, R) \/ ClearAbove(P, R)
    PROVE  Clear(Front(P), R)
<1>1. PICK x : x = Front(P)
  OBVIOUS
<1>2. x \in Paths /\ Len(x) = Len(P) - 1 /\ Len(P) \in Nat /\ \A i \in 1..(Len(P) - 1) : x[i] = P[i]
  BY <1>1, FrontFacts, PathFacts
<1>0. ClearAbove(P, R)
  <2>1. \A i \in 1..(Len(P) - 1) : i \in 1..Len(P)
    BY <1>2
  <2> QED BY <2>1 DEF Clear, ClearAbove
<1>3. ASSUME NEW i \in 1..Len(x), x[i].isIdx, NEW m \in 0..x[i].index
      PROVE  Slot(Prefix(x, i - 1), Index(m)) \notin R
  <2>1. i \in 1..Len(P) /\ i \in 1..(Len(P) - 1) /\ x[i] = P[i] /\ i - 1 \in 0..Len(P) /\ i - 1 \in 0..Len(x)
    BY <1>2
  <2>2. PICK y, z : y = Prefix(x, i - 1) /\ z = Prefix(P, i - 1)
    OBVIOUS
  <2>3. y \in Paths /\ Len(y) = i - 1 /\ \A j \in 1..(i - 1) : y[j] = x[j]
    BY <1>2, <2>1, <2>2, PrefixFacts
  <2>4. z \in Paths /\ Len(z) = i - 1 /\ \A j \in 1..(i - 1) : z[j] = P[j]
    BY <2>1, <2>2, PrefixFacts
  <2>5. \A j \in 1..(i - 1) : y[j] = z[j]
    BY <1>2, <2>1, <2>3, <2>4
  <2>6. y = z
    BY <2>3, <2>4, <2>5, SamePath
  <2> QED BY <1>0, <1>3, <2>1, <2>2, <2>6 DEF ClearAbove
<1>4. Clear(x, R)
  BY <1>3 DEF Clear
<1> QED BY <1>1, <1>4

-----------------------------------------------------------------------------
(* Cut moves what stands to where it ranks then                            *)

LEMMA SlotAlone ==
    ASSUME NEW x \in Paths, NEW y \in Paths, NEW e \in Steps, NEW f \in Steps, Slot(x, e) = Slot(y, f)
    PROVE  x = y /\ e = f
<1>1. Front(Slot(x, e)) = x /\ Last(Slot(x, e)) = e
  BY SlotFacts
<1>2. Front(Slot(y, f)) = y /\ Last(Slot(y, f)) = f
  BY SlotFacts
<1> QED BY <1>1, <1>2

LEMMA RemovableFacts ==
    ASSUME NEW at, NEW R, NEW P, Removable(at, R, P)
    PROVE  /\ P \in Paths /\ P # Here /\ Front(P) \in Paths /\ Last(P) \in Steps
           /\ P = Slot(Front(P), Last(P)) /\ Len(P) = Len(Front(P)) + 1 /\ Len(Front(P)) \in Nat
           /\ Clear(Front(P), R) /\ With(R, P) \subseteq AttributePaths
           /\ Rooting(Standing(at, R)) /\ Rooting(Standing(at, With(R, P)))
<1>1. P \in Paths /\ P # Here /\ Clear(P, R) /\ IsValue(at) /\ R \subseteq AttributePaths
  BY DEF Removable, AttributePaths, Here
<1>2. With(R, P) \subseteq AttributePaths
  BY DEF Removable, With
<1>3. Rooting(Standing(at, R)) /\ Rooting(Standing(at, With(R, P)))
  BY <1>1, <1>2, StandingRooting
<1>4. Len(P) \in Nat \ {0} /\ Len(Front(P)) = Len(P) - 1 /\ Front(P) \in Paths /\ Last(P) \in Steps
      /\ P = Append(Front(P), Last(P))
  BY <1>1, FrontFacts
<1> QED BY <1>1, <1>2, <1>3, <1>4, ClearFront DEF Slot

LEMMA RankAfter ==
    ASSUME NEW at, NEW R, NEW P, Removable(at, R, P), NEW q \in Standing(at, With(R, P)),
           NEW i \in 1..Len(q), q[i].isIdx
    PROVE  LET y == Prefix(q, i - 1)
               n == q[i].index
               turns == y = Front(P) /\ Last(P).isIdx /\ n > Last(P).index
           IN  /\ Rank(Standing(at, With(R, P)), y, n) =
                     IF turns THEN Rank(Standing(at, R), y, n) - 1 ELSE Rank(Standing(at, R), y, n)
               /\ y = Front(P) /\ Last(P).isIdx =>
                     (Rank(Standing(at, R), y, n) > Last(P).index <=> n > Last(P).index)
<1>1. PICK K, L, x, el, y, n :
        /\ K = Standing(at, R) /\ L = Standing(at, With(R, P)) /\ x = Front(P) /\ el = Last(P)
        /\ y = Prefix(q, i - 1) /\ n = q[i].index
  OBVIOUS
<1>2. /\ P \in Paths /\ x \in Paths /\ el \in Steps /\ P = Slot(x, el)
      /\ With(R, P) \subseteq AttributePaths /\ IsValue(at) /\ R \subseteq AttributePaths
      /\ el.isIdx => P \in K
  BY <1>1, RemovableFacts DEF Removable
<1>3. q \in K /\ q \in L
  BY <1>1, StandingLess
<1>4. /\ n \in Nat /\ y \in Paths /\ Slot(y, Index(n)) \in K /\ q[i] = Index(n)
      /\ \A m \in 0..n : Slot(y, Index(m)) \in K <=> Slot(y, Index(m)) \notin R
  BY <1>1, <1>2, <1>3, StandingBefore
<1>5. /\ Slot(y, Index(n)) \in L
      /\ \A m \in 0..n : Slot(y, Index(m)) \in L <=> Slot(y, Index(m)) \notin With(R, P)
  BY <1>1, <1>2, <1>3, StandingBefore
<1>6. \A m \in 0..n : Slot(y, Index(m)) \in L <=> Slot(y, Index(m)) \in K /\ Slot(y, Index(m)) # P
  BY <1>4, <1>5 DEF With
<1>7. L \subseteq K
  BY <1>1, StandingLess
<1>8. ASSUME y = x, el.isIdx
      PROVE  /\ Rank(L, y, n) = IF n > el.index THEN Rank(K, y, n) - 1 ELSE Rank(K, y, n)
             /\ Rank(K, y, n) > el.index <=> n > el.index
  <2>1. PICK k \in Nat : k = el.index
    BY <1>2, StepIndex
  <2>2. el = Index(k) /\ P \in K /\ P = Slot(x, Index(k))
    BY <1>2, <1>8, <2>1, IndexesAre
  <2>3. \A m \in Nat : Slot(y, Index(m)) = P <=> m = k
    <3>1. ASSUME NEW m \in Nat, Slot(y, Index(m)) = P PROVE m = k
      <4>1. Index(m) \in Steps
        BY IndexStep
      <4>2. Index(m) = Index(k)
        BY <1>2, <1>4, <2>2, <3>1, <4>1, SlotAlone
      <4> QED BY <4>2, IndexIs
    <3> QED BY <1>8, <2>2, <3>1
  <2>4. n # k
    BY <1>4, <1>5, <1>6, <2>3
  <2>5. \A m \in 0..(n - 1) : Slot(y, Index(m)) \in L <=> Slot(y, Index(m)) \in K /\ m # k
    BY <1>4, <1>6, <2>3
  <2>6. k < n => Slot(y, Index(k)) \in K
    BY <1>8, <2>2
  <2>7. Rank(L, y, n) = IF k < n THEN Rank(K, y, n) - 1 ELSE Rank(K, y, n)
    BY <1>4, <1>7, <2>5, <2>6, RankLess
  <2>8. Rank(K, y, k) = k
    <3>1. Clear(P, R)
      BY DEF Removable
    <3>2. PICK j \in 1..Len(P) : j = Len(P)
      BY <1>2, PathFacts, RemovableFacts
    <3>3. P[j] = el /\ Prefix(P, j - 1) = x
      <4>1. P[j] = el
        BY <1>1, <3>2 DEF Last
      <4>2. Prefix(P, j - 1) = x
        BY <1>1, <3>2, RemovableFacts, FrontFacts
      <4> QED BY <4>1, <4>2
    <3>4. \A m \in 0..k : Slot(x, Index(m)) \notin R
      BY <1>8, <2>1, <3>1, <3>3 DEF Clear
    <3>5. P[j].isIdx /\ P[j].index = k /\ P \in Standing(at, R) /\ x = Prefix(P, j - 1)
      BY <1>1, <1>8, <2>1, <2>2, <3>3
    <3>6. \A m \in 0..k : Slot(x, Index(m)) \in K <=> Slot(x, Index(m)) \notin R
      <4>1. \A m \in 0..P[j].index : Slot(x, Index(m)) \in Standing(at, R) <=> Slot(x, Index(m)) \notin R
        <5>1. k = P[j].index
          BY <3>5
        <5>2. \A m \in 0..k : Slot(x, Index(m)) \in Standing(at, R) <=> Slot(x, Index(m)) \notin R
          BY <1>2, <3>5, <5>1, StandingBefore
        <5> QED BY <5>1, <5>2
      <4> QED BY <1>1, <3>5, <4>1
    <3>7. \A m \in 0..(k - 1) : Slot(y, Index(m)) \in K
      BY <1>8, <3>4, <3>6
    <3> QED BY <3>7, FullRank
  <2>9. Rank(K, y, n) \in Nat
    BY <1>4, LowerFacts
  <2>10. k < n => k < Rank(K, y, n)
    BY <1>4, <2>6, <2>8, RankGrows
  <2>11. n < k => Rank(K, y, n) < k
    BY <1>4, <2>8, RankGrows
  <2> QED BY <1>4, <2>1, <2>4, <2>7, <2>9, <2>10, <2>11
<1>9. ASSUME ~(y = x /\ el.isIdx)
      PROVE  Rank(L, y, n) = Rank(K, y, n)
  <2>1. ASSUME NEW m \in 0..(n - 1) PROVE Slot(y, Index(m)) # P
    <3>1. Index(m) \in Steps /\ Index(m).isIdx
      BY <1>4, IndexStep, IndexIs
    <3>2. Slot(y, Index(m)) = P => y = x /\ Index(m) = el
      BY <1>2, <1>4, <3>1, SlotAlone
    <3> QED BY <1>9, <3>1, <3>2
  <2>2. \A m \in 0..(n - 1) : m \in 0..n
    BY <1>4
  <2>3. Lower(L, y, n) = Lower(K, y, n)
    BY <1>6, <2>1, <2>2 DEF Lower
  <2> QED BY <2>3 DEF Rank
<1> QED BY <1>1, <1>8, <1>9

LEMMA MovedRanks ==
    ASSUME NEW at, NEW R, NEW P, Removable(at, R, P), NEW q \in Standing(at, With(R, P))
    PROVE  Moved({Front(P)}, Last(P), Ranked(Standing(at, R), q)) = Ranked(Standing(at, With(R, P)), q)
<1>1. PICK K, L, x, el : K = Standing(at, R) /\ L = Standing(at, With(R, P)) /\ x = Front(P) /\ el = Last(P)
  OBVIOUS
<1>2. /\ P \in Paths /\ x \in Paths /\ el \in Steps /\ P = Slot(x, el) /\ Clear(x, R)
      /\ IsValue(at) /\ R \subseteq AttributePaths /\ Rooting(K)
  BY <1>1, RemovableFacts DEF Removable
<1>3. q \in K /\ q \in Paths /\ Len(q) \in Nat
  <2>1. q \in K
    BY <1>1, StandingLess
  <2> QED BY <1>2, <2>1, PathFacts DEF Rooting
<1>4. PICK s, t, m : s = Ranked(K, q) /\ t = Ranked(L, q) /\ m = Moved({x}, el, s)
  OBVIOUS
<1>5. /\ s \in Paths /\ Len(s) = Len(q)
      /\ \A i \in 1..Len(q) :
           /\ ~q[i].isIdx => s[i] = q[i]
           /\ q[i].isIdx => s[i] = Index(Rank(K, Prefix(q, i - 1), q[i].index))
  BY <1>3, <1>4, RankedFacts
<1>6. /\ t \in Paths /\ Len(t) = Len(q)
      /\ \A i \in 1..Len(q) :
           /\ ~q[i].isIdx => t[i] = q[i]
           /\ q[i].isIdx => t[i] = Index(Rank(L, Prefix(q, i - 1), q[i].index))
  BY <1>3, <1>4, RankedFacts
<1>7. /\ m \in Paths /\ Len(m) = Len(q)
      /\ \A i \in 1..Len(q) : m[i] = IF Turns({x}, el, s, i) THEN Index(s[i].index - 1) ELSE s[i]
  <2>1. {x} \subseteq Paths
    BY <1>2
  <2>2. /\ m \in Paths /\ Len(m) = Len(s)
        /\ \A i \in 1..Len(s) : m[i] = IF Turns({x}, el, s, i) THEN Index(s[i].index - 1) ELSE s[i]
    BY <1>2, <1>4, <1>5, <2>1, MovedFacts
  <2> QED BY <1>5, <2>2
<1>8. ASSUME NEW i \in 1..Len(q) PROVE Prefix(s, i - 1) = x <=> Prefix(q, i - 1) = x
  <2>1. PICK y : y = Prefix(q, i - 1)
    OBVIOUS
  <2>2. y \in Paths /\ y \in K /\ i - 1 \in 0..Len(q)
    <3>1. y \in Paths /\ IsPrefix(y, q)
      BY <1>3, <2>1, PrefixStep
    <3> QED BY <1>2, <1>3, <3>1 DEF Rooting
  <2>3. Prefix(s, i - 1) = Ranked(K, y)
    BY <1>3, <1>4, <2>1, <2>2, RankedPrefix
  <2>4. Ranked(K, y) \in Paths /\ Len(Ranked(K, y)) = Len(y)
    BY <2>2, RankedFacts
  <2>5. ASSUME Ranked(K, y) = x PROVE y = x
    <3>1. IsPrefix(x, Ranked(K, y))
      BY <1>2, <2>5, LeadsToItself
    <3>2. IsPrefix(x, y)
      BY <1>1, <1>2, <2>2, <3>1, ClearLeads
    <3>3. Len(x) = Len(y) /\ \A j \in 1..Len(x) : y[j] = x[j]
      BY <1>2, <2>2, <2>4, <2>5, <3>2, LeadsPointwise
    <3> QED BY <1>2, <2>2, <3>3, SamePath
  <2>6. ASSUME y = x PROVE Ranked(K, y) = x
    BY <1>1, <1>2, <2>2, <2>6, ClearPlace
  <2> QED BY <2>1, <2>3, <2>5, <2>6
<1>9. ASSUME NEW i \in 1..Len(q) PROVE m[i] = t[i]
  <2>1. CASE ~q[i].isIdx
    <3>1. ~Turns({x}, el, s, i)
      BY <1>5, <2>1 DEF Turns
    <3> QED BY <1>5, <1>6, <1>7, <2>1, <3>1
  <2>2. CASE q[i].isIdx
    <3>1. PICK y, n : y = Prefix(q, i - 1) /\ n = q[i].index
      OBVIOUS
    <3>2. PICK k : k = Rank(K, y, n)
      OBVIOUS
    <3>3. /\ Rank(L, y, n) = IF y = x /\ el.isIdx /\ n > el.index THEN k - 1 ELSE k
          /\ y = x /\ el.isIdx => (k > el.index <=> n > el.index)
      BY <1>1, <2>2, <3>1, <3>2, RankAfter
    <3>4. s[i] = Index(k) /\ t[i] = Index(Rank(L, y, n))
      BY <1>5, <1>6, <2>2, <3>1, <3>2
    <3>5. s[i].isIdx /\ s[i].index = k
      BY <3>4, IndexIs
    <3>6. Turns({x}, el, s, i) <=> y = x /\ el.isIdx /\ n > el.index
      <4>1. Prefix(s, i - 1) \in {x} <=> y = x
        BY <1>8, <3>1
      <4> QED BY <3>3, <3>5, <4>1 DEF Turns
    <3> QED BY <1>7, <3>3, <3>4, <3>5, <3>6
  <2> QED BY <2>1, <2>2
<1>10. Len(m) = Len(t) /\ \A i \in 1..Len(m) : m[i] = t[i]
  BY <1>6, <1>7, <1>9
<1> QED BY <1>1, <1>4, <1>6, <1>7, <1>10, SamePath

-----------------------------------------------------------------------------
(* One removal                                                             *)

(* Nothing is found at two places: REMOVE makes no aliases.                *)
Unshared(doc) == \A p \in DOMAIN doc.at : \A q \in DOMAIN doc.at : doc.ref[p] = doc.ref[q] => p = q

(* doc is what the removals R leave of at.                                 *)
Left(doc, at, R) == Rooted(doc) /\ Unshared(doc) /\ Shows(Attributes(doc), at, Standing(at, R))

Shown(doc, at, K) ==
    /\ \A p : (p \in DOMAIN doc.at /\ Visible(p)) <=> \E q \in K : p = Ranked(K, q)
    /\ \A q \in K : doc.at[Ranked(K, q)] = at[q]

LEMMA ShownShows ==
    ASSUME NEW doc, NEW at, NEW K
    PROVE  Shows(Attributes(doc), at, K) <=> Shown(doc, at, K)
<1>1. PICK out : out = Attributes(doc)
  OBVIOUS
<1>2. /\ \A p : p \in DOMAIN out <=> p \in DOMAIN doc.at /\ Visible(p)
      /\ \A p \in DOMAIN out : out[p] = doc.at[p]
  BY <1>1, AttributesFacts
<1>3. out = [p \in DOMAIN out |-> out[p]]
  BY <1>1 DEF Attributes
<1>4. PICK D : D = {Ranked(K, q) : q \in K}
  OBVIOUS
<1>5. \A p : p \in D <=> \E q \in K : p = Ranked(K, q)
  BY <1>4
<1>6. ASSUME Shows(out, at, K) PROVE Shown(doc, at, K)
  <2>1. out = [p \in D |-> out[p]] /\ \A q \in K : out[Ranked(K, q)] = at[q]
    BY <1>4, <1>6 DEF Shows
  <2>2. DOMAIN out = D
    BY <2>1
  <2>3. \A q \in K : Ranked(K, q) \in DOMAIN out
    BY <1>5, <2>2
  <2>4. \A q \in K : doc.at[Ranked(K, q)] = at[q]
    BY <1>2, <2>1, <2>3
  <2> QED BY <1>2, <1>5, <2>2, <2>4 DEF Shown
<1>7. ASSUME Shown(doc, at, K) PROVE Shows(out, at, K)
  <2>1. \A p : p \in DOMAIN out <=> p \in D
    BY <1>2, <1>5, <1>7 DEF Shown
  <2>2. DOMAIN out = D
    BY <2>1
  <2>3. \A q \in K : Ranked(K, q) \in DOMAIN out
    BY <1>5, <2>2
  <2>4. \A q \in K : out[Ranked(K, q)] = at[q]
    BY <1>2, <1>7, <2>3 DEF Shown
  <2>5. out = [p \in D |-> out[p]]
    BY <1>3, <2>2
  <2> QED BY <1>4, <2>4, <2>5 DEF Shows
<1> QED BY <1>1, <1>6, <1>7

LEMMA ClearName ==
    ASSUME NEW P \in Paths, P # Here, NEW R, Clear(Front(P), R), ~Last(P).isIdx
    PROVE  Clear(P, R)
<1>1. PICK x : x = Front(P)
  OBVIOUS
<1>2. x \in Paths /\ Len(x) = Len(P) - 1 /\ Len(P) \in Nat /\ \A i \in 1..(Len(P) - 1) : x[i] = P[i]
  BY <1>1, FrontFacts, PathFacts
<1>3. ASSUME NEW i \in 1..Len(P), P[i].isIdx, NEW m \in 0..P[i].index
      PROVE  Slot(Prefix(P, i - 1), Index(m)) \notin R
  <2>1. i # Len(P)
    BY <1>3 DEF Last
  <2>2. i \in 1..Len(x) /\ x[i] = P[i] /\ i - 1 \in 0..Len(P) /\ i - 1 \in 0..Len(x)
    BY <1>2, <2>1
  <2>3. PICK y, z : y = Prefix(x, i - 1) /\ z = Prefix(P, i - 1)
    OBVIOUS
  <2>4. y \in Paths /\ Len(y) = i - 1 /\ \A j \in 1..(i - 1) : y[j] = x[j]
    BY <1>2, <2>2, <2>3, PrefixFacts
  <2>5. z \in Paths /\ Len(z) = i - 1 /\ \A j \in 1..(i - 1) : z[j] = P[j]
    BY <2>2, <2>3, PrefixFacts
  <2>6. \A j \in 1..(i - 1) : y[j] = z[j]
    BY <1>2, <2>2, <2>4, <2>5
  <2>7. y = z
    BY <2>4, <2>5, <2>6, SamePath
  <2> QED BY <1>1, <1>3, <2>2, <2>3, <2>7 DEF Clear
<1> QED BY <1>3 DEF Clear

LEMMA CutStep ==
    ASSUME NEW at, NEW R, NEW P, Removable(at, R, P), NEW doc, Left(doc, at, R),
           Front(P) \in DOMAIN doc.at, NEW out, out = Cut(doc, Front(P), Last(P))
    PROVE  Left(out, at, With(R, P))
<1>1. PICK K, L, x, el :
        K = Standing(at, R) /\ L = Standing(at, With(R, P)) /\ x = Front(P) /\ el = Last(P)
  OBVIOUS
<1>2. /\ P \in Paths /\ x \in Paths /\ el \in Steps /\ P = Slot(x, el) /\ Clear(P, R)
      /\ IsValue(at) /\ R \subseteq AttributePaths /\ P \in AttributePaths /\ Rooting(K) /\ Rooting(L)
  BY <1>1, RemovableFacts DEF Removable
<1>3. Rooted(doc) /\ Tree(doc) /\ Unshared(doc) /\ Shown(doc, at, K)
  BY <1>1, ShownShows DEF Left, Rooted
<1>4. x \in DOMAIN doc.at /\ out = Cut(doc, x, el)
  BY <1>1
<1>5. x = Here => ~el.isIdx
  <2>1. IsPrefix(Append(x, el), P)
    BY <1>2, LeadsToItself DEF Slot
  <2> QED BY <1>2, <2>1, TopName
<1>6. Rooted(out)
  BY <1>2, <1>3, <1>4, <1>5, CutRooted
<1>7. Places(doc, x) = {x}
  BY <1>3, <1>4 DEF Places, Unshared
<1>8. CutGives(out, doc, x, el)
  BY <1>2, <1>3, <1>4, CutFacts
<1>9. \A p \in DOMAIN doc.at : p \in Kept(doc, x, el) <=> ~IsPrefix(P, p)
  BY <1>2, <1>7 DEF Kept, Below, Slot
<1>10. PICK kept : kept = Kept(doc, x, el)
  OBVIOUS
<1>11. kept \subseteq DOMAIN doc.at /\ kept \subseteq Paths
  BY <1>3, <1>10 DEF Kept, Tree, IsTree
<1>12. /\ \A p : p \in DOMAIN out.at <=> \E s \in kept : p = Moved({x}, el, s)
       /\ \A p \in DOMAIN out.at : \E s \in kept :
             p = Moved({x}, el, s) /\ out.at[p] = doc.at[s] /\ out.ref[p] = doc.ref[s]
  <2>1. /\ DOMAIN out.at = {Moved({x}, el, q) : q \in kept}
        /\ \A p \in DOMAIN out.at : \E q \in kept :
             Moved({x}, el, q) = p /\ out.at[p] = doc.at[q] /\ out.ref[p] = doc.ref[q]
    <3>1. PICK places : places = Places(doc, x)
      OBVIOUS
    <3>2. /\ DOMAIN out.at = {Moved(places, el, q) : q \in kept}
          /\ \A p \in DOMAIN out.at : \E q \in kept :
               Moved(places, el, q) = p /\ out.at[p] = doc.at[q] /\ out.ref[p] = doc.ref[q]
      BY <1>8, <1>10, <3>1 DEF CutGives
    <3> QED BY <1>7, <3>1, <3>2
  <2> QED BY <2>1
<1>13. Unshared(out)
  <2> SUFFICES ASSUME NEW p \in DOMAIN out.at, NEW q \in DOMAIN out.at, out.ref[p] = out.ref[q]
               PROVE  p = q
    BY DEF Unshared
  <2>1. PICK s \in kept : p = Moved({x}, el, s) /\ out.ref[p] = doc.ref[s]
    BY <1>12
  <2>2. PICK t \in kept : q = Moved({x}, el, t) /\ out.ref[q] = doc.ref[t]
    BY <1>12
  <2>3. s = t
    BY <1>3, <1>11, <2>1, <2>2 DEF Unshared
  <2> QED BY <2>1, <2>2, <2>3
<1>14. ASSUME NEW s \in kept PROVE Visible(Moved({x}, el, s)) <=> Visible(s)
  <2>1. PICK m : m = Moved({x}, el, s)
    OBVIOUS
  <2>2. {x} \subseteq Paths /\ s \in Paths /\ Len(s) \in Nat
    BY <1>2, <1>11, PathFacts
  <2>3. /\ m \in Paths /\ Len(m) = Len(s)
        /\ \A i \in 1..Len(s) : m[i] = IF Turns({x}, el, s, i) THEN Index(s[i].index - 1) ELSE s[i]
    BY <1>2, <2>1, <2>2, MovedFacts
  <2>4. m = Here <=> s = Here
    BY <2>2, <2>3, PathFacts
  <2>5. s # Here => m[1] = s[1]
    <3> SUFFICES ASSUME s # Here PROVE m[1] = s[1]
      OBVIOUS
    <3>1. 1 \in 1..Len(s) /\ 0 \in 0..Len(s)
      BY <2>2, PathFacts
    <3>2. Prefix(s, 1 - 1) = Here
      <4>1. Prefix(s, 0) \in Paths /\ Len(Prefix(s, 0)) = 0
        BY <2>2, <3>1, PrefixFacts
      <4> QED BY <4>1, PathFacts
    <3>3. ~Turns({x}, el, s, 1)
      BY <1>5, <3>2 DEF Turns
    <3> QED BY <2>3, <3>1, <3>3
  <2> QED BY <2>1, <2>4, <2>5 DEF Visible
<1>15. ASSUME NEW q \in L
       PROVE  /\ q \in K /\ Ranked(K, q) \in kept /\ Visible(Ranked(K, q))
              /\ Moved({x}, el, Ranked(K, q)) = Ranked(L, q)
  <2>1. q \in K /\ ~IsPrefix(P, q)
    BY <1>1, StandingLess
  <2>2. Ranked(K, q) \in DOMAIN doc.at /\ Visible(Ranked(K, q))
    BY <1>3, <2>1 DEF Shown
  <2>3. ~IsPrefix(P, Ranked(K, q))
    BY <1>1, <1>2, <2>1, ClearLeads
  <2>4. Ranked(K, q) \in kept
    BY <1>9, <1>10, <2>2, <2>3
  <2>5. Moved({x}, el, Ranked(K, q)) = Ranked(L, q)
    BY <1>1, MovedRanks
  <2> QED BY <2>1, <2>2, <2>4, <2>5
<1>16. ASSUME NEW s \in kept, Visible(s) PROVE \E q \in L : s = Ranked(K, q)
  <2>1. PICK q \in K : s = Ranked(K, q)
    BY <1>3, <1>11, <1>16 DEF Shown
  <2>2. ~IsPrefix(P, s)
    BY <1>9, <1>10, <1>11
  <2>3. ~IsPrefix(P, q)
    BY <1>1, <1>2, <2>1, <2>2, ClearLeads
  <2>4. q \in L
    BY <1>1, <2>3, StandingLess
  <2> QED BY <2>1, <2>4
<1>17. ASSUME NEW p PROVE (p \in DOMAIN out.at /\ Visible(p)) <=> \E q \in L : p = Ranked(L, q)
  <2>1. ASSUME p \in DOMAIN out.at, Visible(p) PROVE \E q \in L : p = Ranked(L, q)
    <3>1. PICK s \in kept : p = Moved({x}, el, s)
      BY <1>12, <2>1
    <3>2. PICK q \in L : s = Ranked(K, q)
      BY <1>14, <1>16, <2>1, <3>1
    <3> QED BY <1>15, <3>1, <3>2
  <2>2. ASSUME NEW q \in L, p = Ranked(L, q) PROVE p \in DOMAIN out.at /\ Visible(p)
    BY <1>12, <1>14, <1>15, <2>2
  <2> QED BY <2>1, <2>2
<1>18. ASSUME NEW q \in L PROVE out.at[Ranked(L, q)] = at[q]
  <2>1. PICK p : p = Ranked(L, q)
    OBVIOUS
  <2>2. p \in DOMAIN out.at /\ Visible(p)
    BY <1>17, <2>1
  <2>3. PICK s \in kept : p = Moved({x}, el, s) /\ out.at[p] = doc.at[s]
    BY <1>12, <2>2
  <2>4. PICK r \in L : s = Ranked(K, r)
    BY <1>14, <1>16, <2>2, <2>3
  <2>5. Ranked(L, r) = Ranked(L, q)
    BY <1>15, <2>1, <2>3, <2>4
  <2>6. r = q
    BY <1>2, <2>5, RankedOnce
  <2>7. doc.at[Ranked(K, q)] = at[q]
    BY <1>3, <1>15 DEF Shown
  <2> QED BY <2>1, <2>3, <2>4, <2>6, <2>7
<1>19. Shown(out, at, L)
  BY <1>17, <1>18 DEF Shown
<1> QED BY <1>1, <1>6, <1>13, <1>19, ShownShows DEF Left

-----------------------------------------------------------------------------
(* What a REMOVE finds where its path leads                                *)

LEMMA ClearThere ==
    ASSUME NEW at, IsValue(at), NEW R, R \subseteq AttributePaths,
           NEW y \in Paths, Visible(y), Clear(y, R), NEW doc, Shown(doc, at, Standing(at, R))
    PROVE  /\ y \in DOMAIN doc.at <=> y \in Standing(at, R)
           /\ y \in Standing(at, R) => doc.at[y] = at[y]
<1>1. PICK K : K = Standing(at, R)
  OBVIOUS
<1>2. Rooting(K)
  BY <1>1, StandingRooting
<1>3. ASSUME y \in K PROVE y \in DOMAIN doc.at /\ doc.at[y] = at[y]
  <2>1. Ranked(K, y) = y
    BY <1>1, <1>3, ClearPlace
  <2> QED BY <1>1, <1>3, <2>1 DEF Shown
<1>4. ASSUME y \in DOMAIN doc.at PROVE y \in K
  <2>1. PICK q \in K : y = Ranked(K, q)
    BY <1>1, <1>4 DEF Shown
  <2>2. IsPrefix(y, Ranked(K, q))
    BY <2>1, LeadsToItself
  <2>3. IsPrefix(y, q)
    BY <1>1, <2>2, ClearLeads
  <2> QED BY <1>2, <2>3 DEF Rooting
<1> QED BY <1>1, <1>3, <1>4

LEMMA AttributeVisible ==
    ASSUME NEW P \in AttributePaths, NEW y \in Paths, IsPrefix(y, P)
    PROVE  Visible(y)
<1>1. P \in Paths /\ ~P[1].isIdx
  BY DEF AttributePaths
<1>2. CASE y # Here
  <2>1. Len(y) \in Nat /\ Len(y) # 0
    BY <1>2, PathFacts
  <2>2. y[1] = P[1]
    BY <1>1, <2>1, LeadsPointwise
  <2> QED BY <1>1, <2>2 DEF Visible
<1>3. CASE y = Here
  BY <1>3 DEF Visible
<1> QED BY <1>2, <1>3

(* What the type must be for a REMOVE to pass.                             *)
Fits(at, P) == Front(P) \in DOMAIN at => at[Front(P)].type = IF Last(P).isIdx THEN "L" ELSE "M"

(* P is removed after R.                                                   *)
Due(at, R, P) ==
    /\ IsValue(at) /\ R \subseteq AttributePaths /\ P \in AttributePaths
    /\ \A r \in R : ~IsPrefix(r, P)
    /\ Clear(Front(P), R)
    /\ Last(P).isIdx /\ Fits(at, P) /\ Front(P) \in DOMAIN at => Clear(P, R)

LEMMA RemoveStep ==
    ASSUME NEW at, NEW R, NEW P, Due(at, R, P), NEW doc, Left(doc, at, R),
           NEW out \in applyRemove(doc, P)
    PROVE  Left(out, at, With(R, P)) /\ Fits(at, P)
<1>1. PICK K, x, el : K = Standing(at, R) /\ x = Front(P) /\ el = Last(P)
  OBVIOUS
<1>2. /\ IsValue(at) /\ R \subseteq AttributePaths /\ P \in AttributePaths /\ Clear(x, R)
      /\ \A r \in R : ~IsPrefix(r, P)
  BY <1>1 DEF Due
<1>3. P \in Paths /\ P # Here /\ \A r \in R : r \in Paths
  BY <1>2 DEF AttributePaths, Here
<1>4. x \in Paths /\ el \in Steps /\ P = Slot(x, el) /\ IsPrefix(x, P)
  <2>1. x \in Paths /\ el \in Steps /\ P = Slot(x, el)
    BY <1>1, <1>3, FrontFacts DEF Slot
  <2> QED BY <2>1, SlotAfter
<1>5. Shown(doc, at, K) /\ Rooting(K)
  BY <1>1, <1>2, ShownShows, StandingRooting DEF Left
<1>6. Visible(x) /\ Visible(P)
  BY <1>2, <1>3, <1>4, AttributeVisible, LeadsToItself
<1>7. /\ x \in DOMAIN doc.at <=> x \in K
      /\ x \in K => doc.at[x] = at[x]
  BY <1>1, <1>2, <1>4, <1>5, <1>6, ClearThere
<1>8. x \in DOMAIN at <=> x \in K
  <2>1. ASSUME NEW r \in R, IsPrefix(r, x) PROVE FALSE
    <3>1. IsPrefix(r, P)
      BY <1>3, <1>4, <2>1, LeadsOn
    <3> QED BY <1>2, <3>1
  <2> QED BY <1>1, <2>1 DEF Standing
<1>9. out \in IF x \notin DOMAIN doc.at THEN {doc}
              ELSE IF el.isIdx
              THEN IF doc.at[x].type = "L" /\ P \in DOMAIN doc.at THEN {Cut(doc, x, el)} ELSE {}
              ELSE IF doc.at[x].type = "M" THEN {Cut(doc, x, el)} ELSE {}
  BY <1>1 DEF applyRemove
<1>10. CASE x \notin DOMAIN doc.at
  <2>1. x \notin DOMAIN at /\ out = doc
    BY <1>7, <1>8, <1>9, <1>10
  <2>2. ASSUME NEW q \in DOMAIN at, IsPrefix(P, q) PROVE FALSE
    <3>1. q \in Paths /\ IsTree(DOMAIN at)
      BY <1>2 DEF IsValue, IsTree
    <3>2. IsPrefix(x, q)
      BY <1>3, <1>4, <2>2, <3>1, LeadsOn
    <3>3. x \in DOMAIN at
      BY <1>4, <3>1, <3>2, LeadsInto
    <3> QED BY <2>1, <3>3
  <2>3. \A q : q \in Standing(at, With(R, P)) <=> q \in K
    BY <1>1, <2>2, StandingLess DEF Standing
  <2>4. Standing(at, With(R, P)) = K
    BY <2>3
  <2> QED BY <1>1, <2>1, <2>4 DEF Left, Fits
<1>11. CASE x \in DOMAIN doc.at
  <2>1. x \in DOMAIN at /\ doc.at[x].type = at[x].type
    BY <1>7, <1>8, <1>11
  <2>2. out = Cut(doc, x, el) /\ at[x].type = IF el.isIdx THEN "L" ELSE "M"
    BY <1>9, <1>11, <2>1
  <2>3. Fits(at, P)
    BY <1>1, <2>2 DEF Fits
  <2>4. Clear(P, R)
    <3>1. CASE el.isIdx
      BY <1>1, <2>1, <2>3, <3>1 DEF Due
    <3>2. CASE ~el.isIdx
      BY <1>1, <1>2, <1>3, <3>2, ClearName
    <3> QED BY <3>1, <3>2
  <2>5. el.isIdx => P \in K
    <3> SUFFICES ASSUME el.isIdx PROVE P \in K
      OBVIOUS
    <3>1. P \in DOMAIN doc.at
      BY <1>9, <1>11
    <3> QED BY <1>1, <1>2, <1>3, <1>5, <1>6, <2>4, <3>1, ClearThere
  <2>6. Removable(at, R, P)
    BY <1>1, <1>2, <2>4, <2>5 DEF Removable
  <2>7. Left(out, at, With(R, P))
    BY <1>1, <1>11, <2>2, <2>6, CutStep
  <2> QED BY <2>3, <2>7
<1> QED BY <1>10, <1>11

-----------------------------------------------------------------------------
(* The order of the REMOVEs                                                *)

SideBySide(a, b) == Front(a.path) = Front(b.path)
ByIndex(a) == Last(a.path).isIdx

(* a goes where the elements from p on, which it goes before, move up.     *)
Inserts(out, sorted, a, p) ==
    /\ Len(out) = Len(sorted) + 1
    /\ \A i \in 1..(Len(sorted) + 1) :
          out[i] = IF i < p THEN sorted[i] ELSE IF i = p THEN a ELSE sorted[i - 1]
    /\ \A i \in p..Len(sorted) : GoesBefore(a, sorted[i])
    /\ p > 1 => ~GoesBefore(a, sorted[p - 1])

Within(s, m, n, R) == \A i \in m..n : s[i] \in R
PartOf(t, s, m, k) == Len(t) = k /\ \A i \in 1..k : t[i] = s[m + i - 1]

LEMMA SubSeqPart ==
    ASSUME NEW R, NEW s, NEW m \in Int, NEW n \in Int, Within(s, m, n, R),
           NEW k \in Nat, k = n - m + 1, NEW t, t = SubSeq(s, m, n)
    PROVE  t \in Seq(R) /\ PartOf(t, s, m, k)
<1>2. t \in Seq(R) /\ Len(t) = (IF m <= n THEN n - m + 1 ELSE 0)
      /\ \A i \in 1..(n - m + 1) : t[i] = s[m + i - 1]
  BY SubSeqProperties DEF Within
<1>3. Len(t) = k
  BY <1>2
<1> QED BY <1>2, <1>3 DEF PartOf

LEMMA InsertGives ==
    ASSUME NEW R, NEW sorted \in Seq(R), NEW a \in R
    PROVE  \E p \in 1..(Len(sorted) + 1) : Inserts(Inserted(sorted, a), sorted, a, p)
<1> DEFINE stops == {i \in 1..Len(sorted) : ~GoesBefore(a, sorted[i])}
           stop == IF stops = {} THEN 0 ELSE CHOOSE i \in stops : \A j \in stops : j <= i
<1>1. PICK n \in Nat : n = Len(sorted)
  BY LenProperties
<1>2. stop \in 0..n /\ (stop # 0 => stop \in stops) /\ \A j \in stops : j <= stop
  <2>1. CASE stops = {}
    BY <1>1, <2>1
  <2>2. CASE stops # {}
    <3>1. stops \subseteq 0..n
      BY <1>1
    <3> HIDE DEF stops
    <3>2. \E i \in stops : \A j \in stops : j <= i
      BY <1>1, <2>2, <3>1, Greatest
    <3>3. stop \in stops /\ \A j \in stops : j <= stop
      BY <2>2, <3>2
    <3> QED BY <3>1, <3>3
  <2> QED BY <2>1, <2>2
<1>3. Inserted(sorted, a) = InsertAt(sorted, stop + 1, a)
  BY DEF Inserted
<1>4. PICK p \in 1..(n + 1) : p = stop + 1
  <2> HIDE DEF stop, stops
  <2>1. stop + 1 \in 1..(n + 1)
    BY <1>2
  <2> QED BY <2>1
<1>5. \A i \in p..n : GoesBefore(a, sorted[i])
  <2> SUFFICES ASSUME NEW i \in p..n, ~GoesBefore(a, sorted[i]) PROVE FALSE
    OBVIOUS
  <2>1. i \in stops
    BY <1>1, <1>4
  <2>2. i <= stop
    <3> HIDE DEF stops, stop
    <3> QED BY <1>2, <2>1
  <2> HIDE DEF stop
  <2> QED BY <1>2, <1>4, <2>2
<1>6. p > 1 => ~GoesBefore(a, sorted[p - 1])
  <2> SUFFICES ASSUME p > 1 PROVE ~GoesBefore(a, sorted[p - 1])
    OBVIOUS
  <2>1. stop # 0 /\ p - 1 = stop
    <3> HIDE DEF stop
    <3> QED BY <1>2, <1>4
  <2>2. stop \in stops
    <3> HIDE DEF stop
    <3> QED BY <1>2, <2>1
  <2>3. ~GoesBefore(a, sorted[stop])
    <3> HIDE DEF stop
    <3> QED BY <2>2
  <2> HIDE DEF stop
  <2> QED BY <2>1, <2>3
<1>7. PICK out : out = Inserted(sorted, a)
  OBVIOUS
<1>8. out = InsertAt(sorted, p, a)
  <2> HIDE DEF stop
  <2> QED BY <1>3, <1>4, <1>7
<1>9. out = SubSeq(sorted, 1, p - 1) \o <<a>> \o SubSeq(sorted, p, n)
  BY <1>1, <1>8 DEF InsertAt
<1>10. \A i \in 1..n : sorted[i] \in R
  BY <1>1, LenProperties
<1>11. PICK u, v : u = SubSeq(sorted, 1, p - 1) /\ v = SubSeq(sorted, p, n)
  OBVIOUS
<1>12. u \in Seq(R) /\ Len(u) = p - 1 /\ \A i \in 1..(p - 1) : u[i] = sorted[i]
  <2>1. PICK k \in Nat : k = p - 1
    OBVIOUS
  <2>2. \A i \in 1..k : sorted[i] \in R /\ 1 + i - 1 = i
    BY <1>10, <2>1
  <2>3. 1 \in Int /\ k \in Int /\ k = k - 1 + 1
    OBVIOUS
  <2>4. u = SubSeq(sorted, 1, k)
    BY <1>11, <2>1
  <2>5. PICK one \in Int : one = 1
    BY <2>3
  <2>8. k = k - one + 1 /\ Within(sorted, one, k, R)
    BY <2>2, <2>5 DEF Within
  <2>9. u = SubSeq(sorted, one, k)
    BY <2>4, <2>5
  <2>6. u \in Seq(R) /\ PartOf(u, sorted, one, k)
    BY <2>3, <2>8, <2>9, SubSeqPart
  <2>7. \A i \in 1..k : u[i] = sorted[i]
    BY <2>2, <2>5, <2>6 DEF PartOf
  <2> QED BY <2>1, <2>6, <2>7 DEF PartOf
<1>13. v \in Seq(R) /\ Len(v) = n + 1 - p /\ \A i \in 1..(n + 1 - p) : v[i] = sorted[p + i - 1]
  <2>1. \A i \in p..n : i \in 1..n
    OBVIOUS
  <2>2. Within(sorted, p, n, R)
    BY <1>10, <2>1 DEF Within
  <2>3. PICK k \in Nat : k = n + 1 - p
    OBVIOUS
  <2>4. k = n - p + 1 /\ p \in Int /\ n \in Int
    BY <2>3
  <2>5. v \in Seq(R) /\ PartOf(v, sorted, p, k)
    BY <1>11, <2>2, <2>4, SubSeqPart
  <2> QED BY <2>3, <2>5 DEF PartOf
<1>14. PICK w : w = u \o <<a>>
  OBVIOUS
<1>15. /\ w \in Seq(R) /\ Len(w) = p
       /\ \A i \in 1..p : w[i] = IF i < p THEN sorted[i] ELSE a
  <2>1. <<a>> \in Seq(R) /\ Len(<<a>>) = 1 /\ <<a>>[1] = a
    OBVIOUS
  <2>2. w \in Seq(R) /\ Len(w) = Len(u) + 1
        /\ \A i \in 1..(Len(u) + 1) : w[i] = IF i <= Len(u) THEN u[i] ELSE <<a>>[i - Len(u)]
    BY <1>12, <1>14, <2>1, ConcatProperties
  <2>3. PICK m \in Nat : m = Len(u) /\ m = p - 1
    BY <1>12
  <2>4. w \in Seq(R) /\ Len(w) = m + 1
        /\ \A i \in 1..(m + 1) : w[i] = IF i <= m THEN u[i] ELSE <<a>>[i - m]
    BY <2>2, <2>3
  <2>5. \A i \in 1..p : i \in 1..(m + 1) /\ (i <= m <=> i < p) /\ (i <= m => i \in 1..(p - 1))
                        /\ (~(i < p) => i - m = 1)
    BY <2>3
  <2>6. \A i \in 1..p : w[i] = IF i < p THEN sorted[i] ELSE a
    BY <1>12, <2>1, <2>4, <2>5
  <2> QED BY <2>3, <2>4, <2>6
<1>16. /\ Len(out) = n + 1
       /\ \A i \in 1..(n + 1) :
             out[i] = IF i < p THEN sorted[i] ELSE IF i = p THEN a ELSE sorted[i - 1]
  <2>1. out = w \o v
    BY <1>9, <1>11, <1>14
  <2>2. Len(out) = Len(w) + Len(v)
        /\ \A i \in 1..(Len(w) + Len(v)) : out[i] = IF i <= Len(w) THEN w[i] ELSE v[i - Len(w)]
    BY <1>13, <1>15, <2>1, ConcatProperties
  <2>3. PICK m : m = n + 1 - p
    OBVIOUS
  <2>4. Len(out) = p + m /\ \A i \in 1..(p + m) : out[i] = IF i <= p THEN w[i] ELSE v[i - p]
    BY <1>13, <1>15, <2>2, <2>3
  <2>5. m \in Nat /\ p + m = n + 1
    BY <2>3
  <2>6. ASSUME NEW i \in 1..(n + 1), i > p PROVE out[i] = sorted[i - 1]
    <3>1. i - p \in 1..(n + 1 - p) /\ p + (i - p) - 1 = i - 1 /\ ~(i <= p) /\ i \in 1..(p + m)
      BY <2>5, <2>6
    <3>2. out[i] = v[i - p]
      BY <2>4, <3>1
    <3>3. v[i - p] = sorted[p + (i - p) - 1]
      BY <1>13, <3>1
    <3> QED BY <3>1, <3>2, <3>3
  <2>7. ASSUME NEW i \in 1..(n + 1), i <= p
        PROVE  out[i] = IF i < p THEN sorted[i] ELSE a
    <3>1. i \in 1..p /\ i \in 1..(p + m)
      BY <2>5, <2>7
    <3> QED BY <1>15, <2>4, <2>7, <3>1
  <2>8. \A i \in 1..(n + 1) :
           out[i] = IF i < p THEN sorted[i] ELSE IF i = p THEN a ELSE sorted[i - 1]
    <3> SUFFICES ASSUME NEW i \in 1..(n + 1)
                 PROVE out[i] = IF i < p THEN sorted[i] ELSE IF i = p THEN a ELSE sorted[i - 1]
      OBVIOUS
    <3>1. i > p \/ i = p \/ i < p
      OBVIOUS
    <3>2. CASE i > p
      <4>1. ~(i < p) /\ i # p
        BY <3>2
      <4> QED BY <2>6, <3>2, <4>1
    <3>3. CASE i = p
      <4>1. ~(i < p) /\ i <= p
        BY <3>3
      <4> QED BY <2>7, <3>3, <4>1
    <3>4. CASE i < p
      BY <2>7, <3>4
    <3> QED BY <3>1, <3>2, <3>3, <3>4
  <2> QED BY <2>4, <2>5, <2>8
<1>17. Inserts(out, sorted, a, p)
  BY <1>1, <1>5, <1>6, <1>16 DEF Inserts
<1> QED BY <1>1, <1>7, <1>17

-----------------------------------------------------------------------------
(* What the order is                                                       *)

LEMMA Neighbours ==
    ASSUME NEW p \in AttributePaths, NEW q \in AttributePaths
    PROVE  SameParent(p, q) <=> Front(p) = Front(q)
<1>1. p \in Paths /\ q \in Paths /\ p # Here /\ q # Here
  BY DEF AttributePaths, Here
<1>2. /\ Len(p) \in Nat /\ Len(Front(p)) = Len(p) - 1
      /\ Len(q) \in Nat /\ Len(Front(q)) = Len(q) - 1
  BY <1>1, FrontFacts
<1>3. Front(p) = Front(q) => Len(p) = Len(q)
  BY <1>2
<1> QED BY <1>3 DEF SameParent

(* Elements that share a list stand together, the higher index first; one  *)
(* that has a lower index before it has a name before it.                  *)
Together(s) ==
    \A i, j, k \in 1..Len(s) : i < j /\ j < k /\ SideBySide(s[i], s[k]) => SideBySide(s[i], s[j])

HighFirst(s) ==
    \A i, j \in 1..Len(s) :
        /\ i < j /\ SideBySide(s[i], s[j]) /\ ByIndex(s[i]) /\ ByIndex(s[j])
        /\ Last(s[i].path).index <= Last(s[j].path).index
        => \E k \in 1..(j - 1) : SideBySide(s[k], s[j]) /\ ~ByIndex(s[k])

Different(s) == \A i, j \in 1..Len(s) : i < j => s[i].path # s[j].path

RemovesOf(s) == Len(s) \in Nat /\ \A i \in 1..Len(s) : s[i].path \in AttributePaths

LEMMA GoesFacts ==
    ASSUME NEW a, a.path \in AttributePaths, NEW b, b.path \in AttributePaths
    PROVE  GoesBefore(a, b) <=> /\ ByIndex(a) /\ ByIndex(b) /\ SideBySide(a, b)
                                /\ Last(a.path).index > Last(b.path).index
BY Neighbours DEF GoesBefore, ByIndex, SideBySide

(* Paths of one list with one index are one path.                          *)
LEMMA OneOfIndex ==
    ASSUME NEW a, a.path \in AttributePaths, NEW b, b.path \in AttributePaths,
           SideBySide(a, b), ByIndex(a), ByIndex(b), Last(a.path).index = Last(b.path).index
    PROVE  a.path = b.path
<1>1. PICK p, q : p = a.path /\ q = b.path
  OBVIOUS
<1>2. p \in Paths /\ q \in Paths /\ p # Here /\ q # Here
  BY <1>1 DEF AttributePaths, Here
<1>3. /\ Last(p) \in Steps /\ p = Append(Front(p), Last(p))
      /\ Last(q) \in Steps /\ q = Append(Front(q), Last(q))
  BY <1>2, FrontFacts
<1>4. Last(p) = Index(Last(p).index) /\ Last(q) = Index(Last(q).index)
  BY <1>1, <1>3, StepIndex, IndexesAre DEF ByIndex
<1>5. Last(p) = Last(q) /\ Front(p) = Front(q)
  BY <1>1, <1>4 DEF SideBySide
<1> QED BY <1>1, <1>3, <1>5

LEMMA LastIndexNat ==
    ASSUME NEW a, a.path \in AttributePaths, ByIndex(a)
    PROVE  Last(a.path).index \in Nat
<1>1. a.path \in Paths /\ a.path # Here
  BY DEF AttributePaths, Here
<1>2. Last(a.path) \in Steps
  BY <1>1, FrontFacts
<1> QED BY <1>2, StepIndex, IndexesAre DEF ByIndex

-----------------------------------------------------------------------------
(* Insertion keeps the order                                               *)

WellSorted(s) == RemovesOf(s) /\ Together(s) /\ HighFirst(s) /\ Different(s)

LEMMA InsertSorts ==
    ASSUME NEW sorted, WellSorted(sorted), NEW a, a.path \in AttributePaths,
           \A i \in 1..Len(sorted) : sorted[i].path # a.path,
           \A i \in 1..Len(sorted) : SideBySide(sorted[i], a) => SideBySide(sorted[Len(sorted)], a),
           NEW p \in 1..(Len(sorted) + 1), NEW out, Inserts(out, sorted, a, p)
    PROVE  WellSorted(out) /\ SideBySide(out[Len(out)], a)
<1>1. PICK n \in Nat : n = Len(sorted)
  BY DEF WellSorted, RemovesOf
<1>2. /\ p \in 1..(n + 1) /\ Len(out) = n + 1
      /\ \A i \in 1..(n + 1) : out[i] = IF i < p THEN sorted[i] ELSE IF i = p THEN a ELSE sorted[i - 1]
      /\ \A i \in 1..n : sorted[i].path \in AttributePaths /\ sorted[i].path # a.path
      /\ \A i, j \in 1..n : i < j => sorted[i].path # sorted[j].path
      /\ \A i \in 1..n : SideBySide(sorted[i], a) => SideBySide(sorted[n], a)
  <2>1. \A i, j \in 1..n : i < j => sorted[i].path # sorted[j].path
    BY <1>1 DEF WellSorted, Different
  <2>2. \A i \in 1..n : sorted[i].path \in AttributePaths
    BY <1>1 DEF WellSorted, RemovesOf
  <2>3. p \in 1..(n + 1) /\ Len(out) = n + 1
        /\ \A i \in 1..(n + 1) : out[i] = IF i < p THEN sorted[i] ELSE IF i = p THEN a ELSE sorted[i - 1]
    BY <1>1 DEF Inserts
  <2> QED BY <1>1, <2>1, <2>2, <2>3
<1>3. ASSUME NEW i \in p..n
      PROVE  /\ ByIndex(a) /\ ByIndex(sorted[i]) /\ SideBySide(sorted[i], a)
             /\ Last(a.path).index > Last(sorted[i].path).index
  <2>1. GoesBefore(a, sorted[i]) /\ sorted[i].path \in AttributePaths
    BY <1>1, <1>2 DEF Inserts
  <2> QED BY <2>1, GoesFacts DEF SideBySide
<1>4. ASSUME p > 1, ByIndex(a), ByIndex(sorted[p - 1]), SideBySide(sorted[p - 1], a)
      PROVE  Last(a.path).index <= Last(sorted[p - 1].path).index
  <2>1. ~GoesBefore(a, sorted[p - 1]) /\ p - 1 \in 1..n
    BY <1>1, <1>2, <1>4 DEF Inserts
  <2>2. sorted[p - 1].path \in AttributePaths
    BY <1>2, <2>1
  <2>3. ~(Last(a.path).index > Last(sorted[p - 1].path).index)
    BY <1>4, <2>1, <2>2, GoesFacts DEF SideBySide
  <2>4. Last(a.path).index \in Nat /\ Last(sorted[p - 1].path).index \in Nat
    BY <1>4, <2>2, LastIndexNat
  <2> QED BY <2>3, <2>4
<1>5. \A i, j, k \in 1..n : i < j /\ j < k /\ SideBySide(sorted[i], sorted[k]) => SideBySide(sorted[i], sorted[j])
  BY <1>1 DEF WellSorted, Together
<1>6. ASSUME NEW i \in 1..n, SideBySide(sorted[i], a), NEW j \in i..n
      PROVE  SideBySide(sorted[j], a)
  <2>1. SideBySide(sorted[n], a)
    BY <1>2, <1>6
  <2>2. CASE j = i \/ j = n
    BY <1>6, <2>1, <2>2
  <2>3. CASE ~(j = i \/ j = n)
    <3>1. i < j /\ j < n /\ j \in 1..n /\ n \in 1..n
      BY <2>3
    <3>2. SideBySide(sorted[i], sorted[n])
      BY <1>6, <2>1 DEF SideBySide
    <3>3. SideBySide(sorted[i], sorted[j])
      BY <1>5, <3>1, <3>2
    <3> QED BY <1>6, <3>3 DEF SideBySide
  <2> QED BY <2>2, <2>3
<1> DEFINE old(i) == IF i < p THEN i ELSE i - 1
<1>7. \A i \in 1..(n + 1) : i # p => /\ old(i) \in 1..n /\ out[i] = sorted[old(i)]
                                     /\ i > p => old(i) \in p..n
                                     /\ i < p => old(i) = i
  BY <1>2
<1>8. \A i, j \in 1..(n + 1) : i < j /\ i # p /\ j # p => old(i) < old(j)
  BY <1>2
<1>9. \A j \in 1..(n + 1) : j # p => \A k \in 1..(old(j) - 1) :
         \E m \in 1..(j - 1) : m # p /\ m \in 1..(n + 1) /\ old(m) = k
  <2> SUFFICES ASSUME NEW j \in 1..(n + 1), j # p, NEW k \in 1..(old(j) - 1)
               PROVE  \E m \in 1..(j - 1) : m # p /\ m \in 1..(n + 1) /\ old(m) = k
    OBVIOUS
  <2>1. CASE k < p
    <3>1. k \in 1..(j - 1) /\ k # p /\ k \in 1..(n + 1) /\ old(k) = k
      BY <1>2, <2>1
    <3> QED BY <3>1
  <2>2. CASE k >= p
    <3>1. k + 1 \in 1..(j - 1) /\ k + 1 # p /\ k + 1 \in 1..(n + 1) /\ old(k + 1) = k
      BY <1>2, <2>2
    <3> QED BY <3>1
  <2> QED BY <1>2, <2>1, <2>2
<1>10. out[p] = a
  BY <1>2
<1> HIDE DEF old
<1>11. RemovesOf(out)
  <2>1. ASSUME NEW i \in 1..(n + 1) PROVE out[i].path \in AttributePaths
    BY <1>2, <1>7, <1>10
  <2> QED BY <1>2, <2>1 DEF RemovesOf
<1>12. Different(out)
  <2> SUFFICES ASSUME NEW i \in 1..(n + 1), NEW j \in 1..(n + 1), i < j
               PROVE  out[i].path # out[j].path
    BY <1>2 DEF Different
  <2>1. CASE i # p /\ j # p
    <3>1. /\ old(i) < old(j) /\ old(i) \in 1..n /\ old(j) \in 1..n
          /\ out[i] = sorted[old(i)] /\ out[j] = sorted[old(j)]
      BY <1>7, <1>8, <2>1
    <3> QED BY <1>2, <3>1
  <2>2. CASE i = p
    <3>1. out[j] = sorted[old(j)] /\ old(j) \in 1..n
      BY <1>7, <2>2
    <3> QED BY <1>2, <1>10, <2>2, <3>1
  <2>3. CASE j = p
    <3>1. out[i] = sorted[old(i)] /\ old(i) \in 1..n
      BY <1>7, <2>3
    <3> QED BY <1>2, <1>10, <2>3, <3>1
  <2> QED BY <2>1, <2>2, <2>3
<1>13. Together(out)
  <2> SUFFICES ASSUME NEW i \in 1..(n + 1), NEW j \in 1..(n + 1), NEW k \in 1..(n + 1),
                      i < j, j < k, SideBySide(out[i], out[k])
               PROVE  SideBySide(out[i], out[j])
    BY <1>2 DEF Together
  <2>1. CASE i # p /\ j # p /\ k # p
    <3>1. old(i) < old(j) /\ old(j) < old(k)
      BY <1>8, <2>1
    <3> QED BY <1>5, <1>7, <2>1, <3>1
  <2>2. CASE k = p
    <3>1. out[i] = sorted[i] /\ out[j] = sorted[j] /\ i \in 1..n /\ j \in i..n
      BY <1>2, <1>7, <2>2
    <3>2. SideBySide(sorted[i], a)
      BY <1>10, <2>2, <3>1
    <3>3. SideBySide(sorted[j], a)
      BY <1>6, <3>1, <3>2
    <3> QED BY <3>1, <3>2, <3>3 DEF SideBySide
  <2>3. CASE j = p
    <3>1. k > p /\ k # p
      BY <1>2, <2>3
    <3>2. out[k] = sorted[old(k)] /\ old(k) \in p..n
      BY <1>7, <3>1
    <3>3. SideBySide(out[k], a)
      BY <1>3, <3>2
    <3> QED BY <1>10, <2>3, <3>3 DEF SideBySide
  <2>4. CASE i = p
    <3>1. j > p /\ j # p
      BY <1>2, <2>4
    <3>2. out[j] = sorted[old(j)] /\ old(j) \in p..n
      BY <1>7, <3>1
    <3>3. SideBySide(out[j], a)
      BY <1>3, <3>2
    <3> QED BY <1>10, <2>4, <3>3 DEF SideBySide
  <2> QED BY <2>1, <2>2, <2>3, <2>4
<1>14. \A i, j \in 1..n :
        /\ i < j /\ SideBySide(sorted[i], sorted[j]) /\ ByIndex(sorted[i]) /\ ByIndex(sorted[j])
        /\ Last(sorted[i].path).index <= Last(sorted[j].path).index
        => \E k \in 1..(j - 1) : SideBySide(sorted[k], sorted[j]) /\ ~ByIndex(sorted[k])
  BY <1>1 DEF WellSorted, HighFirst
<1>15. HighFirst(out)
  <2> SUFFICES ASSUME NEW i \in 1..(n + 1), NEW j \in 1..(n + 1),
                      i < j, SideBySide(out[i], out[j]), ByIndex(out[i]), ByIndex(out[j]),
                      Last(out[i].path).index <= Last(out[j].path).index
               PROVE  \E k \in 1..(j - 1) : SideBySide(out[k], out[j]) /\ ~ByIndex(out[k])
    BY <1>2 DEF HighFirst
  <2>1. CASE i # p /\ j # p
    <3>1. old(i) < old(j) /\ out[i] = sorted[old(i)] /\ out[j] = sorted[old(j)]
          /\ old(i) \in 1..n /\ old(j) \in 1..n
      BY <1>7, <1>8, <2>1
    <3>2. PICK k \in 1..(old(j) - 1) : SideBySide(sorted[k], sorted[old(j)]) /\ ~ByIndex(sorted[k])
      BY <1>14, <3>1
    <3>3. PICK m \in 1..(j - 1) : m # p /\ m \in 1..(n + 1) /\ old(m) = k
      BY <1>9, <2>1
    <3>4. out[m] = sorted[k]
      BY <1>7, <3>3
    <3> QED BY <3>1, <3>2, <3>4
  <2>2. CASE i = p
    <3>1. j > p /\ j # p
      BY <1>2, <2>2
    <3>2. out[j] = sorted[old(j)] /\ old(j) \in p..n /\ old(j) \in 1..n
      BY <1>7, <3>1
    <3>3. Last(a.path).index > Last(out[j].path).index /\ ByIndex(a)
      BY <1>3, <3>2
    <3>4. out[j].path \in AttributePaths
      BY <1>2, <3>2
    <3>5. Last(a.path).index \in Nat /\ Last(out[j].path).index \in Nat
      BY <3>3, <3>4, LastIndexNat
    <3> QED BY <1>10, <2>2, <3>3, <3>5
  <2>3. CASE j = p
    <3>1. out[i] = sorted[i] /\ i \in 1..n /\ i < p /\ p > 1 /\ p - 1 \in i..n /\ p - 1 \in 1..n
      BY <1>2, <1>7, <2>3
    <3>2. SideBySide(sorted[i], a) /\ ByIndex(sorted[i]) /\ ByIndex(a)
          /\ Last(sorted[i].path).index <= Last(a.path).index
      BY <1>10, <2>3, <3>1
    <3>3. SideBySide(sorted[p - 1], a)
      BY <1>6, <3>1, <3>2
    <3>4. p - 1 \in 1..(j - 1) /\ out[p - 1] = sorted[p - 1]
      BY <1>2, <2>3, <3>1
    <3>5. CASE ~ByIndex(sorted[p - 1])
      BY <1>10, <2>3, <3>3, <3>4, <3>5
    <3>6. CASE ByIndex(sorted[p - 1])
      <4>1. Last(a.path).index <= Last(sorted[p - 1].path).index
        BY <1>4, <3>1, <3>2, <3>3, <3>6
      <4>2. sorted[i].path \in AttributePaths /\ sorted[p - 1].path \in AttributePaths
        BY <1>2, <3>1
      <4>3. /\ Last(a.path).index \in Nat /\ Last(sorted[i].path).index \in Nat
            /\ Last(sorted[p - 1].path).index \in Nat
        BY <3>2, <3>6, <4>2, LastIndexNat
      <4>4. i # p - 1
        <5> SUFFICES ASSUME i = p - 1 PROVE FALSE
          OBVIOUS
        <5>1. Last(a.path).index = Last(sorted[i].path).index
          BY <3>2, <4>1, <4>3
        <5>2. sorted[i].path = a.path
          BY <3>2, <4>2, <5>1, OneOfIndex
        <5> QED BY <1>2, <3>1, <5>2
      <4>5. i < p - 1
        BY <3>1, <4>4
      <4>6. Last(sorted[i].path).index <= Last(sorted[p - 1].path).index
        BY <3>2, <4>1, <4>3
      <4>7. SideBySide(sorted[i], sorted[p - 1])
        BY <3>2, <3>3 DEF SideBySide
      <4>8. PICK k \in 1..(p - 1 - 1) : SideBySide(sorted[k], sorted[p - 1]) /\ ~ByIndex(sorted[k])
        BY <1>14, <3>1, <3>2, <3>6, <4>5, <4>6, <4>7
      <4>9. k \in 1..(j - 1) /\ out[k] = sorted[k]
        BY <1>2, <2>3, <3>1
      <4>10. SideBySide(out[k], out[j])
        BY <1>10, <2>3, <3>3, <4>8, <4>9 DEF SideBySide
      <4> QED BY <4>8, <4>9, <4>10
    <3> QED BY <3>5, <3>6
  <2> QED BY <2>1, <2>2, <2>3
<1>16. SideBySide(out[n + 1], a)
  <2>1. CASE p = n + 1
    BY <1>10, <2>1 DEF SideBySide
  <2>2. CASE p # n + 1
    <3>1. n \in p..n /\ n + 1 \in 1..(n + 1) /\ ~(n + 1 < p) /\ n + 1 # p /\ n + 1 - 1 = n
      BY <1>2, <2>2
    <3>2. out[n + 1] = sorted[n]
      BY <1>2, <3>1
    <3> QED BY <1>3, <3>1, <3>2
  <2> QED BY <2>1, <2>2
<1> QED BY <1>2, <1>11, <1>12, <1>13, <1>15, <1>16 DEF WellSorted

-----------------------------------------------------------------------------
(* The REMOVEs of an update that only removes                              *)

(* Well-formed requests of nothing but REMOVEs, those of a list together.  *)
OnlyRemoves(acts) ==
    /\ Len(acts) \in Nat
    /\ \A i \in 1..Len(acts) : acts[i].op = "remove" /\ acts[i].path \in AttributePaths
    /\ \A i, j \in 1..Len(acts) : i < j => acts[i].path # acts[j].path
    /\ Grouped(acts)

(* The first k of them, sorted.                                            *)
SortedUpTo(s, acts, k) ==
    /\ WellSorted(s) /\ Len(s) = k
    /\ \A i \in 1..k : (\E j \in 1..k : s[i] = acts[j]) /\ (\E j \in 1..k : acts[i] = s[j])
    /\ k > 0 => SideBySide(s[k], acts[k])

LEMMA SortsNext ==
    ASSUME NEW acts, OnlyRemoves(acts), NEW k \in 1..Len(acts), NEW s, SortedUpTo(s, acts, k - 1),
           NEW R, s \in Seq(R), acts[k] \in R, NEW out, out = Inserted(s, acts[k])
    PROVE  SortedUpTo(out, acts, k)
<1>0. PICK n \in Nat : n = Len(acts)
  BY DEF OnlyRemoves
<1>1. PICK m \in 0..n : m = k - 1 /\ k = m + 1 /\ m \in Nat /\ k \in 1..n /\ k \in Nat
  <2>1. k \in 1..n
    BY <1>0
  <2> QED BY <2>1
<1> PICK a : a = acts[k]
  OBVIOUS
<1>2. /\ WellSorted(s) /\ Len(s) = m
      /\ \A i \in 1..m : (\E j \in 1..m : s[i] = acts[j]) /\ (\E j \in 1..m : acts[i] = s[j])
      /\ m > 0 => SideBySide(s[m], acts[m])
  BY <1>1 DEF SortedUpTo
<1>3. \A i \in 1..m : i \in 1..Len(acts) /\ i < k
  BY <1>0, <1>1
<1>4. a.path \in AttributePaths /\ \A i \in 1..m : acts[i].path # a.path
  BY <1>1, <1>3 DEF OnlyRemoves
<1>5. \A i \in 1..m : s[i].path # a.path
  <2> SUFFICES ASSUME NEW i \in 1..m PROVE s[i].path # a.path
    OBVIOUS
  <2>1. PICK j \in 1..m : s[i] = acts[j]
    BY <1>2
  <2> QED BY <1>4, <2>1
<1>6. ASSUME NEW i \in 1..m, SideBySide(s[i], a) PROVE SideBySide(s[m], a)
  <2>1. PICK j \in 1..m : s[i] = acts[j]
    BY <1>2
  <2>2. m > 0 /\ m \in j..k /\ m \in 1..m
    BY <1>1
  <2>3. acts[j].path \in AttributePaths /\ acts[m].path \in AttributePaths
    BY <1>3, <2>2 DEF OnlyRemoves
  <2>4. SameParent(acts[j].path, a.path)
    BY <1>4, <1>6, <2>1, <2>3, Neighbours DEF SideBySide
  <2>5. SameParent(acts[j].path, acts[m].path)
    BY <1>1, <1>3, <2>2, <2>4 DEF OnlyRemoves, Grouped
  <2>6. SideBySide(acts[j], acts[m])
    BY <2>3, <2>5, Neighbours DEF SideBySide
  <2> QED BY <1>2, <1>6, <2>1, <2>2, <2>6 DEF SideBySide
<1>7. PICK p \in 1..(Len(s) + 1) : Inserts(out, s, a, p)
  BY <1>1, InsertGives
<1>8. WellSorted(out) /\ SideBySide(out[Len(out)], a)
  BY <1>2, <1>4, <1>5, <1>6, <1>7, InsertSorts
<1>9. /\ p \in 1..k /\ Len(out) = k
      /\ \A i \in 1..k : out[i] = IF i < p THEN s[i] ELSE IF i = p THEN a ELSE s[i - 1]
  <2>1. /\ Len(out) = Len(s) + 1
        /\ \A i \in 1..(Len(s) + 1) : out[i] = IF i < p THEN s[i] ELSE IF i = p THEN a ELSE s[i - 1]
    BY <1>7 DEF Inserts
  <2> QED BY <1>1, <1>2, <2>1
<1>10. ASSUME NEW i \in 1..k PROVE \E j \in 1..k : out[i] = acts[j]
  <2>1. CASE i = p
    BY <1>1, <1>9, <2>1
  <2>2. CASE i < p
    <3>1. i \in 1..m /\ out[i] = s[i]
      BY <1>1, <1>9, <2>2
    <3>2. PICK j \in 1..m : s[i] = acts[j]
      BY <1>2, <3>1
    <3> QED BY <1>1, <3>1, <3>2
  <2>3. CASE i > p
    <3>1. i - 1 \in 1..m /\ ~(i < p) /\ i # p
      BY <1>1, <1>9, <2>3
    <3>2. out[i] = s[i - 1]
      BY <1>9, <3>1
    <3>3. PICK j \in 1..m : s[i - 1] = acts[j]
      BY <1>2, <3>1
    <3> QED BY <1>1, <3>2, <3>3
  <2> QED BY <1>1, <1>9, <2>1, <2>2, <2>3
<1>11. ASSUME NEW i \in 1..k PROVE \E j \in 1..k : acts[i] = out[j]
  <2>1. CASE i = k
    BY <1>1, <1>9, <2>1
  <2>2. CASE i # k
    <3>1. i \in 1..m
      BY <1>1, <2>2
    <3>2. PICK j \in 1..m : acts[i] = s[j]
      BY <1>2, <3>1
    <3>3. CASE j < p
      BY <1>1, <1>9, <3>2, <3>3
    <3>4. CASE ~(j < p)
      <4>1. j + 1 \in 1..k /\ ~(j + 1 < p) /\ j + 1 # p /\ j + 1 - 1 = j
        BY <1>1, <1>9, <3>4
      <4>2. out[j + 1] = s[j]
        BY <1>9, <4>1
      <4> QED BY <3>2, <4>1, <4>2
    <3> QED BY <3>3, <3>4
  <2> QED BY <2>1, <2>2
<1> QED BY <1>1, <1>8, <1>9, <1>10, <1>11 DEF SortedUpTo

LEMMA RemovesSorted ==
    ASSUME NEW acts, OnlyRemoves(acts)
    PROVE  SortedUpTo(Removes(acts), acts, Len(acts))
<1> DEFINE n == Len(acts)
           removes == CHOOSE f : f = [k \in 0..n |->
                        IF k = 0 THEN <<>>
                        ELSE IF acts[k].op = "remove" THEN Inserted(f[k - 1], acts[k])
                        ELSE f[k - 1]]
           R == {acts[i] : i \in 1..n}
           good(k) == removes[k] \in Seq(R) /\ SortedUpTo(removes[k], acts, k)
<1>1. Removes(acts) = removes[n]
  BY DEF Removes
<1>2. removes = CHOOSE f : Sorted(f, acts, n)
  BY DEF Sorted
<1>0. n \in Nat
  BY DEF OnlyRemoves
<1> HIDE DEF removes
<1>3. Sorted(removes, acts, n)
  BY <1>0, <1>2, SortedExists
<1> DEFINE S == {k \in 0..n : ~good(k)}
<1>4. S = {}
  <2> SUFFICES ASSUME S # {} PROVE FALSE
    OBVIOUS
  <2>1. PICK m \in S : \A j \in S : m <= j
    <3> HIDE DEF good
    <3>1. S \in SUBSET Nat
      BY <1>0
    <3> HIDE DEF S
    <3> QED BY <3>1, Least
  <2> HIDE DEF good
  <2>2. m \in 0..n /\ ~good(m)
    OBVIOUS
  <2>3. removes[m] = IF m = 0 THEN <<>>
                     ELSE IF acts[m].op = "remove" THEN Inserted(removes[m - 1], acts[m])
                     ELSE removes[m - 1]
    BY <1>0, <1>3, <2>2 DEF Sorted
  <2>4. m # 0
    <3> SUFFICES ASSUME m = 0 PROVE FALSE
      OBVIOUS
    <3>1. PICK s : s = removes[0]
      OBVIOUS
    <3>2. s = <<>>
      BY <2>3, <3>1
    <3>3. s \in Seq(R) /\ Len(s) = 0
      <4> HIDE DEF R
      <4> QED BY <3>2, EmptySeq
    <3>4. WellSorted(s)
      BY <3>3 DEF WellSorted, RemovesOf, Together, HighFirst, Different
    <3>5. SortedUpTo(s, acts, 0)
      BY <3>3, <3>4 DEF SortedUpTo
    <3> QED BY <2>2, <3>1, <3>3, <3>5 DEF good
  <2>5. m - 1 \in 0..n /\ ~(m <= m - 1) /\ m \in 1..n
    BY <1>0, <2>2, <2>4
  <2>6. good(m - 1)
    <3>1. m - 1 \notin S
      <4> HIDE DEF S
      <4> QED BY <2>1, <2>5
    <3> QED BY <2>5, <3>1
  <2>7. removes[m - 1] \in Seq(R) /\ SortedUpTo(removes[m - 1], acts, m - 1)
    BY <2>6 DEF good
  <2>8. acts[m].op = "remove" /\ acts[m] \in R
    BY <2>5 DEF OnlyRemoves
  <2>9. removes[m] = Inserted(removes[m - 1], acts[m])
    BY <2>3, <2>4, <2>8
  <2> HIDE DEF R
  <2>10. removes[m] \in Seq(R)
    BY <2>7, <2>8, <2>9, InsertedIn
  <2>11. SortedUpTo(removes[m], acts, m)
    BY <2>5, <2>7, <2>8, <2>9, SortsNext
  <2> QED BY <2>2, <2>10, <2>11 DEF good
<1>5. n \in 0..n
  BY <1>0
<1>6. good(n)
  <2> HIDE DEF good
  <2> QED BY <1>4, <1>5
<1> QED BY <1>1, <1>6

-----------------------------------------------------------------------------
(* Each REMOVE finds what it names where it was                            *)

UpTo(s, k) == {s[j].path : j \in 1..k}

(* The types of what those up to k remove from.                            *)
Fitting(at, s, k) == \A j \in 1..k : Fits(at, s[j].path)

(* Removals that no removal turns aside, in the order they are done in.    *)
Plan(s, acts) ==
    /\ OnlyRemoves(acts) /\ Independent(acts) /\ SortedUpTo(s, acts, Len(acts))
    /\ \A i \in 1..Len(acts) : \A j \in 1..Len(acts) : i # j => ~IsPrefix(acts[i].path, acts[j].path)

LEMMA PlanFacts ==
    ASSUME NEW s, NEW acts, Plan(s, acts), NEW k \in 1..Len(s)
    PROVE  /\ Len(s) \in Nat /\ s[k].path \in AttributePaths /\ s[k].op = "remove"
           /\ \A j \in 1..(k - 1) : /\ j \in 1..Len(s) /\ s[j].path \in AttributePaths
                                    /\ ~IsPrefix(s[j].path, s[k].path)
<1>1. PICK n \in Nat : n = Len(acts) /\ n = Len(s)
  BY DEF Plan, OnlyRemoves, SortedUpTo
<1>2. /\ \A i \in 1..n : \E j \in 1..n : s[i] = acts[j]
      /\ \A i \in 1..n : acts[i].op = "remove" /\ acts[i].path \in AttributePaths
      /\ \A i \in 1..n : \A j \in 1..n : i # j => ~IsPrefix(acts[i].path, acts[j].path)
  BY <1>1 DEF Plan, OnlyRemoves, SortedUpTo
<1>3. \A i, j \in 1..n : i < j => s[i].path # s[j].path
  BY <1>1 DEF Plan, SortedUpTo, WellSorted, Different
<1>4. \A i \in 1..n : s[i].path \in AttributePaths /\ s[i].op = "remove"
  BY <1>2
<1>5. ASSUME NEW j \in 1..(k - 1)
      PROVE  j \in 1..Len(s) /\ s[j].path \in AttributePaths /\ ~IsPrefix(s[j].path, s[k].path)
  <2>1. j \in 1..n /\ j < k /\ k \in 1..n
    BY <1>1
  <2>2. PICK b \in 1..n : s[j] = acts[b]
    BY <1>2, <2>1
  <2>3. PICK c \in 1..n : s[k] = acts[c]
    BY <1>2, <2>1
  <2>4. b # c
    BY <1>3, <2>1, <2>2, <2>3
  <2> QED BY <1>1, <1>2, <1>4, <2>1, <2>2, <2>3, <2>4
<1> QED BY <1>1, <1>4, <1>5

(* What was removed before is not below a step of a path: if it is of the  *)
(* same list, it is of the last.                                           *)
LEMMA PlanTurns ==
    ASSUME NEW s, NEW acts, Plan(s, acts), NEW k \in 1..Len(s), NEW j \in 1..(k - 1),
           NEW P, P = s[k].path, NEW r, r = s[j].path,
           NEW i \in 1..Len(P), P[i].isIdx, NEW m \in 0..P[i].index, r = Slot(Prefix(P, i - 1), Index(m))
    PROVE  i = Len(P) /\ m < P[i].index /\ Front(r) = Front(P) /\ Last(r) = Index(m) /\ Last(P) = P[i]
<1>1. /\ P \in AttributePaths /\ r \in AttributePaths /\ ~IsPrefix(r, P) /\ j \in 1..Len(s)
      /\ P \in Paths /\ r \in Paths /\ P # Here
  <2>1. P \in AttributePaths /\ r \in AttributePaths /\ ~IsPrefix(r, P) /\ j \in 1..Len(s)
    BY PlanFacts
  <2> QED BY <2>1 DEF AttributePaths, Here
<1>2. PICK z : z = Prefix(P, i - 1)
  OBVIOUS
<1>3. z \in Paths /\ Len(z) = i - 1 /\ IsPrefix(Slot(z, P[i]), P) /\ P[i] \in Steps
  BY <1>1, <1>2, PrefixStep
<1>4. P[i] = Index(P[i].index) /\ P[i].index \in Nat
  BY <1>3, IndexesAre, StepIndex
<1>5. m \in Nat /\ m <= P[i].index /\ Index(m) \in Steps
  BY <1>4, IndexStep
<1>6. Len(r) = i /\ Front(r) = z /\ Last(r) = Index(m) /\ Len(P) \in Nat
  <2>1. Len(r) = Len(z) + 1 /\ Front(r) = z /\ Last(r) = Index(m)
    BY <1>2, <1>3, <1>5, SlotFacts
  <2> QED BY <1>1, <1>3, <2>1, PathFacts
<1>7. m # P[i].index
  BY <1>1, <1>2, <1>3, <1>4
<1>8. m < P[i].index
  BY <1>4, <1>5, <1>7
<1>9. Last(r).isIdx /\ Last(r).index = m
  BY <1>6, IndexIs
<1>10. Follows(P, r)
  BY <1>2, <1>6, <1>8, <1>9 DEF Follows
<1>11. Len(P) = Len(r)
  <2>1. PICK n \in Nat : n = Len(acts) /\ n = Len(s)
    BY DEF Plan, OnlyRemoves, SortedUpTo
  <2>2. \A a \in 1..n : (\E b \in 1..n : s[a] = acts[b]) /\ acts[a].op = "remove"
    BY <2>1 DEF Plan, OnlyRemoves, SortedUpTo
  <2>3. PICK b \in 1..n : s[j] = acts[b]
    BY <1>1, <2>1, <2>2
  <2>4. PICK c \in 1..n : s[k] = acts[c]
    BY <2>1, <2>2
  <2>5. r \in PathsOf(acts, {"delete", "remove"})
    BY <2>1, <2>2, <2>3 DEF PathsOf
  <2>6. \A x \in PathsOf(acts, {"delete", "remove"}) :
            Last(x).isIdx /\ Follows(acts[c].path, x) => Len(acts[c].path) = Len(x)
    BY <2>1, <2>2 DEF Plan, Independent
  <2> QED BY <1>9, <1>10, <2>4, <2>5, <2>6
<1>12. Front(P) = Prefix(P, Len(P) - 1)
  BY <1>1, FrontFacts
<1> QED BY <1>2, <1>6, <1>8, <1>11, <1>12 DEF Last

LEMMA DueNext ==
    ASSUME NEW at, IsValue(at), NEW s, NEW acts, Plan(s, acts), NEW k \in 1..Len(s),
           Fitting(at, s, k - 1)
    PROVE  Due(at, UpTo(s, k - 1), s[k].path)
<1>1. PICK P, R : P = s[k].path /\ R = UpTo(s, k - 1)
  OBVIOUS
<1>2. /\ P \in AttributePaths /\ R \subseteq AttributePaths /\ \A r \in R : ~IsPrefix(r, P)
      /\ Len(s) \in Nat
  BY <1>1, PlanFacts DEF UpTo
<1>3. P \in Paths /\ P # Here /\ Len(P) \in Nat
  BY <1>2, PathFacts DEF AttributePaths, Here
<1>4. ASSUME NEW i \in 1..Len(P), P[i].isIdx, NEW m \in 0..P[i].index,
             Slot(Prefix(P, i - 1), Index(m)) \in R
      PROVE  \E j \in 1..(k - 1) :
                /\ i = Len(P) /\ m < P[i].index /\ Last(P) = P[i]
                /\ Front(s[j].path) = Front(P) /\ Last(s[j].path) = Index(m)
  <2>1. PICK j \in 1..(k - 1) : s[j].path = Slot(Prefix(P, i - 1), Index(m))
    BY <1>1, <1>4 DEF UpTo
  <2>2. PICK r : r = s[j].path
    OBVIOUS
  <2>3. i = Len(P) /\ m < P[i].index /\ Front(r) = Front(P) /\ Last(r) = Index(m) /\ Last(P) = P[i]
    BY <1>1, <1>4, <2>1, <2>2, PlanTurns
  <2> QED BY <2>2, <2>3
<1>5. ClearAbove(P, R)
  <2>1. \A i \in 1..(Len(P) - 1) : i \in 1..Len(P) /\ i # Len(P)
    BY <1>3
  <2> QED BY <1>4, <2>1 DEF ClearAbove
<1>6. Clear(Front(P), R)
  BY <1>3, <1>5, ClearFront
<1>7. ASSUME Last(P).isIdx, Fits(at, P), Front(P) \in DOMAIN at PROVE Clear(P, R)
  <2> SUFFICES ASSUME NEW i \in 1..Len(P), P[i].isIdx, NEW m \in 0..P[i].index,
                      Slot(Prefix(P, i - 1), Index(m)) \in R
               PROVE  FALSE
    BY DEF Clear
  <2>1. PICK j \in 1..(k - 1) : /\ i = Len(P) /\ m < P[i].index /\ Last(P) = P[i]
                                /\ Front(s[j].path) = Front(P) /\ Last(s[j].path) = Index(m)
    BY <1>4
  <2>2. j \in 1..Len(s) /\ j < k /\ SideBySide(s[j], s[k]) /\ ByIndex(s[j]) /\ ByIndex(s[k])
    BY <1>1, <1>2, <1>7, <2>1, IndexIs DEF SideBySide, ByIndex
  <2>3. Last(s[j].path).index <= Last(s[k].path).index
    <3>1. Last(s[j].path).index = m
      BY <2>1, IndexIs
    <3>2. Last(s[k].path).index = P[i].index
      BY <1>1, <2>1
    <3>3. m <= P[i].index
      OBVIOUS
    <3> QED BY <3>1, <3>2, <3>3
  <2>4. PICK l \in 1..(k - 1) : SideBySide(s[l], s[k]) /\ ~ByIndex(s[l])
    BY <2>2, <2>3 DEF Plan, SortedUpTo, WellSorted, HighFirst
  <2>5. Fits(at, s[l].path) /\ Front(s[l].path) = Front(P) /\ ~Last(s[l].path).isIdx
    BY <1>1, <2>4 DEF Fitting, SideBySide, ByIndex
  <2>6. at[Front(P)].type = "M"
    BY <1>7, <2>5 DEF Fits
  <2>7. at[Front(P)].type = "L"
    BY <1>7 DEF Fits
  <2> QED BY <2>6, <2>7
<1> QED BY <1>1, <1>2, <1>6, <1>7 DEF Due

-----------------------------------------------------------------------------
(* One REMOVE after the other                                              *)

LEMMA EachIdle ==
    ASSUME NEW docs, NEW ops, NEW actions, Len(actions) \in Nat,
           \A k \in 1..Len(actions) : actions[k].op \notin ops
    PROVE  applyEach(docs, actions, ops) = docs
<1> DEFINE n == Len(actions)
           after == CHOOSE f : f = [k \in 0..n |->
                        IF k = 0 THEN docs
                        ELSE IF actions[k].op \in ops THEN UNION {applyAction(d, actions[k]) : d \in f[k - 1]}
                        ELSE f[k - 1]]
<1>1. applyEach(docs, actions, ops) = after[n]
  BY DEF applyEach
<1>2. after = CHOOSE f : After(f, docs, actions, ops, n)
  BY DEF After, EachStep
<1> HIDE DEF after
<1>3. After(after, docs, actions, ops, n)
  BY <1>2, AfterExists
<1> DEFINE S == {k \in 0..n : after[k] # docs}
<1>4. S = {}
  <2> SUFFICES ASSUME S # {} PROVE FALSE
    OBVIOUS
  <2>1. PICK m \in S : \A j \in S : m <= j
    <3>1. S \in SUBSET Nat
      OBVIOUS
    <3> HIDE DEF S
    <3> QED BY <3>1, Least
  <2>2. m \in 0..n /\ after[m] # docs
    OBVIOUS
  <2>3. after[m] = IF m = 0 THEN docs ELSE EachStep(after[m - 1], actions[m], ops)
    BY <1>3, <2>2 DEF After
  <2>4. m # 0
    BY <2>2, <2>3
  <2>5. m - 1 \in 0..n /\ ~(m <= m - 1) /\ m \in 1..n
    BY <2>2, <2>4
  <2>6. after[m] = after[m - 1]
    BY <2>3, <2>4, <2>5 DEF EachStep
  <2>7. m - 1 \notin S
    <3> HIDE DEF S
    <3> QED BY <2>1, <2>5
  <2> QED BY <2>2, <2>5, <2>6, <2>7
<1>5. n \in 0..n
  OBVIOUS
<1> QED BY <1>1, <1>4, <1>5

LEMMA RootedLives == \A doc : Rooted(doc) => doc # Cyclic
<1>1. DOMAIN Cyclic.at = {}
  BY DEF Cyclic
<1> QED BY <1>1 DEF Rooted, Tree, IsTree

LEMMA UpToNext ==
    ASSUME NEW s, NEW k \in Nat, k # 0
    PROVE  UpTo(s, k) = With(UpTo(s, k - 1), s[k].path)
<1>1. \A j : j \in 1..k <=> j \in 1..(k - 1) \/ j = k
  OBVIOUS
<1>2. \A p : p \in UpTo(s, k) <=> p \in With(UpTo(s, k - 1), s[k].path)
  BY <1>1 DEF UpTo, With
<1> QED BY <1>2

(* What the first k of the REMOVEs leave.                                  *)
LeftUpTo(d, at, s, k) == Left(d, at, UpTo(s, k)) /\ Fitting(at, s, k)

LEMMA RemovesLeave ==
    ASSUME NEW at, IsValue(at), NEW s, NEW acts, Plan(s, acts), NEW docs,
           \A d \in docs : Left(d, at, {}), NEW out \in applyEach(docs, s, {"remove"})
    PROVE  Left(out, at, UpTo(s, Len(s)))
<1>0. Len(s) \in Nat
  BY DEF Plan, SortedUpTo, WellSorted, RemovesOf
<1> DEFINE n == Len(s)
           ops == {"remove"}
           after == CHOOSE f : f = [k \in 0..n |->
                        IF k = 0 THEN docs
                        ELSE IF s[k].op \in ops THEN UNION {applyAction(d, s[k]) : d \in f[k - 1]}
                        ELSE f[k - 1]]
<1>1. applyEach(docs, s, ops) = after[n]
  BY DEF applyEach
<1>2. after = CHOOSE f : After(f, docs, s, ops, n)
  BY DEF After, EachStep
<1> HIDE DEF after
<1>3. After(after, docs, s, ops, n)
  BY <1>0, <1>2, AfterExists
<1> DEFINE bad(k) == \E d \in after[k] : ~LeftUpTo(d, at, s, k)
           S == {k \in 0..n : bad(k)}
<1>4. S = {}
  <2> SUFFICES ASSUME S # {} PROVE FALSE
    OBVIOUS
  <2>1. PICK m \in S : \A j \in S : m <= j
    <3> HIDE DEF bad
    <3>1. S \in SUBSET Nat
      BY <1>0
    <3> HIDE DEF S
    <3> QED BY <3>1, Least
  <2>2. m \in 0..n
    OBVIOUS
  <2>3. PICK d \in after[m] : ~LeftUpTo(d, at, s, m)
    OBVIOUS
  <2>4. after[m] = IF m = 0 THEN docs ELSE EachStep(after[m - 1], s[m], ops)
    BY <1>0, <1>3, <2>2 DEF After
  <2>5. m # 0
    <3> SUFFICES ASSUME m = 0 PROVE FALSE
      OBVIOUS
    <3>1. d \in docs
      BY <2>3, <2>4
    <3>2. UpTo(s, 0) = {} /\ Fitting(at, s, 0)
      BY DEF UpTo, Fitting
    <3> QED BY <2>3, <3>1, <3>2 DEF LeftUpTo
  <2>6. m - 1 \in 0..n /\ ~(m <= m - 1) /\ m \in 1..n /\ m \in Nat
    BY <1>0, <2>2, <2>5
  <2>7. \A e \in after[m - 1] : LeftUpTo(e, at, s, m - 1)
    <3>1. m - 1 \notin S
      <4> HIDE DEF S
      <4> QED BY <2>1, <2>6
    <3> QED BY <2>6, <3>1
  <2>8. s[m].op = "remove"
    BY <2>6, PlanFacts
  <2>9. PICK e \in after[m - 1] : d \in applyAction(e, s[m])
    BY <2>3, <2>4, <2>5, <2>8 DEF EachStep
  <2>10. PICK R, P : R = UpTo(s, m - 1) /\ P = s[m].path
    OBVIOUS
  <2>11. Left(e, at, R) /\ Fitting(at, s, m - 1)
    BY <2>7, <2>10 DEF LeftUpTo
  <2>12. d \in applyRemove(e, P)
    <3>1. e # Cyclic
      BY <2>11, RootedLives DEF Left
    <3> QED BY <2>8, <2>9, <2>10, <3>1 DEF applyAction
  <2>13. Due(at, R, P)
    BY <2>6, <2>10, <2>11, DueNext
  <2>14. Left(d, at, With(R, P)) /\ Fits(at, P)
    BY <2>11, <2>12, <2>13, RemoveStep
  <2>15. Left(d, at, UpTo(s, m))
    BY <2>5, <2>6, <2>10, <2>14, UpToNext
  <2>16. Fitting(at, s, m)
    <3> SUFFICES ASSUME NEW j \in 1..m PROVE Fits(at, s[j].path)
      BY DEF Fitting
    <3>1. j = m \/ j \in 1..(m - 1)
      BY <2>6
    <3> QED BY <2>10, <2>11, <2>14, <3>1 DEF Fitting
  <2> QED BY <2>3, <2>15, <2>16 DEF LeftUpTo
<1>5. n \in 0..n
  BY <1>0
<1>6. LeftUpTo(out, at, s, n)
  BY <1>1, <1>4, <1>5
<1> QED BY <1>6 DEF LeftUpTo

(* The copy that the REMOVEs begin with.                                   *)
LEMMA CloneLeft ==
    ASSUME NEW at, IsValue(at), Ground(at)
    PROVE  Left(cloneItem(at), at, {})
<1>1. PICK doc : doc = cloneItem(at)
  OBVIOUS
<1>2. Rooted(doc) /\ Clones(doc, at)
  BY <1>1, CloneRooted, CloneFacts
<1>3. Unshared(doc)
  <2>1. \A p, q : Read(p) = Read(q) => p = q
    BY DEF Read
  <2> QED BY <1>2, <2>1 DEF Clones, Unshared
<1>4. PICK K, R : K = Standing(at, R) /\ R = {}
  OBVIOUS
<1>5. K = DOMAIN at
  BY <1>4 DEF Standing
<1>6. ASSUME NEW q \in K PROVE Ranked(K, q) = q
  <2>1. R \subseteq AttributePaths /\ Clear(q, R)
    BY <1>4 DEF Clear
  <2> QED BY <1>4, <2>1, ClearPlace
<1>7. ASSUME NEW p PROVE p \in DOMAIN doc.at /\ Visible(p) <=> p \in DOMAIN at
  <2>1. p \in DOMAIN Sent => ~Visible(p)
    BY SentFacts, SentPaths DEF SentAt
  <2> QED BY <1>2, <2>1 DEF Clones, Ground
<1>8. Shown(doc, at, K)
  <2>1. \A p : (p \in DOMAIN doc.at /\ Visible(p)) <=> \E q \in K : p = Ranked(K, q)
    BY <1>5, <1>6, <1>7
  <2>2. \A q \in K : doc.at[Ranked(K, q)] = at[q]
    BY <1>2, <1>5, <1>6 DEF Clones
  <2> QED BY <2>1, <2>2 DEF Shown
<1> QED BY <1>1, <1>2, <1>3, <1>4, <1>8, ShownShows DEF Left

-----------------------------------------------------------------------------
(* An update of nothing but REMOVEs has such a plan                        *)

LEMMA RemovesPlanned ==
    ASSUME NEW u \in Updates, ~Malformed(u.actions), Independent(u.actions), Grouped(u.actions),
           \A i \in 1..Len(u.actions) : u.actions[i].op = "remove"
    PROVE  /\ Plan(Removes(u.actions), u.actions)
           /\ UpTo(Removes(u.actions), Len(Removes(u.actions))) = Removals(u.actions)
<1>1. PICK acts, s : acts = u.actions /\ s = Removes(acts)
  OBVIOUS
<1>2. PICK n \in Nat : n = Len(acts)
  BY <1>1, ParsedActions
<1>3. \A i \in 1..n : acts[i].op = "remove" /\ acts[i].path \in AttributePaths
  BY <1>1, <1>2, ParsedActions DEF IsAction
<1>4. \A i, j \in 1..n : i < j => ~IsPrefix(acts[i].path, acts[j].path) /\ ~IsPrefix(acts[j].path, acts[i].path)
  BY <1>1, <1>2 DEF Malformed, pathsOverlap
<1>5. \A i \in 1..n : \A j \in 1..n : i # j => ~IsPrefix(acts[i].path, acts[j].path)
  <2> SUFFICES ASSUME NEW i \in 1..n, NEW j \in 1..n, i # j PROVE ~IsPrefix(acts[i].path, acts[j].path)
    OBVIOUS
  <2>1. i < j \/ j < i
    OBVIOUS
  <2> QED BY <1>4, <2>1
<1>6. ASSUME NEW i \in 1..n, NEW j \in 1..n, i < j PROVE acts[i].path # acts[j].path
  <2>1. acts[i].path \in Paths
    BY <1>3 DEF AttributePaths
  <2>2. IsPrefix(acts[i].path, acts[i].path)
    BY <2>1, LeadsToItself
  <2> QED BY <1>4, <1>6, <2>2
<1>7. OnlyRemoves(acts)
  BY <1>1, <1>2, <1>3, <1>6 DEF OnlyRemoves
<1>8. SortedUpTo(s, acts, Len(acts))
  BY <1>1, <1>7, RemovesSorted
<1>9. Plan(s, acts)
  BY <1>1, <1>2, <1>5, <1>7, <1>8 DEF Plan
<1>10. Len(s) = n /\ \A i \in 1..n : (\E j \in 1..n : s[i] = acts[j]) /\ (\E j \in 1..n : acts[i] = s[j])
  BY <1>2, <1>8 DEF SortedUpTo
<1>11. \A p : p \in UpTo(s, n) <=> p \in Removals(acts)
  <2>1. \A p : p \in Removals(acts) <=> \E i \in 1..n : p = acts[i].path
    BY <1>2, <1>3 DEF Removals, PathsOf
  <2>2. \A p : p \in UpTo(s, n) <=> \E i \in 1..n : p = s[i].path
    BY DEF UpTo
  <2>3. ASSUME NEW i \in 1..n PROVE s[i].path \in Removals(acts) /\ acts[i].path \in UpTo(s, n)
    <3>1. PICK j \in 1..n : s[i] = acts[j]
      BY <1>10
    <3>2. PICK k \in 1..n : acts[i] = s[k]
      BY <1>10
    <3> QED BY <2>1, <2>2, <3>1, <3>2
  <2> QED BY <2>1, <2>2, <2>3
<1>12. UpTo(s, n) = Removals(acts)
  BY <1>11
<1> QED BY <1>1, <1>9, <1>10, <1>12

=============================================================================
