--------------------------- MODULE Defaults_proofs ---------------------------
(***************************************************************************)
(* What create stores and what recoveries make of it, for all requests     *)
(* of the schema's shape: settings win over defaults at any depth and      *)
(* defaults fill the rest, ports and upstreams agree, tasks find the       *)
(* templates they index, and a recovery makes the stored deployment again. *)
(*                                                                         *)
(* The argument follows apply_defaults: a lemma ..Stage for each step says *)
(* that its result is Shaped again, what is there afterwards, and where it *)
(* agrees with what it was made of (Agree, Grows).  For recoveries, Fixed  *)
(* is what makes a deployment one that all the steps leave alone: create   *)
(* stores such ones (CreateStage), and a clone of one is completed to what *)
(* it was cloned from (RecoverStage).                                      *)
(*                                                                         *)
(* Depth and At stand for Len and for the elements of a path, so that      *)
(* facts about paths are used without those about sequences.               *)
(***************************************************************************)
EXTENDS Defaults, TLAPS

-----------------------------------------------------------------------------
(* Paths.                                                                  *)

\* A prefix, by length and elements.
LEMMA PrefixIs ==
  ASSUME NEW p \in Paths, NEW q \in Paths
  PROVE  /\ IsPrefix(p, q) <=> Len(p) <= Len(q) /\ \A i \in 1 .. Len(p) : p[i] = q[i]
         /\ IsStrictPrefix(p, q) <=> IsPrefix(p, q) /\ p # q
<1>1. ASSUME IsPrefix(p, q) PROVE Len(p) <= Len(q) /\ \A i \in 1 .. Len(p) : p[i] = q[i]
  BY <1>1 DEF IsPrefix, Paths
<1>2. ASSUME Len(p) <= Len(q), \A i \in 1 .. Len(p) : p[i] = q[i] PROVE IsPrefix(p, q)
  <2>1. /\ SubSeq(p, 1, Len(p)) \in Seq(Keys) /\ SubSeq(q, 1, Len(p)) \in Seq(Keys)
        /\ Len(SubSeq(p, 1, Len(p))) = Len(p) /\ Len(SubSeq(q, 1, Len(p))) = Len(p)
        /\ \A i \in 1 .. Len(p) : SubSeq(p, 1, Len(p))[i] = SubSeq(q, 1, Len(p))[i]
    BY <1>2 DEF Paths
  <2> QED BY <1>2, <2>1 DEF IsPrefix, Paths
<1> QED BY <1>1, <1>2 DEF IsStrictPrefix

\* A prefix is no longer; one as long is the path itself.
LEMMA PrefixLen ==
  ASSUME NEW p \in Paths, NEW q \in Paths, IsPrefix(p, q)
  PROVE  /\ Len(p) \in Nat /\ Len(q) \in Nat /\ Len(p) <= Len(q)
         /\ Len(p) = Len(q) => p = q
BY PrefixIs DEF Paths

\* Prefixes are a partial order, and those of one path are comparable.
LEMMA PrefixOrder ==
  /\ \A p \in Paths : IsPrefix(p, p)
  /\ \A p, q \in Paths : IsPrefix(p, q) /\ IsPrefix(q, p) => p = q
  /\ \A p, q, r \in Paths : IsPrefix(p, q) /\ IsPrefix(q, r) => IsPrefix(p, r)
  /\ \A p, q, r \in Paths :
       IsPrefix(p, r) /\ IsPrefix(q, r) => IsPrefix(p, q) \/ IsPrefix(q, p)
<1>1. \A p \in Paths : IsPrefix(p, p) BY PrefixIs DEF Paths
<1>2. \A p, q \in Paths : IsPrefix(p, q) /\ IsPrefix(q, p) => p = q BY PrefixLen
<1>3. \A p, q, r \in Paths : IsPrefix(p, q) /\ IsPrefix(q, r) => IsPrefix(p, r)
  BY PrefixIs DEF Paths
<1>4. \A p, q, r \in Paths :
       IsPrefix(p, r) /\ IsPrefix(q, r) => IsPrefix(p, q) \/ IsPrefix(q, p)
  BY PrefixIs DEF Paths
<1> QED BY <1>1, <1>2, <1>3, <1>4

-----------------------------------------------------------------------------
(* Merge.                                                                  *)

\* A value of d is above p, or at p.
Above(d, p) == \E q \in DOMAIN d : IsPrefix(q, p) /\ d[q] # EmptyDict

\* Merging the defaults would add nothing.
Sat(d, defaults) == \A q \in DOMAIN defaults : Has(d, q) \/ Above(d, q)

\* What d ++ e consists of; d takes precedence.
LEMMA JoinParts ==
  ASSUME NEW d, NEW e
  PROVE  /\ \A p : p \in DOMAIN (d ++ e) <=> p \in DOMAIN d \/ p \in DOMAIN e
         /\ \A p \in DOMAIN (d ++ e) :
              \/ p \in DOMAIN d /\ (d ++ e)[p] = d[p]
              \/ p \in DOMAIN e /\ p \notin DOMAIN d /\ (d ++ e)[p] = e[p]
         /\ IsFunction(d ++ e)
BY DEF ++, IsFunction

\* What Only(d, S) consists of.
LEMMA OnlyParts ==
  ASSUME NEW d, NEW S
  PROVE  /\ \A p : p \in DOMAIN Only(d, S) <=> p \in DOMAIN d /\ p \in S
         /\ \A p \in DOMAIN Only(d, S) : p \in DOMAIN d /\ Only(d, S)[p] = d[p]
         /\ IsFunction(Only(d, S))
BY DEF Only, IsFunction

\* Every leaf of the outcome is one of the source, or one of the defaults.
LEMMA MergeParts ==
  ASSUME NEW s, NEW d, IsDictionary(s), IsDictionary(d)
  PROVE  /\ \A p : p \in DOMAIN Merge(s, d) <=> p \in Kept(s, d) \/ p \in Added(s, d)
         /\ Kept(s, d) \subseteq DOMAIN s /\ Added(s, d) \subseteq DOMAIN d
         /\ \A p \in DOMAIN Merge(s, d) :
              \/ p \in DOMAIN s /\ Merge(s, d)[p] = s[p]
              \/ p \in DOMAIN d /\ p \notin DOMAIN s /\ Merge(s, d)[p] = d[p]
         /\ IsFunction(Merge(s, d))
         /\ DOMAIN Merge(s, d) \subseteq Paths
<1> DEFINE K == Only(s, Kept(s, d))
           A == Only(d, Added(s, d))
<1>1. /\ Kept(s, d) \subseteq DOMAIN s /\ Added(s, d) \subseteq DOMAIN d
      /\ Added(s, d) \cap DOMAIN s = {}
  BY PrefixOrder DEF Kept, Added, IsDictionary
<1>2. /\ DOMAIN K = Kept(s, d) /\ DOMAIN A = Added(s, d)
      /\ \A p \in DOMAIN K : p \in DOMAIN s /\ K[p] = s[p]
      /\ \A p \in DOMAIN A : p \in DOMAIN d /\ A[p] = d[p]
  BY <1>1, OnlyParts
<1>3. Merge(s, d) = K ++ A BY DEF Merge
<1> HIDE DEF K, A
<1>4. \A p : p \in DOMAIN Merge(s, d) <=> p \in Kept(s, d) \/ p \in Added(s, d)
  BY <1>2, <1>3, JoinParts
<1>5. \A p \in DOMAIN Merge(s, d) :
        \/ p \in DOMAIN s /\ Merge(s, d)[p] = s[p]
        \/ p \in DOMAIN d /\ p \notin DOMAIN s /\ Merge(s, d)[p] = d[p]
  BY <1>1, <1>2, <1>3, JoinParts
<1>6. DOMAIN s \subseteq Paths /\ DOMAIN d \subseteq Paths BY DEF IsDictionary
<1>7. IsFunction(Merge(s, d))
  BY <1>3, JoinParts
<1> QED BY <1>1, <1>4, <1>5, <1>6, <1>7

\* Merging dictionaries gives a dictionary,
LEMMA MergeDictionary ==
  ASSUME NEW s, NEW d, IsDictionary(s), IsDictionary(d)
  PROVE  IsDictionary(Merge(s, d))
<1>1. ASSUME NEW p \in Kept(s, d), NEW q \in Added(s, d)
      PROVE  ~IsPrefix(p, q) /\ ~IsPrefix(q, p)
  BY <1>1, PrefixOrder DEF Kept, Added, IsDictionary, IsStrictPrefix
<1>2. /\ \A p, q \in DOMAIN s : IsPrefix(p, q) => p = q
      /\ \A p, q \in DOMAIN d : IsPrefix(p, q) => p = q
  BY DEF IsDictionary
<1>3. \A p, q \in DOMAIN Merge(s, d) : IsPrefix(p, q) => p = q
  BY <1>1, <1>2, MergeParts
<1>4. /\ IsFunction(Merge(s, d))
      /\ DOMAIN Merge(s, d) \subseteq Paths
  BY MergeParts
<1> QED BY <1>3, <1>4 DEF IsDictionary

\* the source takes precedence,
LEMMA MergeKeeps ==
  ASSUME NEW s, NEW d, IsDictionary(s), IsDictionary(d),
         NEW p \in DOMAIN s, s[p] # EmptyDict
  PROVE  p \in DOMAIN Merge(s, d) /\ Merge(s, d)[p] = s[p]
BY MergeParts DEF Kept

\* and keeps what it has;
LEMMA MergeHas ==
  ASSUME NEW s, NEW d, IsDictionary(s), IsDictionary(d),
         NEW p \in Paths, Has(s, p)
  PROVE  Has(Merge(s, d), p)
<1>1. PICK q \in DOMAIN s : IsPrefix(p, q) BY DEF Has
<1>2. CASE q \in Kept(s, d) BY <1>1, <1>2, MergeParts DEF Has
<1>3. CASE q \notin Kept(s, d)
  <2>1. PICK r \in DOMAIN d : IsPrefix(q, r) /\ q # r
    BY <1>3 DEF Kept, IsStrictPrefix
  <2>2. r \in Added(s, d)
    BY <1>3, <2>1, PrefixOrder DEF Added, Kept, IsDictionary
  <2> QED BY <1>1, <2>1, <2>2, PrefixOrder, MergeParts DEF Has, IsDictionary
<1> QED BY <1>2, <1>3

\* what is covered by a value stays so,
LEMMA MergeAbove ==
  ASSUME NEW s, NEW d, IsDictionary(s), IsDictionary(d), NEW p, Above(s, p)
  PROVE  Above(Merge(s, d), p)
BY MergeKeeps DEF Above

\* the defaults are added, where nothing of the source is in the way.
LEMMA MergeAdds ==
  ASSUME NEW s, NEW d, IsDictionary(s), IsDictionary(d),
         NEW p \in Paths, Has(d, p)
  PROVE  Has(Merge(s, d), p) \/ Above(s, p)
<1>1. PICK q \in DOMAIN d : IsPrefix(p, q) BY DEF Has
<1>2. CASE q \in Added(s, d) BY <1>1, <1>2, MergeParts DEF Has
<1>3. CASE q \notin Added(s, d)
  <2>1. PICK r \in DOMAIN s : IsPrefix(q, r) \/ (IsPrefix(r, q) /\ s[r] # EmptyDict)
    BY <1>3 DEF Added
  <2>2. CASE IsPrefix(p, r) BY <2>2, MergeHas DEF Has
  <2>3. CASE ~IsPrefix(p, r)
    BY <1>1, <2>1, <2>3, PrefixOrder DEF Above, IsDictionary
  <2> QED BY <2>2, <2>3
<1> QED BY <1>2, <1>3

\* and merging the same once more would add nothing.
LEMMA MergeSat ==
  ASSUME NEW s, NEW d, IsDictionary(s), IsDictionary(d)
  PROVE  Sat(Merge(s, d), d)
<1> SUFFICES ASSUME NEW q \in DOMAIN d
             PROVE  Has(Merge(s, d), q) \/ Above(Merge(s, d), q)
  BY DEF Sat
<1>1. q \in Paths /\ Has(d, q) BY PrefixOrder DEF Has, IsDictionary
<1> QED BY <1>1, MergeAdds, MergeAbove

\* Defaults that are there are merged to no effect.
LEMMA MergeSame ==
  ASSUME NEW s, NEW d, IsDictionary(s), IsDictionary(d), Sat(s, d)
  PROVE  Merge(s, d) = s
<1>1. Added(s, d) = {} BY DEF Added, Sat, Has, Above
<1>2. ASSUME NEW p \in DOMAIN s, s[p] = EmptyDict,
             NEW q \in DOMAIN d, IsStrictPrefix(p, q)
      PROVE  FALSE
  <2>1. /\ p \in Paths /\ q \in Paths /\ IsPrefix(p, q) /\ p # q
    BY <1>2 DEF IsDictionary, IsStrictPrefix
  <2>2. CASE Has(s, q)
    BY <2>1, <2>2, <1>2, PrefixOrder DEF Has, IsDictionary
  <2>3. CASE Above(s, q)
    BY <2>1, <2>3, <1>2, PrefixOrder DEF Above, IsDictionary
  <2> QED BY <1>2, <2>2, <2>3 DEF Sat
<1>3. Kept(s, d) = DOMAIN s BY <1>2 DEF Kept
<1>4. DOMAIN Merge(s, d) = DOMAIN s BY <1>1, <1>3, MergeParts
<1>5. \A p \in DOMAIN s : Merge(s, d)[p] = s[p] BY <1>4, MergeParts
<1>6. IsFunction(s) /\ IsFunction(Merge(s, d)) BY MergeParts DEF IsDictionary
<1> QED BY <1>4, <1>5, <1>6 DEF IsFunction

\* t has all that s has.
Extends(t, s) ==
  /\ \A p \in Paths : Has(s, p) => Has(t, p)
  /\ \A p \in DOMAIN s : s[p] # EmptyDict => p \in DOMAIN t /\ t[p] # EmptyDict

\* Nor does it to what has still more.
LEMMA ExtendsSat ==
  ASSUME NEW s, NEW t, NEW d, IsDictionary(d), Extends(t, s), Sat(s, d)
  PROVE  Sat(t, d)
BY DEF Extends, Sat, Above, IsDictionary

-----------------------------------------------------------------------------
(* Single leaves, parts of a dictionary, and the keys in it.               *)

\* A single leaf.
LEMMA LeafParts ==
  ASSUME NEW p, NEW v
  PROVE  /\ \A q : q \in DOMAIN Leaf(p, v) <=> q = p
         /\ \A q \in DOMAIN Leaf(p, v) : Leaf(p, v)[q] = v
         /\ IsFunction(Leaf(p, v))
BY DEF Leaf, IsFunction

\* A single leaf is a dictionary.
LEMMA LeafDictionary ==
  ASSUME NEW p \in Paths, NEW v
  PROVE  IsDictionary(Leaf(p, v))
BY LeafParts DEF IsDictionary

\* The leaves of a list of pairs.
LEMMA LeavesParts ==
  ASSUME NEW pairs, \A l \in pairs : l = <<l[1], l[2]>>
  PROVE  /\ \A q, v : <<q, v>> \in pairs => q \in DOMAIN Leaves(pairs)
         /\ \A q \in DOMAIN Leaves(pairs) : <<q, Leaves(pairs)[q]>> \in pairs
         /\ IsFunction(Leaves(pairs))
<1> DEFINE L == Leaves(pairs)
           Of(q) == CHOOSE l \in pairs : l[1] = q
<1>1. \A q : q \in DOMAIN L <=> \E l \in pairs : q = l[1] BY DEF Leaves
<1>2. \A q \in DOMAIN L : L[q] = Of(q)[2] BY DEF Leaves
<1>3. \A q \in DOMAIN L : Of(q) \in pairs /\ Of(q)[1] = q BY <1>1
<1>4. IsFunction(L) BY DEF Leaves, IsFunction
<1> HIDE DEF L, Of
<1>5. ASSUME NEW q, NEW v, <<q, v>> \in pairs PROVE q \in DOMAIN L
  <2>1. <<q, v>>[1] = q OBVIOUS
  <2> QED BY <1>1, <1>5, <2>1
<1>6. ASSUME NEW q \in DOMAIN L PROVE <<q, L[q]>> \in pairs
  <2>1. Of(q) = <<Of(q)[1], Of(q)[2]>> BY <1>3
  <2> QED BY <1>2, <1>3, <2>1
<1> QED BY <1>4, <1>5, <1>6 DEF L

\* A part of a dictionary is one.
LEMMA OnlyDictionary ==
  ASSUME NEW d, NEW S, IsDictionary(d)
  PROVE  IsDictionary(Only(d, S))
BY OnlyParts DEF IsDictionary

\* What putting a value at p leaves of d, with a name for the result,
LEMMA PutTo ==
  ASSUME NEW d, NEW p \in Paths, NEW v, IsDictionary(d), NEW e, e = Put(d, p, v)
  PROVE  /\ \A q : q \in DOMAIN e <=>
              q = p \/ (q \in DOMAIN d /\ ~IsPrefix(p, q) /\ ~IsPrefix(q, p))
         /\ \A q \in DOMAIN e :
              (q = p /\ e[q] = v) \/ (q \in DOMAIN d /\ q # p /\ e[q] = d[q])
         /\ IsFunction(e)
<1> DEFINE S == {q \in DOMAIN d : ~IsPrefix(p, q) /\ ~IsPrefix(q, p)}
           l == Leaf(p, v)
           o == Only(d, S)
<1>1. \A q : q \in S <=> q \in DOMAIN d /\ ~IsPrefix(p, q) /\ ~IsPrefix(q, p)
  OBVIOUS
<1>2. e = l ++ o BY DEF Put
<1> HIDE DEF S
<1>3. (\A q : q \in DOMAIN l <=> q = p) /\ (\A q \in DOMAIN l : l[q] = v)
  BY LeafParts
<1>4. /\ \A q : q \in DOMAIN o <=> q \in DOMAIN d /\ q \in S
      /\ \A q \in DOMAIN o : q \in DOMAIN d /\ o[q] = d[q]
  BY OnlyParts
<1> HIDE DEF l, o
<1>5. /\ \A q : q \in DOMAIN e <=> q \in DOMAIN l \/ q \in DOMAIN o
      /\ \A q \in DOMAIN e :
           \/ q \in DOMAIN l /\ e[q] = l[q]
           \/ q \in DOMAIN o /\ q \notin DOMAIN l /\ e[q] = o[q]
      /\ IsFunction(e)
  BY <1>2, JoinParts
<1>6. \A q \in DOMAIN e :
        (q = p /\ e[q] = v) \/ (q \in DOMAIN d /\ q # p /\ e[q] = d[q])
  BY <1>3, <1>4, <1>5
<1> QED BY <1>1, <1>3, <1>4, <1>5, <1>6

\* and without.
LEMMA PutParts ==
  ASSUME NEW d, NEW p \in Paths, NEW v, IsDictionary(d)
  PROVE  /\ \A q : q \in DOMAIN Put(d, p, v) <=>
                     \/ q = p
                     \/ q \in DOMAIN d /\ ~IsPrefix(p, q) /\ ~IsPrefix(q, p)
         /\ \A q \in DOMAIN Put(d, p, v) :
              \/ q = p /\ Put(d, p, v)[q] = v
              \/ q \in DOMAIN d /\ q # p /\ Put(d, p, v)[q] = d[q]
         /\ IsFunction(Put(d, p, v))
<1>1. PICK e : e = Put(d, p, v) OBVIOUS
<1> QED BY <1>1, PutTo

\* Putting a value gives a dictionary,
LEMMA PutDictionary ==
  ASSUME NEW d, NEW p \in Paths, NEW v, IsDictionary(d)
  PROVE  IsDictionary(Put(d, p, v))
<1>1. DOMAIN d \subseteq Paths /\ \A q, r \in DOMAIN d : IsPrefix(q, r) => q = r
  BY DEF IsDictionary
<1>2. /\ DOMAIN Put(d, p, v) \subseteq Paths /\ IsFunction(Put(d, p, v))
      /\ \A q, r \in DOMAIN Put(d, p, v) : IsPrefix(q, r) => q = r
  BY <1>1, PutParts
<1> QED BY <1>2 DEF IsDictionary

\* with all there was, unless beneath p.
LEMMA PutHas ==
  ASSUME NEW d, NEW p \in Paths, NEW v, IsDictionary(d),
         NEW q \in Paths, Has(d, q), ~IsPrefix(p, q)
  PROVE  Has(Put(d, p, v), q)
<1>1. PICK r \in DOMAIN d : IsPrefix(q, r) BY DEF Has
<1>2. r \in Paths BY DEF IsDictionary
<1>3. CASE IsPrefix(p, r) \/ IsPrefix(r, p)
  BY <1>1, <1>2, <1>3, PrefixOrder, PutParts DEF Has
<1>4. CASE ~IsPrefix(p, r) /\ ~IsPrefix(r, p) BY <1>1, <1>4, PutParts DEF Has
<1> QED BY <1>3, <1>4

\* What is put is there already.
LEMMA PutSame ==
  ASSUME NEW d, NEW p \in Paths, NEW v, IsDictionary(d), p \in DOMAIN d, d[p] = v
  PROVE  Put(d, p, v) = d
<1>1. \A q \in DOMAIN d : (IsPrefix(p, q) \/ IsPrefix(q, p)) => q = p
  BY DEF IsDictionary
<1>2. DOMAIN Put(d, p, v) = DOMAIN d BY <1>1, PutParts
<1>3. \A q \in DOMAIN d : Put(d, p, v)[q] = d[q] BY <1>2, PutParts
<1>4. IsFunction(Put(d, p, v)) /\ IsFunction(d) BY PutParts DEF IsDictionary
<1> QED BY <1>2, <1>3, <1>4 DEF IsFunction

\* The keys at p are those with something at or beneath them.
LEMMA KeysHas ==
  ASSUME NEW d, IsDictionary(d), NEW p \in Paths, NEW k
  PROVE  k \in KeysAt(d, p) <=> k \in Keys /\ Has(d, p \o <<k>>)
<1> DEFINE pk == p \o <<k>>
<1>1. k \in Keys => /\ pk \in Paths /\ Len(pk) = Len(p) + 1
                    /\ \A i \in 1 .. Len(p) : pk[i] = p[i]
                    /\ pk[Len(p) + 1] = k
  BY DEF Paths
<1>2. Len(p) \in Nat /\ DOMAIN d \subseteq Paths BY DEF Paths, IsDictionary
<1> HIDE DEF pk
<1>3. ASSUME NEW q \in DOMAIN d, IsStrictPrefix(p, q), k = q[Len(p) + 1]
      PROVE  k \in Keys /\ IsPrefix(pk, q)
  <2>1. q \in Paths BY <1>2
  <2>2. Len(p) < Len(q) /\ \A i \in 1 .. Len(p) : p[i] = q[i]
    BY <1>3, <2>1, PrefixIs, PrefixLen DEF Paths
  <2>3. k \in Keys BY <1>3, <2>1, <2>2 DEF Paths
  <2>4. \A i \in 1 .. Len(p) + 1 : pk[i] = q[i]
    BY <1>1, <1>2, <1>3, <2>2, <2>3
  <2>5. Len(pk) <= Len(q) BY <1>1, <1>2, <2>1, <2>2, <2>3 DEF Paths
  <2> QED BY <1>1, <2>1, <2>3, <2>4, <2>5, PrefixIs
<1>4. ASSUME k \in Keys, NEW q \in DOMAIN d, IsPrefix(pk, q)
      PROVE  IsStrictPrefix(p, q) /\ k = q[Len(p) + 1]
  <2>1. q \in Paths BY <1>2
  <2>2. Len(p) + 1 <= Len(q) /\ \A i \in 1 .. Len(p) + 1 : pk[i] = q[i]
    BY <1>1, <1>4, <2>1, PrefixIs
  <2>3. IsPrefix(p, q) BY <1>1, <1>2, <1>4, <2>1, <2>2, PrefixIs DEF Paths
  <2> QED BY <1>1, <1>2, <1>4, <2>1, <2>2, <2>3, PrefixIs DEF Paths
<1>5. k \in KeysAt(d, p) <=>
        \E q \in DOMAIN d : IsStrictPrefix(p, q) /\ k = q[Len(p) + 1]
  BY DEF KeysAt
<1> QED BY <1>3, <1>4, <1>5 DEF Has, pk

-----------------------------------------------------------------------------
(* The schema.                                                             *)

\* Dictionaries of the schema stay of the schema when they are merged,
LEMMA MergeShaped ==
  ASSUME NEW s, NEW d, Shaped(s), Shaped(d)
  PROVE  Shaped(Merge(s, d))
<1>1. IsDictionary(s) /\ IsDictionary(d) BY DEF Shaped
<1>2. /\ \A p \in DOMAIN s : p # <<>> /\ Fits(p, s[p])
      /\ \A p \in DOMAIN d : p # <<>> /\ Fits(p, d[p])
  BY DEF Shaped
<1>3. \A p \in DOMAIN Merge(s, d) : p # <<>> /\ Fits(p, Merge(s, d)[p])
  BY <1>1, <1>2, MergeParts
<1> QED BY <1>1, <1>3, MergeDictionary DEF Shaped

\* restricted,
LEMMA OnlyShaped ==
  ASSUME NEW d, NEW S, Shaped(d)
  PROVE  Shaped(Only(d, S))
<1>1. IsDictionary(d) /\ \A p \in DOMAIN d : p # <<>> /\ Fits(p, d[p])
  BY DEF Shaped
<1>2. \A p \in DOMAIN Only(d, S) : p # <<>> /\ Fits(p, Only(d, S)[p])
  BY <1>1, OnlyParts
<1> QED BY <1>1, <1>2, OnlyDictionary DEF Shaped

\* given another value,
LEMMA PutShaped ==
  ASSUME NEW d, NEW p \in Paths, NEW v, Shaped(d), p # <<>>, Fits(p, v)
  PROVE  Shaped(Put(d, p, v))
<1>1. IsDictionary(d) /\ \A q \in DOMAIN d : q # <<>> /\ Fits(q, d[q])
  BY DEF Shaped
<1>2. \A q \in DOMAIN Put(d, p, v) : q # <<>> /\ Fits(q, Put(d, p, v)[q])
  BY <1>1, PutParts
<1> QED BY <1>1, <1>2, PutDictionary DEF Shaped

\* or made of one leaf
LEMMA LeafShaped ==
  ASSUME NEW p \in Paths, NEW v, p # <<>>, Fits(p, v)
  PROVE  Shaped(Leaf(p, v))
BY LeafParts, LeafDictionary DEF Shaped

\* or of several.
LEMMA LeavesShaped ==
  ASSUME NEW pairs, \A l \in pairs : l = <<l[1], l[2]>>,
         \A p, v : <<p, v>> \in pairs => p \in Paths /\ p # <<>> /\ Fits(p, v),
         \A p, q, v, w : <<p, v>> \in pairs /\ <<q, w>> \in pairs =>
                           (IsPrefix(p, q) => p = q)
  PROVE  Shaped(Leaves(pairs))
<1>1. IsDictionary(Leaves(pairs)) BY LeavesParts DEF IsDictionary
<1>2. \A q \in DOMAIN Leaves(pairs) : q # <<>> /\ Fits(q, Leaves(pairs)[q])
  BY LeavesParts
<1> QED BY <1>1, <1>2 DEF Shaped

\* The length and the elements of a path, as symbols of their own.
Depth(p) == Len(p)
At(p, i) == p[i]

\* The paths that the code mentions.
LEMMA NamedPaths ==
  /\ /\ NamePath \in Paths /\ Depth(NamePath) = 2
     /\ At(NamePath, 1) = "deployment" /\ At(NamePath, 2) = "name"
  /\ /\ TypePath \in Paths /\ Depth(TypePath) = 2
     /\ At(TypePath, 1) = "deployment" /\ At(TypePath, 2) = "type"
  /\ /\ ModePath \in Paths /\ Depth(ModePath) = 2
     /\ At(ModePath, 1) = "deployment" /\ At(ModePath, 2) = "mode"
  /\ /\ VersionPath \in Paths /\ Depth(VersionPath) = 2
     /\ At(VersionPath, 1) = "deployment" /\ At(VersionPath, 2) = "version"
  /\ /\ StopPath \in Paths /\ Depth(StopPath) = 3
     /\ At(StopPath, 1) = "deployment" /\ At(StopPath, 2) = "stop" /\ At(StopPath, 3) = "timeout"
  /\ /\ HostsPath \in Paths /\ Depth(HostsPath) = 2
     /\ At(HostsPath, 1) = "proxy" /\ At(HostsPath, 2) = "hosts"
  /\ /\ ListenersPath \in Paths /\ Depth(ListenersPath) = 2
     /\ At(ListenersPath, 1) = "proxy" /\ At(ListenersPath, 2) = "listeners"
  /\ /\ UpstreamsPath \in Paths /\ Depth(UpstreamsPath) = 2
     /\ At(UpstreamsPath, 1) = "proxy" /\ At(UpstreamsPath, 2) = "upstreams"
BY KeysAssumption
   DEF NamedKeys, NamePath, TypePath, ModePath, VersionPath, StopPath, HostsPath,
       ListenersPath, UpstreamsPath, Paths, Depth, At

\* Those in the arguments of the app template.
LEMMA AppPaths ==
  /\ /\ ImagePath \in Paths /\ Depth(ImagePath) = 4 /\ At(ImagePath, 1) = "templates"
     /\ At(ImagePath, 2) = "app" /\ At(ImagePath, 3) = "args" /\ At(ImagePath, 4) = "image"
  /\ /\ SidekicksPath \in Paths /\ Depth(SidekicksPath) = 4
     /\ At(SidekicksPath, 1) = "templates" /\ At(SidekicksPath, 2) = "app"
     /\ At(SidekicksPath, 3) = "args" /\ At(SidekicksPath, 4) = "sidekicks"
  /\ /\ EnvironmentPath \in Paths /\ Depth(EnvironmentPath) = 4
     /\ At(EnvironmentPath, 1) = "templates" /\ At(EnvironmentPath, 2) = "app"
     /\ At(EnvironmentPath, 3) = "args" /\ At(EnvironmentPath, 4) = "environment"
BY KeysAssumption
   DEF NamedKeys, ImagePath, SidekicksPath, EnvironmentPath, Paths, Depth, At

\* Those that take keys.
LEMMA KeyPaths ==
  /\ \A k \in Keys :
       /\ GitPath(k) \in Paths /\ Depth(GitPath(k)) = 2
       /\ At(GitPath(k), 1) = "git" /\ At(GitPath(k), 2) = k
  /\ \A k \in Keys :
       /\ CheckPath(k) \in Paths /\ Depth(CheckPath(k)) = 3
       /\ At(CheckPath(k), 1) = "deployment" /\ At(CheckPath(k), 2) = "check"
       /\ At(CheckPath(k), 3) = k
  /\ \A k \in Keys :
       /\ VariablePath(k) \in Paths /\ Depth(VariablePath(k)) = 5
       /\ At(VariablePath(k), 1) = "templates" /\ At(VariablePath(k), 2) = "app"
       /\ At(VariablePath(k), 3) = "args" /\ At(VariablePath(k), 4) = "environment"
       /\ At(VariablePath(k), 5) = k
  /\ \A t, k \in Keys :
       /\ TemplatePath(t, k) \in Paths /\ Depth(TemplatePath(t, k)) = 3
       /\ At(TemplatePath(t, k), 1) = "templates" /\ At(TemplatePath(t, k), 2) = t
       /\ At(TemplatePath(t, k), 3) = k
  /\ \A t, k \in Keys :
       /\ ServicePath(t, k) \in Paths /\ Depth(ServicePath(t, k)) = 5
       /\ At(ServicePath(t, k), 1) = "templates" /\ At(ServicePath(t, k), 2) = t
       /\ At(ServicePath(t, k), 3) = "args" /\ At(ServicePath(t, k), 4) = "service"
       /\ At(ServicePath(t, k), 5) = k
<1> USE KeysAssumption DEF NamedKeys, Paths, Depth, At
<1>1. \A k \in Keys :
       /\ GitPath(k) \in Paths /\ Depth(GitPath(k)) = 2
       /\ At(GitPath(k), 1) = "git" /\ At(GitPath(k), 2) = k
  BY DEF GitPath
<1>2. \A k \in Keys :
       /\ CheckPath(k) \in Paths /\ Depth(CheckPath(k)) = 3
       /\ At(CheckPath(k), 1) = "deployment" /\ At(CheckPath(k), 2) = "check"
       /\ At(CheckPath(k), 3) = k
  BY DEF CheckPath
<1>3. \A k \in Keys :
       /\ VariablePath(k) \in Paths /\ Depth(VariablePath(k)) = 5
       /\ At(VariablePath(k), 1) = "templates" /\ At(VariablePath(k), 2) = "app"
       /\ At(VariablePath(k), 3) = "args" /\ At(VariablePath(k), 4) = "environment"
       /\ At(VariablePath(k), 5) = k
  BY DEF VariablePath
<1>4. \A t, k \in Keys :
       /\ TemplatePath(t, k) \in Paths /\ Depth(TemplatePath(t, k)) = 3
       /\ At(TemplatePath(t, k), 1) = "templates" /\ At(TemplatePath(t, k), 2) = t
       /\ At(TemplatePath(t, k), 3) = k
  BY DEF TemplatePath
<1>5. \A t, k \in Keys :
       /\ ServicePath(t, k) \in Paths /\ Depth(ServicePath(t, k)) = 5
       /\ At(ServicePath(t, k), 1) = "templates" /\ At(ServicePath(t, k), 2) = t
       /\ At(ServicePath(t, k), 3) = "args" /\ At(ServicePath(t, k), 4) = "service"
       /\ At(ServicePath(t, k), 5) = k
  BY DEF ServicePath
<1> HIDE KeysAssumption DEF NamedKeys, Paths, Depth, At
<1> QED BY <1>1, <1>2, <1>3, <1>4, <1>5

\* Those at and right beneath the top.
LEMMA ShortPaths ==
  /\ SchedulePath \in Paths /\ Depth(SchedulePath) = 1 /\ At(SchedulePath, 1) = "schedule"
  /\ StatePath \in Paths /\ Depth(StatePath) = 1 /\ At(StatePath, 1) = "state"
  /\ SharedPath \in Paths /\ Depth(SharedPath) = 1 /\ At(SharedPath, 1) = "environment"
  /\ TemplatesPath \in Paths /\ Depth(TemplatesPath) = 1
  /\ At(TemplatesPath, 1) = "templates"
  /\ AppPath \in Paths /\ Depth(AppPath) = 2
  /\ At(AppPath, 1) = "templates" /\ At(AppPath, 2) = "app"
BY KeysAssumption
   DEF NamedKeys, SchedulePath, StatePath, SharedPath, TemplatesPath, AppPath, Paths,
       Depth, At

\* No value of a shaped dictionary is above q.
Firm(q) ==
  \A p \in Paths : \A v :
    p # <<>> /\ IsPrefix(p, q) /\ v # EmptyDict /\ Fits(p, v) => p = q

\* A shaped dictionary has a value at q, if anything.
Atomic(q) ==
  \A p \in Paths : \A v : IsPrefix(q, p) /\ Fits(p, v) => p = q /\ v # EmptyDict

\* What is covered at a firm path is there.
LEMMA FirmHas ==
  ASSUME NEW d, NEW q \in Paths, Shaped(d), Firm(q), Above(d, q)
  PROVE  Has(d, q)
BY PrefixOrder DEF Above, Has, Firm, Shaped, IsDictionary

\* What is there at an atomic path is a value.
LEMMA AtomicLeaf ==
  ASSUME NEW d, NEW q \in Paths, Shaped(d), Atomic(q), Has(d, q)
  PROVE  q \in DOMAIN d /\ d[q] # EmptyDict
BY DEF Has, Atomic, Shaped, IsDictionary

\* What is known of Depth and At without sequences,
LEMMA Depths ==
  ASSUME NEW p \in Paths
  PROVE  /\ Depth(p) \in Nat
         /\ p # <<>> <=> 1 <= Depth(p)
         /\ \A i \in 1 .. Depth(p) : At(p, i) \in Keys
BY DEF Paths, Depth, At

\* of prefixes in terms of these,
LEMMA PrefixAt ==
  ASSUME NEW p \in Paths, NEW q \in Paths
  PROVE  IsPrefix(p, q) <=>
           Depth(p) <= Depth(q) /\ \A i \in 1 .. Depth(p) : At(p, i) = At(q, i)
BY PrefixIs DEF Depth, At

\* and of the first elements of a path and its prefix.
LEMMA Elements ==
  ASSUME NEW p \in Paths, NEW q \in Paths, p # <<>>, IsPrefix(p, q)
  PROVE  /\ Depth(p) \in Nat /\ 1 <= Depth(p) /\ Depth(p) <= Depth(q)
         /\ At(p, 1) = At(q, 1)
         /\ 2 <= Depth(p) => At(p, 2) = At(q, 2)
         /\ 3 <= Depth(p) => At(p, 3) = At(q, 3)
         /\ 4 <= Depth(p) => At(p, 4) = At(q, 4)
         /\ 5 <= Depth(p) => At(p, 5) = At(q, 5)
         /\ Depth(p) = Depth(q) => p = q
<1>1. Depth(p) \in Nat /\ 1 <= Depth(p) BY Depths
<1>2. Depth(p) = Depth(q) => p = q BY PrefixLen DEF Depth
<1> QED BY <1>1, <1>2, PrefixAt

\* The schema in terms of Depth and At.
LEMMA FitsAt ==
  ASSUME NEW p, NEW leaf, Fits(p, leaf)
  PROVE  LET n == Depth(p)
             value == leaf # EmptyDict
         IN \/ At(p, 1) \in {"schedule", "state"} /\ n = 1 /\ value
            \/ /\ At(p, 1) \in {"git", "deployment", "templates", "proxy", "environment"}
               /\ n = 1 /\ ~value
            \/ At(p, 1) = "git" /\ n = 2 /\ value
            \/ /\ At(p, 1) = "deployment"
               /\ \/ n = 2 /\ (value <=> At(p, 2) \notin {"check", "stop"})
                  \/ n = 3 /\ At(p, 2) \in {"check", "stop"} /\ value
            \/ At(p, 1) = "environment" /\ n >= 2
            \/ /\ At(p, 1) = "proxy"
               /\ At(p, 2) \in {"hosts", "listeners", "upstreams"}
               /\ \/ n \in {2, 3} /\ ~value
                  \/ n = 4 /\ At(p, 2) # "upstreams" /\ leaf \in Keys \ {EmptyDict}
                  \/ n = 4 /\ At(p, 2) = "upstreams" /\ (value <=> At(p, 4) # "health")
                  \/ /\ n = 5 /\ At(p, 2) = "upstreams"
                     /\ At(p, 4) = "health" /\ value
            \/ /\ At(p, 1) = "templates"
               /\ \/ n = 2 /\ ~value
                  \/ /\ n = 3
                     /\ At(p, 3) \in {"enabled", "name"} => value
                     /\ At(p, 3) = "args" => ~value
                  \/ n >= 4 /\ At(p, 3) \notin {"enabled", "name", "args"}
                  \/ /\ n = 4 /\ At(p, 3) = "args"
                     /\ At(p, 4) = "image" => value
                     /\ At(p, 4) \in {"environment", "service"} => ~value
                  \/ n >= 5 /\ At(p, 3) = "args" /\ At(p, 4) # "image"
BY Zenon DEF Fits, Depth, At

\* What the schema says of each part.
LEMMA FitsDeployment ==
  ASSUME NEW p \in Paths, NEW v, p # <<>>, Fits(p, v), At(p, 1) = "deployment"
  PROVE  \/ Depth(p) = 1 /\ v = EmptyDict
         \/ Depth(p) = 2 /\ At(p, 2) \notin {"check", "stop"} /\ v # EmptyDict
         \/ Depth(p) = 2 /\ At(p, 2) \in {"check", "stop"} /\ v = EmptyDict
         \/ Depth(p) = 3 /\ At(p, 2) \in {"check", "stop"} /\ v # EmptyDict
BY FitsAt

\* Meta-info, schedule, state and shared environment.
LEMMA FitsOther ==
  ASSUME NEW p \in Paths, NEW v, p # <<>>, Fits(p, v)
  PROVE  /\ At(p, 1) = "git" => /\ Depth(p) = 1 => v = EmptyDict
                                /\ Depth(p) # 1 => Depth(p) = 2 /\ v # EmptyDict
         /\ At(p, 1) \in {"schedule", "state"} => Depth(p) = 1 /\ v # EmptyDict
         /\ At(p, 1) = "environment" /\ Depth(p) = 1 => v = EmptyDict
<1>1. ASSUME At(p, 1) = "git"
      PROVE  \/ Depth(p) = 1 /\ v = EmptyDict
             \/ Depth(p) = 2 /\ v # EmptyDict
  BY <1>1, FitsAt
<1>2. At(p, 1) \in {"schedule", "state"} => Depth(p) = 1 /\ v # EmptyDict
  BY FitsAt
<1>3. At(p, 1) = "environment" /\ Depth(p) = 1 => v = EmptyDict
  BY FitsAt
<1> QED BY <1>1, <1>2, <1>3

\* Templates.
LEMMA FitsTemplate ==
  ASSUME NEW p \in Paths, NEW v, p # <<>>, Fits(p, v), At(p, 1) = "templates"
  PROVE  /\ Depth(p) <= 2 => v = EmptyDict
         /\ Depth(p) = 3 /\ At(p, 3) \in {"enabled", "name"} => v # EmptyDict
         /\ Depth(p) = 3 /\ At(p, 3) = "args" => v = EmptyDict
         /\ Depth(p) > 3 => At(p, 3) \notin {"enabled", "name"}
         /\ Depth(p) = 4 /\ At(p, 3) = "args" /\ At(p, 4) = "image" => v # EmptyDict
         /\ Depth(p) = 4 /\ At(p, 3) = "args" /\ At(p, 4) \in {"environment", "service"} =>
              v = EmptyDict
         /\ Depth(p) > 4 /\ At(p, 3) = "args" => At(p, 4) # "image"
<1>1. Depth(p) \in Nat /\ Depth(p) >= 1 BY Depths
<1>2. \/ Depth(p) \in {1, 2} /\ v = EmptyDict
      \/ /\ Depth(p) = 3
         /\ At(p, 3) \in {"enabled", "name"} => v # EmptyDict
         /\ At(p, 3) = "args" => v = EmptyDict
      \/ Depth(p) >= 4 /\ At(p, 3) \notin {"enabled", "name", "args"}
      \/ /\ Depth(p) = 4 /\ At(p, 3) = "args"
         /\ At(p, 4) = "image" => v # EmptyDict
         /\ At(p, 4) \in {"environment", "service"} => v = EmptyDict
      \/ Depth(p) >= 5 /\ At(p, 3) = "args" /\ At(p, 4) # "image"
  BY FitsAt
<1> QED BY <1>1, <1>2

\* Hosts, listeners and upstreams.
LEMMA FitsProxy ==
  ASSUME NEW p \in Paths, NEW v, p # <<>>, Fits(p, v), At(p, 1) = "proxy"
  PROVE  /\ Depth(p) <= 3 => v = EmptyDict
         /\ Depth(p) = 4 /\ At(p, 2) = "upstreams" => (v = EmptyDict <=> At(p, 4) = "health")
         /\ Depth(p) = 4 /\ At(p, 2) # "upstreams" => v \in Keys /\ v # EmptyDict
         /\ Depth(p) > 4 =>
              Depth(p) = 5 /\ At(p, 2) = "upstreams" /\ At(p, 4) = "health" /\ v # EmptyDict
<1>1. Depth(p) \in Nat /\ Depth(p) >= 1 BY Depths
<1>2. \/ Depth(p) \in {1, 2, 3} /\ v = EmptyDict
      \/ Depth(p) = 4 /\ At(p, 2) # "upstreams" /\ v \in Keys \ {EmptyDict}
      \/ Depth(p) = 4 /\ At(p, 2) = "upstreams" /\ (v = EmptyDict <=> At(p, 4) = "health")
      \/ Depth(p) = 5 /\ At(p, 2) = "upstreams" /\ At(p, 4) = "health" /\ v # EmptyDict
  BY FitsAt
<1> QED BY <1>1, <1>2

\* Which paths are so.
LEMMA SettingAtomic ==
  ASSUME NEW q \in Paths,
         \/ Depth(q) = 2 /\ At(q, 1) = "git"
         \/ Depth(q) = 2 /\ At(q, 1) = "deployment" /\ At(q, 2) \notin {"check", "stop"}
         \/ Depth(q) = 3 /\ At(q, 1) = "deployment" /\ At(q, 2) \in {"check", "stop"}
  PROVE  Atomic(q) /\ Firm(q)
<1>1. ASSUME NEW p \in Paths, NEW v, IsPrefix(q, p), Fits(p, v)
      PROVE  p = q /\ v # EmptyDict
  <2>1. q # <<>> BY Depths, PrefixAt
  <2>2. /\ Depth(p) \in Nat /\ Depth(q) <= Depth(p) /\ At(p, 1) = At(q, 1) /\ At(p, 2) = At(q, 2)
        /\ Depth(p) = Depth(q) => p = q
    BY <1>1, <2>1, Depths, Elements
  <2>3. p # <<>> BY <1>1, <2>1, <2>2, Depths
  <2> QED BY <1>1, <2>2, <2>3, FitsDeployment, FitsOther
<1>2. ASSUME NEW p \in Paths, NEW v, p # <<>>, IsPrefix(p, q), v # EmptyDict,
             Fits(p, v)
      PROVE  p = q
  <2>1. /\ Depth(p) \in Nat /\ 1 <= Depth(p) /\ Depth(p) <= Depth(q) /\ At(p, 1) = At(q, 1)
        /\ 2 <= Depth(p) => At(p, 2) = At(q, 2)
        /\ Depth(p) = Depth(q) => p = q
    BY <1>2, Elements
  <2> QED BY <1>2, <2>1, FitsDeployment, FitsOther
<1> QED BY <1>1, <1>2 DEF Atomic, Firm

\* In templates,
LEMMA TemplateFirm ==
  ASSUME NEW q \in Paths, At(q, 1) = "templates", Depth(q) \in 1 .. 5,
         4 <= Depth(q) => At(q, 3) = "args",
         5 <= Depth(q) => At(q, 4) \in {"environment", "service"}
  PROVE  Firm(q)
<1> SUFFICES ASSUME NEW p \in Paths, NEW v, p # <<>>, IsPrefix(p, q),
                    v # EmptyDict, Fits(p, v)
             PROVE  p = q
  BY DEF Firm
<1>1. /\ Depth(p) \in Nat /\ 1 <= Depth(p) /\ Depth(p) <= Depth(q) /\ At(p, 1) = At(q, 1)
      /\ 3 <= Depth(p) => At(p, 3) = At(q, 3)
      /\ 4 <= Depth(p) => At(p, 4) = At(q, 4)
      /\ Depth(p) = Depth(q) => p = q
  BY Elements
<1> QED BY <1>1, FitsTemplate

\* the values among these,
LEMMA TemplateAtomic ==
  ASSUME NEW q \in Paths, At(q, 1) = "templates",
         \/ Depth(q) = 3 /\ At(q, 3) \in {"enabled", "name"}
         \/ Depth(q) = 4 /\ At(q, 3) = "args" /\ At(q, 4) = "image"
  PROVE  Atomic(q)
<1> SUFFICES ASSUME NEW p \in Paths, NEW v, IsPrefix(q, p), Fits(p, v)
             PROVE  p = q /\ v # EmptyDict
  BY DEF Atomic
<1>1. q # <<>> /\ p # <<>> BY Depths, PrefixAt
<1>2. /\ Depth(p) \in Nat /\ Depth(q) <= Depth(p) /\ At(p, 1) = At(q, 1) /\ At(p, 3) = At(q, 3)
      /\ Depth(q) = 4 => At(p, 4) = At(q, 4)
      /\ Depth(p) = Depth(q) => p = q
  BY <1>1, Depths, Elements
<1> QED BY <1>1, <1>2, FitsTemplate

\* and in upstreams.
LEMMA ProxyFirm ==
  ASSUME NEW q \in Paths, At(q, 1) = "proxy", Depth(q) \in 1 .. 5,
         4 <= Depth(q) => At(q, 2) = "upstreams",
         5 <= Depth(q) => At(q, 4) = "health"
  PROVE  Firm(q)
<1> SUFFICES ASSUME NEW p \in Paths, NEW v, p # <<>>, IsPrefix(p, q),
                    v # EmptyDict, Fits(p, v)
             PROVE  p = q
  BY DEF Firm
<1>1. /\ Depth(p) \in Nat /\ 1 <= Depth(p) /\ Depth(p) <= Depth(q) /\ At(p, 1) = At(q, 1)
      /\ 2 <= Depth(p) => At(p, 2) = At(q, 2)
      /\ 4 <= Depth(p) => At(p, 4) = At(q, 4)
      /\ Depth(p) = Depth(q) => p = q
  BY Elements
<1> QED BY <1>1, FitsProxy

\* Of the paths that the code mentions, these lead to values only.
LEMMA AtomicPaths ==
  /\ Atomic(NamePath) /\ Atomic(TypePath) /\ Atomic(ModePath) /\ Atomic(VersionPath)
  /\ Atomic(StopPath) /\ Atomic(ImagePath)
  /\ \A k \in Keys : Atomic(GitPath(k)) /\ Atomic(CheckPath(k))
  /\ \A t \in Keys, k \in {"enabled", "name"} : Atomic(TemplatePath(t, k))
<1>1. /\ Atomic(NamePath) /\ Atomic(TypePath) /\ Atomic(ModePath)
      /\ Atomic(VersionPath) /\ Atomic(StopPath)
  BY NamedPaths, SettingAtomic
<1>2. Atomic(ImagePath) BY AppPaths, TemplateAtomic
<1>3. \A k \in Keys : Atomic(GitPath(k)) /\ Atomic(CheckPath(k))
  BY KeyPaths, SettingAtomic
<1>5. \A t \in Keys, k \in {"enabled", "name"} : k \in Keys
  BY KeysAssumption DEF NamedKeys
<1>6. \A t \in Keys, k \in {"enabled", "name"} : Atomic(TemplatePath(t, k))
  BY <1>5, KeyPaths, TemplateAtomic
<1> QED BY <1>1, <1>2, <1>3, <1>6

\* Nothing but a dictionary is above any of them.
LEMMA FirmPaths ==
  /\ Firm(NamePath) /\ Firm(TypePath) /\ Firm(ModePath) /\ Firm(VersionPath)
  /\ Firm(StopPath) /\ Firm(HostsPath) /\ Firm(ListenersPath) /\ Firm(UpstreamsPath)
  /\ Firm(ImagePath) /\ Firm(SidekicksPath) /\ Firm(EnvironmentPath)
  /\ Firm(SchedulePath) /\ Firm(SharedPath) /\ Firm(TemplatesPath) /\ Firm(AppPath)
  /\ \A k \in Keys : Firm(GitPath(k)) /\ Firm(CheckPath(k)) /\ Firm(VariablePath(k))
  /\ \A t, k \in Keys : Firm(TemplatePath(t, k)) /\ Firm(ServicePath(t, k))
<1>1. /\ Firm(NamePath) /\ Firm(TypePath) /\ Firm(ModePath)
      /\ Firm(VersionPath) /\ Firm(StopPath)
  BY NamedPaths, SettingAtomic
<1>2. Firm(HostsPath) /\ Firm(ListenersPath) /\ Firm(UpstreamsPath)
  BY NamedPaths, ProxyFirm
<1>3. Firm(ImagePath) /\ Firm(SidekicksPath) /\ Firm(EnvironmentPath)
  BY AppPaths, TemplateFirm
<1>4. \A k \in Keys : Firm(GitPath(k)) /\ Firm(CheckPath(k))
  BY KeyPaths, SettingAtomic
<1>5. \A k \in Keys : Firm(VariablePath(k)) BY KeyPaths, TemplateFirm
<1>6. \A t, k \in Keys : Firm(TemplatePath(t, k)) /\ Firm(ServicePath(t, k))
  BY KeyPaths, TemplateFirm
<1>7. Firm(TemplatesPath) /\ Firm(AppPath) BY ShortPaths, TemplateFirm
<1>8. Firm(SchedulePath) /\ Firm(SharedPath)
  <2>1. \A p \in Paths : p # <<>> /\ IsPrefix(p, SchedulePath) => p = SchedulePath
    BY ShortPaths, Elements
  <2>2. \A p \in Paths : p # <<>> /\ IsPrefix(p, SharedPath) => p = SharedPath
    BY ShortPaths, Elements
  <2> QED BY <2>1, <2>2 DEF Firm
<1> QED BY <1>1, <1>2, <1>3, <1>4, <1>5, <1>6, <1>7, <1>8

-----------------------------------------------------------------------------
(* The defaults of conf/appconfig.py.                                      *)

\* The keys of the defaults are keys, and their values no dictionaries.
LEMMA DefaultKeys ==
  /\ {"ref", "commit", "port", "path", "timeout", "app", "timer", "yoda_register",
      "name", "enabled", "args", "schedule", "container_stop_sec",
      "DISCOVER_UPSTREAM_TTL", "DISCOVER_PORTS", "DISCOVER_MODE",
      "DISCOVER_HEALTH"} \subseteq Keys
  /\ EmptyDict \notin {"GIT_REF", "GIT_COMMIT", "git-quay", "default-app",
                       "yoda-register", "master", "not_set", "default", "None",
                       "blue-green", "10s", "30s", "86400", "http", "5s", "1w",
                       "True", "False", "", "now", "NEW", "30", "120"}
BY KeysAssumption, EmptyDictAssumption DEF NamedKeys, NamedValues

\* Where the schema has values,
LEMMA FitsNamed ==
  ASSUME NEW v, v # EmptyDict
  PROVE  /\ Fits(NamePath, v) /\ Fits(TypePath, v) /\ Fits(ModePath, v)
         /\ Fits(VersionPath, v) /\ Fits(StopPath, v) /\ Fits(ImagePath, v)
         /\ Fits(SchedulePath, v) /\ Fits(StatePath, v)
         /\ \A k : Fits(GitPath(k), v) /\ Fits(CheckPath(k), v)
         /\ \A t, k : k # "args" => Fits(TemplatePath(t, k), v)
<1>1. Fits(NamePath, v) BY DEF Fits, NamePath
<1>2. Fits(TypePath, v) BY DEF Fits, TypePath
<1>3. Fits(ModePath, v) BY DEF Fits, ModePath
<1>4. Fits(VersionPath, v) BY DEF Fits, VersionPath
<1>5. Fits(StopPath, v) BY DEF Fits, StopPath
<1>6. Fits(ImagePath, v) BY DEF Fits, ImagePath
<1>7. Fits(SchedulePath, v) BY DEF Fits, SchedulePath
<1>8. Fits(StatePath, v) BY DEF Fits, StatePath
<1>9. \A k : Fits(GitPath(k), v) BY DEF Fits, GitPath
<1>10. \A k : Fits(CheckPath(k), v) BY DEF Fits, CheckPath
<1>11. \A t, k : k # "args" => Fits(TemplatePath(t, k), v)
  BY DEF Fits, TemplatePath
<1> QED
  BY <1>1, <1>2, <1>3, <1>4, <1>5, <1>6, <1>7, <1>8, <1>9, <1>10, <1>11

\* values and dictionaries,
LEMMA FitsAny ==
  ASSUME NEW v
  PROVE  /\ \A k : Fits(VariablePath(k), v)
         /\ \A t, k : Fits(ServicePath(t, k), v)
         /\ Fits(SidekicksPath, v)
<1>1. \A k : Fits(VariablePath(k), v) BY DEF Fits, VariablePath
<1>2. \A t, k : Fits(ServicePath(t, k), v) BY DEF Fits, ServicePath
<1>3. Fits(SidekicksPath, v) BY DEF Fits, SidekicksPath
<1> QED BY <1>1, <1>2, <1>3

\* and empty dictionaries.
LEMMA FitsEmpty ==
  /\ Fits(EnvironmentPath, EmptyDict) /\ Fits(HostsPath, EmptyDict)
  /\ Fits(ListenersPath, EmptyDict) /\ Fits(UpstreamsPath, EmptyDict)
  /\ Fits(SharedPath, EmptyDict) /\ Fits(TemplatesPath, EmptyDict)
  /\ \A t : Fits(TemplatePath(t, "args"), EmptyDict)
<1>1. Fits(EnvironmentPath, EmptyDict) BY DEF Fits, EnvironmentPath
<1>2. Fits(HostsPath, EmptyDict) BY DEF Fits, HostsPath
<1>3. Fits(ListenersPath, EmptyDict) BY DEF Fits, ListenersPath
<1>4. Fits(UpstreamsPath, EmptyDict) BY DEF Fits, UpstreamsPath
<1>5. Fits(SharedPath, EmptyDict) BY DEF Fits, SharedPath
<1>6. Fits(TemplatesPath, EmptyDict) BY DEF Fits, TemplatesPath
<1>7. \A t : Fits(TemplatePath(t, "args"), EmptyDict) BY DEF Fits, TemplatePath
<1> QED BY <1>1, <1>2, <1>3, <1>4, <1>5, <1>6, <1>7

\* The leaves of DEFAULT_DEFAULTS,
LEMMA General ==
  /\ Shaped(DEFAULT_DEFAULTS)
  /\ \A p : p \in DOMAIN DEFAULT_DEFAULTS <=>
       \/ p \in {GitPath("ref"), GitPath("commit"), TypePath, VersionPath, ModePath}
       \/ p \in {CheckPath("port"), CheckPath("timeout"), StopPath}
       \/ p \in {VariablePath("DISCOVER_UPSTREAM_TTL"), HostsPath, ListenersPath}
       \/ p \in {UpstreamsPath, SharedPath}
<1> DEFINE pairs == {
      <<GitPath("ref"), "master">>, <<GitPath("commit"), "not_set">>,
      <<TypePath, "default">>, <<VersionPath, "None">>, <<ModePath, "blue-green">>,
      <<CheckPath("port"), "None">>, <<CheckPath("timeout"), "10s">>,
      <<StopPath, "30s">>, <<VariablePath("DISCOVER_UPSTREAM_TTL"), "86400">>,
      <<HostsPath, EmptyDict>>, <<ListenersPath, EmptyDict>>,
      <<UpstreamsPath, EmptyDict>>, <<SharedPath, EmptyDict>>}
<1>1. \A l \in pairs : l = <<l[1], l[2]>> OBVIOUS
<1>2. \A p, v : <<p, v>> \in pairs =>
        /\ p \in Paths
        /\ \/ At(p, 1) = "git" /\ Depth(p) = 2
           \/ At(p, 1) = "deployment" /\ Depth(p) = 2 /\ At(p, 2) \notin {"check", "stop"}
           \/ At(p, 1) = "deployment" /\ Depth(p) = 3 /\ At(p, 2) \in {"check", "stop"}
           \/ At(p, 1) = "templates" /\ Depth(p) = 5
           \/ At(p, 1) = "proxy" /\ Depth(p) = 2
           \/ At(p, 1) = "environment" /\ Depth(p) = 1
  <2>1. /\ "ref" \in Keys /\ "commit" \in Keys /\ "port" \in Keys
        /\ "timeout" \in Keys /\ "DISCOVER_UPSTREAM_TTL" \in Keys
    BY DefaultKeys
  <2>2. \A p, v : <<p, v>> \in pairs =>
          \/ p \in {GitPath("ref"), GitPath("commit"), TypePath, VersionPath, ModePath}
          \/ p \in {CheckPath("port"), CheckPath("timeout"), StopPath}
          \/ p \in {VariablePath("DISCOVER_UPSTREAM_TTL"), HostsPath, ListenersPath}
          \/ p \in {UpstreamsPath, SharedPath}
    OBVIOUS
  <2> HIDE DEF pairs
  <2>3. \A p \in {GitPath("ref"), GitPath("commit")} :
          p \in Paths /\ At(p, 1) = "git" /\ Depth(p) = 2
    BY <2>1, KeyPaths
  <2>4. \A p \in {TypePath, VersionPath, ModePath} :
          /\ p \in Paths /\ At(p, 1) = "deployment" /\ Depth(p) = 2
          /\ At(p, 2) \notin {"check", "stop"}
    BY NamedPaths
  <2>5. \A p \in {CheckPath("port"), CheckPath("timeout"), StopPath} :
          /\ p \in Paths /\ At(p, 1) = "deployment" /\ Depth(p) = 3
          /\ At(p, 2) \in {"check", "stop"}
    BY <2>1, NamedPaths, KeyPaths
  <2>6. \A p \in {HostsPath, ListenersPath, UpstreamsPath} :
          p \in Paths /\ At(p, 1) = "proxy" /\ Depth(p) = 2
    BY NamedPaths
  <2>7. /\ VariablePath("DISCOVER_UPSTREAM_TTL") \in Paths
        /\ At(VariablePath("DISCOVER_UPSTREAM_TTL"), 1) = "templates"
        /\ Depth(VariablePath("DISCOVER_UPSTREAM_TTL")) = 5
    BY <2>1, KeyPaths
  <2> QED BY <2>2, <2>3, <2>4, <2>5, <2>6, <2>7, ShortPaths
<1>3. \A p, v : <<p, v>> \in pairs => Fits(p, v)
  BY FitsNamed, FitsAny, FitsEmpty, DefaultKeys
<1> HIDE DEF pairs
<1>4. \A p, v : <<p, v>> \in pairs => p # <<>> BY <1>2, Depths
<1>5. \A p, q, v, w : <<p, v>> \in pairs /\ <<q, w>> \in pairs =>
                        (IsPrefix(p, q) => p = q)
  BY <1>2, <1>4, Elements
<1>6. Shaped(Leaves(pairs)) BY <1>1, <1>2, <1>3, <1>4, <1>5, LeavesShaped
<1>7. \A p : p \in DOMAIN Leaves(pairs) <=> \E v : <<p, v>> \in pairs
  BY <1>1, LeavesParts
<1>8. \A p : (\E v : <<p, v>> \in pairs) <=>
        \/ p \in {GitPath("ref"), GitPath("commit"), TypePath, VersionPath, ModePath}
        \/ p \in {CheckPath("port"), CheckPath("timeout"), StopPath}
        \/ p \in {VariablePath("DISCOVER_UPSTREAM_TTL"), HostsPath, ListenersPath}
        \/ p \in {UpstreamsPath, SharedPath}
  BY DEF pairs
<1>9. DEFAULT_DEFAULTS = Leaves(pairs) BY DEF DEFAULT_DEFAULTS, pairs
<1> QED BY <1>6, <1>7, <1>8, <1>9

\* and those of GIT_QUAY_DEFAULTS.
LEMMA Quay ==
  /\ Shaped(GIT_QUAY_DEFAULTS)
  /\ \A p : p \in DOMAIN GIT_QUAY_DEFAULTS <=>
       p \in {NamePath, TypePath, ImagePath, EnvironmentPath,
              TemplatePath("app", "name"), TemplatePath("yoda_register", "name")}
<1> DEFINE pairs == {
      <<NamePath, "GIT_REF">>, <<TypePath, "git-quay">>,
      <<ImagePath, "GIT_COMMIT">>, <<EnvironmentPath, EmptyDict>>,
      <<TemplatePath("app", "name"), "default-app">>,
      <<TemplatePath("yoda_register", "name"), "yoda-register">>}
<1>1. \A l \in pairs : l = <<l[1], l[2]>> OBVIOUS
<1>2. \A p, v : <<p, v>> \in pairs =>
        \/ p \in {NamePath, TypePath, ImagePath, EnvironmentPath}
        \/ p \in {TemplatePath("app", "name"), TemplatePath("yoda_register", "name")}
  OBVIOUS
<1>3. \A p, v : <<p, v>> \in pairs => Fits(p, v)
  BY FitsNamed, FitsAny, FitsEmpty, DefaultKeys
<1>4. \A p : (\E v : <<p, v>> \in pairs) <=>
        p \in {NamePath, TypePath, ImagePath, EnvironmentPath,
               TemplatePath("app", "name"), TemplatePath("yoda_register", "name")}
  OBVIOUS
<1>5. GIT_QUAY_DEFAULTS = Leaves(pairs) BY DEF GIT_QUAY_DEFAULTS
<1> HIDE DEF pairs
<1>6. \A p \in {TemplatePath("app", "name"), TemplatePath("yoda_register", "name")} :
        /\ p \in Paths /\ At(p, 1) = "templates" /\ Depth(p) = 3
        /\ At(p, 3) = "name" /\ At(p, 2) \in {"app", "yoda_register"}
  <2>1. "app" \in Keys /\ "yoda_register" \in Keys /\ "name" \in Keys BY DefaultKeys
  <2> QED BY <2>1, KeyPaths
<1>7. \A p \in {NamePath, TypePath} :
        /\ p \in Paths /\ At(p, 1) = "deployment" /\ Depth(p) = 2
  BY NamedPaths
<1>8. \A p \in {ImagePath, EnvironmentPath} :
        /\ p \in Paths /\ At(p, 1) = "templates" /\ Depth(p) = 4
        /\ At(p, 3) = "args"
  BY AppPaths
<1>9. \A p, v : <<p, v>> \in pairs =>
        /\ p \in Paths
        /\ \/ At(p, 1) = "deployment" /\ Depth(p) = 2
           \/ At(p, 1) = "templates" /\ Depth(p) = 4 /\ At(p, 3) = "args"
           \/ At(p, 1) = "templates" /\ Depth(p) = 3 /\ At(p, 3) = "name"
  BY <1>2, <1>6, <1>7, <1>8
<1>10. \A p, v : <<p, v>> \in pairs => p # <<>> BY <1>9, Depths
<1>11. \A p, q, v, w : <<p, v>> \in pairs /\ <<q, w>> \in pairs =>
                         (IsPrefix(p, q) => p = q)
  BY <1>9, <1>10, Elements
<1>12. Shaped(Leaves(pairs)) BY <1>1, <1>3, <1>9, <1>10, <1>11, LeavesShaped
<1>13. \A p : p \in DOMAIN Leaves(pairs) <=> \E v : <<p, v>> \in pairs
  BY <1>1, LeavesParts
<1> QED BY <1>4, <1>5, <1>12, <1>13

\* The leaves of ForEach.
LEMMA Lists ==
  ASSUME NEW p \in Paths, NEW k \in Keys, NEW r \in Paths
  PROVE  LET q == p \o <<k>> \o r
         IN /\ q \in Paths /\ Len(p) \in Nat /\ Len(r) \in Nat
            /\ Len(q) = Len(p) + 1 + Len(r)
            /\ \A i \in 1 .. Len(p) : q[i] = p[i]
            /\ q[Len(p) + 1] = k
            /\ \A i \in 1 .. Len(r) : q[Len(p) + 1 + i] = r[i]
            /\ SubSeq(q, Len(p) + 2, Len(q)) = r
<1> DEFINE q == p \o <<k>> \o r
<1>1. p \o <<k>> \in Paths /\ Len(p \o <<k>>) = Len(p) + 1 BY DEF Paths
<1>2. Len(p) \in Nat /\ Len(r) \in Nat BY DEF Paths
<1>3. q \in Paths /\ Len(q) = Len(p) + 1 + Len(r) BY <1>1 DEF Paths
<1>4. /\ \A i \in 1 .. Len(p) : q[i] = p[i]
      /\ q[Len(p) + 1] = k
      /\ \A i \in 1 .. Len(r) : q[Len(p) + 1 + i] = r[i]
  BY <1>1, <1>2 DEF Paths
<1> HIDE DEF q
<1>5. SubSeq(q, Len(p) + 2, Len(q)) = r
  <2> DEFINE t == SubSeq(q, Len(p) + 2, Len(q))
  <2>1. t \in Seq(Keys) /\ Len(t) = Len(r) BY <1>2, <1>3 DEF Paths
  <2>2. \A i \in 1 .. Len(r) : t[i] = r[i]
    BY <1>2, <1>3, <1>4 DEF Paths
  <2> HIDE DEF t
  <2>3. t = r BY <2>1, <2>2 DEF Paths
  <2> QED BY <2>3 DEF t
<1> QED BY <1>2, <1>3, <1>4, <1>5 DEF q

Beneath(p, k, r) == p \o <<k>> \o r

\* What ForEach consists of.
LEMMA EachParts ==
  ASSUME NEW p \in Paths, NEW keys \in SUBSET Keys, NEW d, IsDictionary(d),
         NEW f, f = ForEach(p, keys, d)
  PROVE  /\ \A q \in DOMAIN f : \E k \in keys, r \in DOMAIN d :
              q = Beneath(p, k, r) /\ f[q] = d[r]
         /\ \A k \in keys, r \in DOMAIN d :
              Beneath(p, k, r) \in DOMAIN f /\ f[Beneath(p, k, r)] = d[r]
         /\ IsDictionary(f)
<1> DEFINE F == ForEach(p, keys, d)
           Q == {Beneath(p, k, r) : k \in keys, r \in DOMAIN d}
           Rest(q) == SubSeq(q, Len(p) + 2, Len(q))
<1>1. F = [q \in Q |-> d[Rest(q)]] BY DEF ForEach, Beneath
<1>2. \A q : q \in Q <=> \E k \in keys, r \in DOMAIN d : q = Beneath(p, k, r)
  OBVIOUS
<1>3. \A k \in Keys, r \in Paths : Rest(Beneath(p, k, r)) = r
  BY Lists DEF Beneath
<1>4. \A k \in Keys, r \in Paths :
        /\ Beneath(p, k, r) \in Paths /\ Len(p) \in Nat /\ Len(r) \in Nat
        /\ Len(Beneath(p, k, r)) = Len(p) + 1 + Len(r)
        /\ Beneath(p, k, r)[Len(p) + 1] = k
        /\ \A i \in 1 .. Len(r) : Beneath(p, k, r)[Len(p) + 1 + i] = r[i]
  BY Lists DEF Beneath
<1>5. DOMAIN d \subseteq Paths /\ \A r, t \in DOMAIN d : IsPrefix(r, t) => r = t
  BY DEF IsDictionary
<1> HIDE DEF F, Q, Rest
<1>6. \A q : q \in DOMAIN F <=> \E k \in keys, r \in DOMAIN d : q = Beneath(p, k, r)
  BY <1>1, <1>2
<1>7. IsFunction(F) BY <1>1 DEF IsFunction
<1>8. \A k \in keys, r \in DOMAIN d :
        Beneath(p, k, r) \in DOMAIN F /\ F[Beneath(p, k, r)] = d[r]
  BY <1>1, <1>2, <1>3, <1>5
<1>9. \A q \in DOMAIN F : \E k \in keys, r \in DOMAIN d :
        q = Beneath(p, k, r) /\ F[q] = d[r]
  BY <1>6, <1>8
<1>10. DOMAIN F \subseteq Paths BY <1>4, <1>5, <1>6
<1>11. ASSUME NEW q \in DOMAIN F, NEW w \in DOMAIN F, IsPrefix(q, w)
       PROVE  q = w
  <2>1. PICK k \in keys, r \in DOMAIN d : q = Beneath(p, k, r) BY <1>6
  <2>2. PICK m \in keys, t \in DOMAIN d : w = Beneath(p, m, t) BY <1>6
  <2>3. /\ Len(p) \in Nat /\ Len(r) \in Nat /\ Len(t) \in Nat
        /\ Len(q) = Len(p) + 1 + Len(r) /\ Len(w) = Len(p) + 1 + Len(t)
        /\ q[Len(p) + 1] = k /\ w[Len(p) + 1] = m
        /\ \A i \in 1 .. Len(r) : q[Len(p) + 1 + i] = r[i]
        /\ \A i \in 1 .. Len(t) : w[Len(p) + 1 + i] = t[i]
    <3>1. k \in Keys /\ m \in Keys /\ r \in Paths /\ t \in Paths BY <1>5
    <3>2. /\ Len(p) \in Nat /\ Len(r) \in Nat
          /\ Len(q) = Len(p) + 1 + Len(r)
          /\ q[Len(p) + 1] = k /\ \A i \in 1 .. Len(r) : q[Len(p) + 1 + i] = r[i]
      <4> DEFINE b == Beneath(p, k, r)
      <4>1. /\ Len(p) \in Nat /\ Len(r) \in Nat
            /\ Len(b) = Len(p) + 1 + Len(r)
            /\ b[Len(p) + 1] = k /\ \A i \in 1 .. Len(r) : b[Len(p) + 1 + i] = r[i]
        BY <1>4, <3>1
      <4>2. q = b BY <2>1
      <4> HIDE DEF b
      <4> QED BY <4>1, <4>2
    <3>3. /\ Len(t) \in Nat /\ Len(w) = Len(p) + 1 + Len(t)
          /\ w[Len(p) + 1] = m /\ \A i \in 1 .. Len(t) : w[Len(p) + 1 + i] = t[i]
      BY <1>4, <2>2, <3>1
    <3> QED BY <3>2, <3>3
  <2>4. Len(q) <= Len(w) /\ \A i \in 1 .. Len(q) : q[i] = w[i]
    BY <1>10, <1>11, PrefixIs
  <2>5. Len(r) <= Len(t) /\ k = m BY <2>3, <2>4
  <2>6. \A i \in 1 .. Len(r) : r[i] = t[i]
    <3> TAKE i \in 1 .. Len(r)
    <3>1. Len(p) + 1 + i \in 1 .. Len(q) /\ i \in 1 .. Len(t) BY <2>3, <2>5
    <3> QED BY <2>3, <2>4, <3>1
  <2>7. IsPrefix(r, t) BY <1>5, <2>5, <2>6, PrefixIs
  <2> QED BY <1>5, <2>1, <2>2, <2>5, <2>7
<1>12. IsDictionary(F) BY <1>7, <1>10, <1>11 DEF IsDictionary
<1> QED BY <1>8, <1>9, <1>12 DEF F

-----------------------------------------------------------------------------
(* How the dictionaries of two steps compare.                              *)

\* They have the same at and beneath q.
Agree(d, e, q) ==
  \A p \in Paths :
    IsPrefix(q, p) => /\ p \in DOMAIN d <=> p \in DOMAIN e
                      /\ p \in DOMAIN d /\ p \in DOMAIN e => d[p] = e[p]

\* e has what d has, and its values.
Grows(e, d) ==
  /\ \A p \in Paths : Has(d, p) => Has(e, p)
  /\ \A p \in DOMAIN d : d[p] # EmptyDict => p \in DOMAIN e /\ e[p] = d[p]

\* Agreement is transitive.
LEMMA AgreeTrans ==
  \A c, d, e, q : Agree(c, d, q) /\ Agree(d, e, q) => Agree(c, e, q)
BY DEF Agree

\* So is growth.
LEMMA GrowsTrans ==
  \A c, d, e : Grows(c, d) /\ Grows(d, e) => Grows(c, e)
BY DEF Grows

\* Where two dictionaries agree they have the same paths
LEMMA AgreeHas ==
  ASSUME NEW d, NEW e, NEW q \in Paths, NEW p \in Paths,
         DOMAIN d \subseteq Paths, DOMAIN e \subseteq Paths,
         Agree(d, e, q), IsPrefix(q, p)
  PROVE  Has(d, p) <=> Has(e, p)
<1>1. \A r \in Paths : IsPrefix(p, r) => IsPrefix(q, r) BY PrefixOrder
<1> QED BY <1>1 DEF Agree, Has

\* and the same keys.
LEMMA AgreeKeys ==
  ASSUME NEW d, NEW e, NEW q \in Paths, IsDictionary(d), IsDictionary(e),
         Agree(d, e, q)
  PROVE  KeysAt(d, q) = KeysAt(e, q)
<1>1. DOMAIN d \subseteq Paths /\ DOMAIN e \subseteq Paths BY DEF IsDictionary
<1>2. \A r \in Paths : IsStrictPrefix(q, r) =>
        /\ r \in DOMAIN d <=> r \in DOMAIN e
  BY DEF Agree, IsStrictPrefix
<1> QED BY <1>1, <1>2 DEF KeysAt

\* Merging defaults only adds,
LEMMA MergeGrows ==
  ASSUME NEW s, NEW d, IsDictionary(s), IsDictionary(d)
  PROVE  Grows(Merge(s, d), s)
BY MergeHas, MergeKeeps DEF Grows

\* and only where they have leaves.
LEMMA MergeElsewhere ==
  ASSUME NEW s, NEW d, IsDictionary(s), IsDictionary(d), NEW q \in Paths,
         \A r \in DOMAIN d : ~IsPrefix(q, r)
  PROVE  Agree(Merge(s, d), s, q)
<1>1. DOMAIN s \subseteq Paths /\ DOMAIN d \subseteq Paths BY DEF IsDictionary
<1>2. ASSUME NEW p \in DOMAIN s, IsPrefix(q, p)
      PROVE  p \in Kept(s, d)
  <2>1. \A r \in DOMAIN d : ~IsPrefix(p, r) BY <1>1, <1>2, PrefixOrder
  <2> QED BY <2>1 DEF Kept, IsStrictPrefix
<1> QED BY <1>2, MergeParts DEF Agree

\* Putting a value changes what is at, above or beneath its path.
LEMMA PutElsewhere ==
  ASSUME NEW d, NEW p \in Paths, NEW q \in Paths, NEW v, IsDictionary(d),
         ~IsPrefix(p, q), ~IsPrefix(q, p)
  PROVE  Agree(Put(d, p, v), d, q)
<1>1. p # q BY PrefixOrder
<1>2. \A r \in Paths : IsPrefix(q, r) => ~IsPrefix(p, r) /\ ~IsPrefix(r, p) /\ r # p
  BY <1>1, PrefixOrder
<1> QED BY <1>2, PutParts DEF Agree

\* A restriction keeps what is kept whole.
LEMMA OnlyElsewhere ==
  ASSUME NEW d, NEW S, NEW q, \A p \in DOMAIN d : IsPrefix(q, p) => p \in S
  PROVE  Agree(Only(d, S), d, q)
BY OnlyParts DEF Agree

\* No path is a prefix of one that differs from it within its length.
LEMMA ApartAt ==
  ASSUME NEW p \in Paths, NEW q \in Paths, p # <<>>, q # <<>>,
         \/ At(p, 1) # At(q, 1)
         \/ Depth(p) >= 2 /\ Depth(q) >= 2 /\ At(p, 2) # At(q, 2)
         \/ Depth(p) >= 3 /\ Depth(q) >= 3 /\ At(p, 3) # At(q, 3)
         \/ Depth(p) >= 4 /\ Depth(q) >= 4 /\ At(p, 4) # At(q, 4)
         \/ Depth(p) >= 5 /\ Depth(q) >= 5 /\ At(p, 5) # At(q, 5)
  PROVE  ~IsPrefix(p, q) /\ ~IsPrefix(q, p)
<1>1. IsPrefix(p, q) => FALSE BY Elements
<1>2. IsPrefix(q, p) => FALSE BY Elements
<1> QED BY <1>1, <1>2

\* The leaves of both defaults.
DefaultLeaf(r) ==
  /\ r \in Paths
  /\ \/ At(r, 1) = "git" /\ Depth(r) = 2
     \/ At(r, 1) = "deployment" /\ Depth(r) >= 2
     \/ /\ At(r, 1) = "templates" /\ Depth(r) = 5
        /\ At(r, 2) = "app" /\ At(r, 3) = "args"
        /\ At(r, 4) = "environment" /\ At(r, 5) = "DISCOVER_UPSTREAM_TTL"
     \/ At(r, 1) = "templates" /\ Depth(r) = 4 /\ At(r, 2) = "app" /\ At(r, 3) = "args"
     \/ /\ At(r, 1) = "templates" /\ Depth(r) = 3 /\ At(r, 3) = "name"
        /\ At(r, 2) \in {"app", "yoda_register"}
     \/ At(r, 1) = "proxy" /\ Depth(r) = 2
     \/ At(r, 1) = "environment" /\ Depth(r) = 1

\* Both defaults consist of firm leaves of these kinds.
LEMMA DefaultLeaves ==
  /\ \A r \in DOMAIN DEFAULT_DEFAULTS : DefaultLeaf(r) /\ Firm(r)
  /\ \A r \in DOMAIN GIT_QUAY_DEFAULTS : DefaultLeaf(r) /\ Firm(r)
<1>1. /\ "ref" \in Keys /\ "commit" \in Keys /\ "port" \in Keys
      /\ "timeout" \in Keys /\ "DISCOVER_UPSTREAM_TTL" \in Keys
      /\ "app" \in Keys /\ "yoda_register" \in Keys /\ "name" \in Keys
  BY DefaultKeys
<1>2. \A r \in {GitPath("ref"), GitPath("commit"), TypePath, VersionPath, ModePath} :
        DefaultLeaf(r) /\ Firm(r)
  BY <1>1, KeyPaths, NamedPaths, FirmPaths DEF DefaultLeaf
<1>3. \A r \in {CheckPath("port"), CheckPath("timeout"), StopPath} :
        DefaultLeaf(r) /\ Firm(r)
  BY <1>1, KeyPaths, NamedPaths, FirmPaths DEF DefaultLeaf
<1>4. \A r \in {VariablePath("DISCOVER_UPSTREAM_TTL"), HostsPath, ListenersPath} :
        DefaultLeaf(r) /\ Firm(r)
  BY <1>1, KeyPaths, NamedPaths, FirmPaths DEF DefaultLeaf
<1>5. \A r \in {UpstreamsPath, SharedPath} : DefaultLeaf(r) /\ Firm(r)
  BY ShortPaths, NamedPaths, FirmPaths DEF DefaultLeaf
<1>6. \A r \in {NamePath, ImagePath, EnvironmentPath} : DefaultLeaf(r) /\ Firm(r)
  BY AppPaths, NamedPaths, FirmPaths DEF DefaultLeaf
<1>7. \A r \in {TemplatePath("app", "name"), TemplatePath("yoda_register", "name")} :
        DefaultLeaf(r) /\ Firm(r)
  BY <1>1, KeyPaths, FirmPaths DEF DefaultLeaf
<1>8. \A r \in DOMAIN DEFAULT_DEFAULTS : DefaultLeaf(r) /\ Firm(r)
  BY <1>2, <1>3, <1>4, <1>5, General
<1>9. \A r \in DOMAIN GIT_QUAY_DEFAULTS : DefaultLeaf(r) /\ Firm(r)
  BY <1>2, <1>6, <1>7, Quay
<1> QED BY <1>8, <1>9

\* What the defaults do not touch.
LEMMA DefaultsElsewhere ==
  ASSUME NEW q \in Paths, Depth(q) >= 1,
         \/ At(q, 1) \in {"schedule", "state"}
         \/ At(q, 1) = "environment" /\ Depth(q) >= 2
         \/ At(q, 1) = "proxy" /\ Depth(q) >= 3
         \/ At(q, 1) = "templates" /\ Depth(q) = 3 /\ At(q, 3) = "enabled"
         \/ /\ At(q, 1) = "templates" /\ Depth(q) = 5
            /\ At(q, 5) # "DISCOVER_UPSTREAM_TTL"
  PROVE  \A r : DefaultLeaf(r) => ~IsPrefix(q, r)
<1> SUFFICES ASSUME NEW r \in Paths, DefaultLeaf(r), IsPrefix(q, r) PROVE FALSE
  BY DEF DefaultLeaf
<1>1. /\ Depth(q) \in Nat /\ Depth(q) <= Depth(r)
      /\ At(q, 1) = At(r, 1)
      /\ 3 <= Depth(q) => At(q, 3) = At(r, 3)
      /\ 5 <= Depth(q) => At(q, 5) = At(r, 5)
  BY Depths, Elements
<1>2. Depth(r) \in Nat BY Depths
<1> QED BY <1>1, <1>2 DEF DefaultLeaf

-----------------------------------------------------------------------------
(* Defaults for the type, general ones and git-quay.                       *)

\* The defaults of git are no format fields.
LEMMA GitDefaults ==
  \A r \in {GitPath("ref"), GitPath("commit")} :
    DEFAULT_DEFAULTS[r] \notin {"GIT_REF", "GIT_COMMIT"}
<1> DEFINE pairs == {
      <<GitPath("ref"), "master">>, <<GitPath("commit"), "not_set">>,
      <<TypePath, "default">>, <<VersionPath, "None">>, <<ModePath, "blue-green">>,
      <<CheckPath("port"), "None">>, <<CheckPath("timeout"), "10s">>,
      <<StopPath, "30s">>, <<VariablePath("DISCOVER_UPSTREAM_TTL"), "86400">>,
      <<HostsPath, EmptyDict>>, <<ListenersPath, EmptyDict>>,
      <<UpstreamsPath, EmptyDict>>, <<SharedPath, EmptyDict>>}
<1>1. \A l \in pairs : l = <<l[1], l[2]>> OBVIOUS
<1>2. \A p, v : <<p, v>> \in pairs => v \notin {"GIT_REF", "GIT_COMMIT"}
  BY EmptyDictAssumption DEF NamedValues
<1>3. DEFAULT_DEFAULTS = Leaves(pairs) BY DEF DEFAULT_DEFAULTS
<1> HIDE DEF pairs
<1>4. \A p \in DOMAIN DEFAULT_DEFAULTS : <<p, DEFAULT_DEFAULTS[p]>> \in pairs
  BY <1>1, <1>3, LeavesParts
<1> QED BY <1>2, <1>4, General

FormatFields == {"GIT_REF", "GIT_COMMIT"}

\* The defaults of the type and the general ones.
LEMMA TypeStage ==
  ASSUME NEW x, Shaped(x),
         NEW d, d = Merge(TypeDefaults(Merge(x, Leaf(TypePath, "git-quay"))),
                          DEFAULT_DEFAULTS)
  PROVE  /\ Shaped(d) /\ Grows(d, x)
         /\ \A r \in DOMAIN DEFAULT_DEFAULTS : Has(d, r)
         /\ IsGitQuay(d) => \A r \in DOMAIN GIT_QUAY_DEFAULTS : Has(d, r)
         /\ \A q \in Paths : (\A r : DefaultLeaf(r) => ~IsPrefix(q, r)) =>
              Agree(d, x, q)
         /\ \A r \in {GitPath("ref"), GitPath("commit")} :
              r \in DOMAIN d /\ d[r] # EmptyDict
                /\ (r \in DOMAIN x \/ d[r] \notin FormatFields)
                /\ (r \in DOMAIN x => d[r] = x[r])
<1> DEFINE l == Leaf(TypePath, "git-quay")
           d1 == Merge(x, l)
           t == TypeDefaults(d1)
<1>1. TypePath \in Paths /\ TypePath # <<>> BY NamedPaths, Depths
<1>2. Shaped(l)
  BY <1>1, LeafShaped, FitsNamed, DefaultKeys
<1>3. Shaped(d1) /\ Grows(d1, x) BY <1>2, MergeShaped, MergeGrows DEF Shaped
<1>4. TypePath \in DOMAIN d1 /\ d1[TypePath] # EmptyDict
  <2>1. TypePath \in DOMAIN l BY LeafParts
  <2>2. Has(d1, TypePath)
    <3>1. Has(d1, TypePath) \/ Above(d1, TypePath)
      BY <1>2, <2>1, MergeSat DEF Sat, Shaped
    <3> QED BY <1>1, <1>3, <3>1, FirmHas, FirmPaths
  <2> QED BY <1>1, <1>3, <2>2, AtomicLeaf, AtomicPaths
<1>5. \A q \in Paths : ~IsPrefix(q, TypePath) => Agree(d1, x, q)
  <2>1. \A r \in DOMAIN l : r = TypePath BY LeafParts
  <2> QED BY <1>2, <2>1, MergeElsewhere DEF Shaped
<1> HIDE DEF l, d1
<1>6. t = IF IsGitQuay(d1) THEN Merge(d1, GIT_QUAY_DEFAULTS) ELSE d1
  BY DEF TypeDefaults
<1>7. Shaped(t) /\ Grows(t, d1)
  BY <1>3, <1>6, Quay, MergeShaped, MergeGrows DEF Shaped, Grows
<1>8. IsGitQuay(d1) => \A r \in DOMAIN GIT_QUAY_DEFAULTS : Has(t, r)
  <2> SUFFICES ASSUME IsGitQuay(d1), NEW r \in DOMAIN GIT_QUAY_DEFAULTS
               PROVE  Has(t, r)
    OBVIOUS
  <2>1. Has(t, r) \/ Above(t, r) BY <1>3, <1>6, Quay, MergeSat DEF Sat, Shaped
  <2> QED BY <1>7, <2>1, DefaultLeaves, FirmHas DEF DefaultLeaf
<1>9. \A q \in Paths : (\A r : DefaultLeaf(r) => ~IsPrefix(q, r)) => Agree(t, d1, q)
  <2>1. \A q : Agree(d1, d1, q) BY DEF Agree
  <2> QED BY <1>3, <1>6, <2>1, Quay, DefaultLeaves, MergeElsewhere DEF Shaped
<1> HIDE DEF t
<1>10. d = Merge(t, DEFAULT_DEFAULTS) BY DEF t, d1, l
<1>11. Shaped(d) /\ Grows(d, t)
  BY <1>7, <1>10, General, MergeShaped, MergeGrows DEF Shaped
<1>12. ASSUME NEW r \in DOMAIN DEFAULT_DEFAULTS PROVE Has(d, r)
  <2>1. Has(d, r) \/ Above(d, r) BY <1>7, <1>10, General, MergeSat DEF Sat, Shaped
  <2> QED BY <1>11, <2>1, DefaultLeaves, FirmHas DEF DefaultLeaf
<1>13. \A q \in Paths : (\A r : DefaultLeaf(r) => ~IsPrefix(q, r)) => Agree(d, t, q)
  BY <1>7, <1>10, General, DefaultLeaves, MergeElsewhere DEF Shaped
<1>14. Grows(d, x) BY <1>3, <1>7, <1>11, GrowsTrans
<1>15. IsGitQuay(d) => IsGitQuay(d1)
  <2>1. d[TypePath] = d1[TypePath] BY <1>4, <1>7, <1>11, GrowsTrans DEF Grows
  <2> QED BY <2>1 DEF IsGitQuay
<1>16. \A r \in Paths : Has(t, r) => Has(d, r) BY <1>11 DEF Grows
<1>17. IsGitQuay(d) => \A r \in DOMAIN GIT_QUAY_DEFAULTS : Has(d, r)
  BY <1>8, <1>15, <1>16, DefaultLeaves DEF DefaultLeaf
<1>18. \A q \in Paths : (\A r : DefaultLeaf(r) => ~IsPrefix(q, r)) => Agree(d, x, q)
  <2>1. DefaultLeaf(TypePath) BY General, DefaultLeaves
  <2> QED BY <1>5, <1>9, <1>13, <2>1, AgreeTrans
<1>19. ASSUME NEW r \in {GitPath("ref"), GitPath("commit")}
       PROVE  /\ r \in DOMAIN d /\ d[r] # EmptyDict
              /\ r \in DOMAIN x \/ d[r] \notin FormatFields
              /\ r \in DOMAIN x => d[r] = x[r]
  <2>1. /\ r \in Paths /\ Atomic(r) /\ r \in DOMAIN DEFAULT_DEFAULTS
        /\ At(r, 1) = "git" /\ Depth(r) = 2
    <3>1. "ref" \in Keys /\ "commit" \in Keys BY DefaultKeys
    <3>2. r \in Paths /\ At(r, 1) = "git" /\ Depth(r) = 2 BY <3>1, KeyPaths
    <3>3. Atomic(r) BY <3>1, AtomicPaths
    <3> QED BY <3>2, <3>3, General
  <2>2. r \in DOMAIN d /\ d[r] # EmptyDict
    BY <1>11, <1>12, <2>1, AtomicLeaf
  <2>3. r \in DOMAIN x => x[r] # EmptyDict /\ d[r] = x[r]
    <3>1. r \in DOMAIN x => Has(x, r) BY <2>1, PrefixOrder DEF Has
    <3> QED BY <1>14, <2>1, <3>1, AtomicLeaf DEF Grows
  <2>4. r \notin DOMAIN x => d[r] \notin FormatFields
    <3> SUFFICES ASSUME r \notin DOMAIN x PROVE d[r] \notin FormatFields OBVIOUS
    <3>1. r \notin DOMAIN l /\ r \notin DOMAIN GIT_QUAY_DEFAULTS
      <4>1. At(TypePath, 1) = "deployment" /\ At(NamePath, 1) = "deployment"
        BY NamedPaths
      <4>2. At(ImagePath, 1) = "templates" /\ At(EnvironmentPath, 1) = "templates"
        BY AppPaths
      <4>3. \A k \in {"app", "yoda_register"} : At(TemplatePath(k, "name"), 1) = "templates"
        <5>1. "app" \in Keys /\ "yoda_register" \in Keys /\ "name" \in Keys
          BY DefaultKeys
        <5> QED BY <5>1, KeyPaths
      <4> QED BY <2>1, <4>1, <4>2, <4>3, Quay, LeafParts DEF l
    <3>2. r \notin DOMAIN d1 BY <1>2, <3>1, MergeParts DEF Shaped, d1
    <3>3. r \notin DOMAIN t BY <1>3, <1>6, <3>1, <3>2, Quay, MergeParts DEF Shaped
    <3>4. d[r] = DEFAULT_DEFAULTS[r]
      BY <1>7, <1>10, <2>2, <3>3, General, MergeParts DEF Shaped
    <3>5. DEFAULT_DEFAULTS[r] \notin FormatFields
      BY GitDefaults DEF FormatFields
    <3> QED BY <3>4, <3>5
  <2> QED BY <2>2, <2>3, <2>4
<1> QED BY <1>11, <1>12, <1>14, <1>17, <1>18, <1>19

\* Names in git contain no format fields.
PlainNames(d) ==
  \A r \in {GitPath("ref"), GitPath("commit")} :
    r \in DOMAIN d => d[r] \notin FormatFields

\* _git_quay_defaults formats name and image, and nothing else.
LEMMA FormatStage ==
  ASSUME NEW d, Shaped(d),
         \A r \in {GitPath("ref"), GitPath("commit")} : d[r] # EmptyDict
  PROVE  /\ Shaped(GitQuayDefaults(d))
         /\ \A p : p \in DOMAIN GitQuayDefaults(d) <=> p \in DOMAIN d
         /\ \A p \in DOMAIN d :
              p \notin {NamePath, ImagePath} => GitQuayDefaults(d)[p] = d[p]
         /\ \A p \in DOMAIN d :
              /\ d[p] \notin FormatFields => GitQuayDefaults(d)[p] = d[p]
              /\ p \in {NamePath, ImagePath} =>
                   GitQuayDefaults(d)[p] = Format(d, d[p])
<1> DEFINE e == GitQuayDefaults(d)
<1>1. NamePath # ImagePath
  <2>1. At(NamePath, 1) = "deployment" /\ At(ImagePath, 1) = "templates"
    BY NamedPaths, AppPaths
  <2> QED BY <2>1
<1>2. IsFunction(e) /\ DOMAIN e = DOMAIN d BY DEF GitQuayDefaults, IsFunction
<1>3. \A p \in DOMAIN d :
        /\ p \notin {NamePath, ImagePath} => e[p] = d[p]
        /\ p \in {NamePath, ImagePath} => e[p] = Format(d, d[p])
  BY <1>1 DEF GitQuayDefaults
<1>4. /\ \A v : v \notin FormatFields => Format(d, v) = v
      /\ \A v : v # EmptyDict => Format(d, v) # EmptyDict
  BY DEF Format, FormatFields
<1> HIDE DEF e
<1>5. IsDictionary(d) /\ \A p \in DOMAIN d : p # <<>> /\ Fits(p, d[p]) BY DEF Shaped
<1>6. IsDictionary(e)
  <2>1. DOMAIN d \subseteq Paths /\ \A p, q \in DOMAIN d : IsPrefix(p, q) => p = q
    BY <1>5 DEF IsDictionary
  <2> QED BY <1>2, <2>1 DEF IsDictionary
<1>7. \A p \in DOMAIN e : p # <<>> /\ Fits(p, e[p])
  <2> SUFFICES ASSUME NEW p \in DOMAIN d PROVE p # <<>> /\ Fits(p, e[p])
    BY <1>2
  <2>1. CASE p \notin {NamePath, ImagePath} BY <1>3, <1>5, <2>1
  <2>2. CASE p \in {NamePath, ImagePath}
    <3>1. Atomic(p) /\ p \in Paths
      BY <2>2, AtomicPaths, NamedPaths, AppPaths
    <3>2. d[p] # EmptyDict BY <1>5, <3>1, PrefixOrder DEF Atomic
    <3>3. e[p] # EmptyDict BY <1>3, <1>4, <2>2, <3>2
    <3> QED BY <1>5, <2>2, <3>3, FitsNamed
  <2> QED BY <2>1, <2>2
<1>8. Shaped(e) BY <1>6, <1>7 DEF Shaped
<1> QED BY <1>2, <1>3, <1>4, <1>8 DEF e

\* All defaults before those of the templates.
LEMMA GeneralStage ==
  ASSUME NEW x, Shaped(x)
  PROVE  /\ Shaped(GeneralDefaults(x))
         /\ \A p \in Paths : Has(x, p) => Has(GeneralDefaults(x), p)
         /\ \A p \in DOMAIN x :
              x[p] # EmptyDict /\ (p \notin {NamePath, ImagePath} \/ x[p] \notin FormatFields) =>
                p \in DOMAIN GeneralDefaults(x) /\ GeneralDefaults(x)[p] = x[p]
         /\ \A r \in DOMAIN DEFAULT_DEFAULTS : Has(GeneralDefaults(x), r)
         /\ IsGitQuay(GeneralDefaults(x)) =>
              \A r \in DOMAIN GIT_QUAY_DEFAULTS : Has(GeneralDefaults(x), r)
         /\ \A q \in Paths : (\A r : DefaultLeaf(r) => ~IsPrefix(q, r)) =>
              Agree(GeneralDefaults(x), x, q)
         /\ PlainNames(x) =>
              /\ PlainNames(GeneralDefaults(x))
              /\ IsGitQuay(GeneralDefaults(x)) =>
                   \A p \in {NamePath, ImagePath} :
                     p \in DOMAIN GeneralDefaults(x) =>
                       GeneralDefaults(x)[p] \notin FormatFields
<1> DEFINE d == Merge(TypeDefaults(Merge(x, Leaf(TypePath, "git-quay"))),
                      DEFAULT_DEFAULTS)
           g == GeneralDefaults(x)
<1>1. g = IF IsGitQuay(d) THEN GitQuayDefaults(d) ELSE d BY DEF GeneralDefaults
<1>2. /\ Shaped(d) /\ Grows(d, x)
      /\ \A r \in DOMAIN DEFAULT_DEFAULTS : Has(d, r)
      /\ IsGitQuay(d) => \A r \in DOMAIN GIT_QUAY_DEFAULTS : Has(d, r)
      /\ \A q \in Paths : (\A r : DefaultLeaf(r) => ~IsPrefix(q, r)) => Agree(d, x, q)
  BY TypeStage
<1>3. \A r \in {GitPath("ref"), GitPath("commit")} :
        /\ r \in DOMAIN d /\ d[r] # EmptyDict
        /\ r \in DOMAIN x \/ d[r] \notin FormatFields
        /\ r \in DOMAIN x => d[r] = x[r]
  BY TypeStage
<1> HIDE DEF d, g
<1>4. CASE ~IsGitQuay(d)
  <2>1. g = d BY <1>1, <1>4
  <2>2. PlainNames(x) => PlainNames(d) BY <1>3 DEF PlainNames
  <2> QED BY <1>2, <1>4, <2>1, <2>2 DEF g, Grows
<1>5. CASE IsGitQuay(d)
  <2>1. /\ Shaped(g)
        /\ \A p : p \in DOMAIN g <=> p \in DOMAIN d
        /\ \A p \in DOMAIN d : p \notin {NamePath, ImagePath} => g[p] = d[p]
        /\ \A p \in DOMAIN d :
              /\ d[p] \notin FormatFields => g[p] = d[p]
              /\ p \in {NamePath, ImagePath} => g[p] = Format(d, d[p])
    BY <1>1, <1>2, <1>3, <1>5, FormatStage
  <2>2. \A p : Has(d, p) <=> Has(g, p) BY <2>1 DEF Has
  <2>3. \A p \in DOMAIN x :
          x[p] # EmptyDict /\ (p \notin {NamePath, ImagePath} \/ x[p] \notin FormatFields) =>
            p \in DOMAIN g /\ g[p] = x[p]
    BY <1>2, <2>1 DEF Grows
  <2>4. \A q \in Paths : (\A r : DefaultLeaf(r) => ~IsPrefix(q, r)) => Agree(g, x, q)
    <3>1. DefaultLeaf(NamePath) /\ DefaultLeaf(ImagePath) BY DefaultLeaves, Quay
    <3>2. \A q \in Paths : (\A r : DefaultLeaf(r) => ~IsPrefix(q, r)) => Agree(g, d, q)
      BY <2>1, <3>1 DEF Agree
    <3> QED BY <1>2, <3>2, AgreeTrans
  <2>5. PlainNames(x) => PlainNames(d) /\ PlainNames(g)
    <3>1. \A r \in {GitPath("ref"), GitPath("commit")} : r \notin {NamePath, ImagePath}
      <4>1. "ref" \in Keys /\ "commit" \in Keys BY DefaultKeys
      <4>2. \A r \in {GitPath("ref"), GitPath("commit")} : At(r, 1) = "git"
        BY <4>1, KeyPaths
      <4>3. At(NamePath, 1) = "deployment" /\ At(ImagePath, 1) = "templates"
        BY NamedPaths, AppPaths
      <4> QED BY <4>2, <4>3
    <3> QED BY <1>3, <2>1, <3>1 DEF PlainNames
  <2>6. PlainNames(x) => \A p \in {NamePath, ImagePath} :
          p \in DOMAIN g => g[p] \notin FormatFields
    <3>1. PlainNames(x) => \A v : Format(d, v) \notin FormatFields
      BY <1>3, <2>5 DEF Format, FormatFields, PlainNames
    <3> QED BY <2>1, <3>1
  <2>7. \A p \in Paths : Has(x, p) => Has(g, p) BY <1>2, <2>2 DEF Grows
  <2>8. \A r \in DOMAIN DEFAULT_DEFAULTS : Has(g, r) BY <1>2, <2>2
  <2>9. \A r \in DOMAIN GIT_QUAY_DEFAULTS : Has(g, r) BY <1>2, <1>5, <2>2
  <2> QED BY <2>1, <2>3, <2>4, <2>5, <2>6, <2>7, <2>8, <2>9 DEF g
<1> QED BY <1>4, <1>5

-----------------------------------------------------------------------------
(* The defaults of each template and of each upstream.                     *)

\* The paths of an upstream.
LEMMA UpstreamPaths ==
  \A u \in Keys :
    /\ /\ UpstreamPath(u, "mode") \in Paths /\ Depth(UpstreamPath(u, "mode")) = 4
       /\ At(UpstreamPath(u, "mode"), 1) = "proxy"
       /\ At(UpstreamPath(u, "mode"), 2) = "upstreams"
       /\ At(UpstreamPath(u, "mode"), 3) = u /\ At(UpstreamPath(u, "mode"), 4) = "mode"
    /\ /\ UpstreamPath(u, "ttl") \in Paths /\ Depth(UpstreamPath(u, "ttl")) = 4
       /\ At(UpstreamPath(u, "ttl"), 1) = "proxy"
       /\ At(UpstreamPath(u, "ttl"), 2) = "upstreams"
       /\ At(UpstreamPath(u, "ttl"), 3) = u /\ At(UpstreamPath(u, "ttl"), 4) = "ttl"
    /\ /\ HealthPath(u, "timeout") \in Paths /\ Depth(HealthPath(u, "timeout")) = 5
       /\ At(HealthPath(u, "timeout"), 1) = "proxy"
       /\ At(HealthPath(u, "timeout"), 2) = "upstreams"
       /\ At(HealthPath(u, "timeout"), 3) = u
       /\ At(HealthPath(u, "timeout"), 4) = "health"
       /\ At(HealthPath(u, "timeout"), 5) = "timeout"
<1> SUFFICES ASSUME NEW u \in Keys
             PROVE  /\ /\ UpstreamPath(u, "mode") \in Paths /\ Depth(UpstreamPath(u, "mode")) = 4
                       /\ At(UpstreamPath(u, "mode"), 1) = "proxy"
                       /\ At(UpstreamPath(u, "mode"), 2) = "upstreams"
                       /\ At(UpstreamPath(u, "mode"), 3) = u
                       /\ At(UpstreamPath(u, "mode"), 4) = "mode"
                    /\ /\ UpstreamPath(u, "ttl") \in Paths /\ Depth(UpstreamPath(u, "ttl")) = 4
                       /\ At(UpstreamPath(u, "ttl"), 1) = "proxy"
                       /\ At(UpstreamPath(u, "ttl"), 2) = "upstreams"
                       /\ At(UpstreamPath(u, "ttl"), 3) = u /\ At(UpstreamPath(u, "ttl"), 4) = "ttl"
                    /\ /\ HealthPath(u, "timeout") \in Paths /\ Depth(HealthPath(u, "timeout")) = 5
                       /\ At(HealthPath(u, "timeout"), 1) = "proxy"
                       /\ At(HealthPath(u, "timeout"), 2) = "upstreams"
                       /\ At(HealthPath(u, "timeout"), 3) = u
                       /\ At(HealthPath(u, "timeout"), 4) = "health"
                       /\ At(HealthPath(u, "timeout"), 5) = "timeout"
  OBVIOUS
<1> USE KeysAssumption DEF NamedKeys, Paths, Depth, At
<1>1. /\ UpstreamPath(u, "mode") \in Paths /\ Depth(UpstreamPath(u, "mode")) = 4
      /\ At(UpstreamPath(u, "mode"), 1) = "proxy"
      /\ At(UpstreamPath(u, "mode"), 2) = "upstreams"
      /\ At(UpstreamPath(u, "mode"), 3) = u /\ At(UpstreamPath(u, "mode"), 4) = "mode"
  BY DEF UpstreamPath
<1>2. /\ UpstreamPath(u, "ttl") \in Paths /\ Depth(UpstreamPath(u, "ttl")) = 4
      /\ At(UpstreamPath(u, "ttl"), 1) = "proxy"
      /\ At(UpstreamPath(u, "ttl"), 2) = "upstreams"
      /\ At(UpstreamPath(u, "ttl"), 3) = u /\ At(UpstreamPath(u, "ttl"), 4) = "ttl"
  BY DEF UpstreamPath
<1>3. /\ HealthPath(u, "timeout") \in Paths /\ Depth(HealthPath(u, "timeout")) = 5
      /\ At(HealthPath(u, "timeout"), 1) = "proxy"
      /\ At(HealthPath(u, "timeout"), 2) = "upstreams"
      /\ At(HealthPath(u, "timeout"), 3) = u
      /\ At(HealthPath(u, "timeout"), 4) = "health"
      /\ At(HealthPath(u, "timeout"), 5) = "timeout"
  BY DEF HealthPath
<1> HIDE KeysAssumption DEF NamedKeys, Paths, Depth, At
<1> QED BY <1>1, <1>2, <1>3

\* The elements of a path beneath p.
LEMMA BeneathAt ==
  ASSUME NEW p \in Paths, NEW k \in Keys, NEW r \in Paths
  PROVE  /\ Beneath(p, k, r) \in Paths
         /\ Depth(Beneath(p, k, r)) = Depth(p) + 1 + Depth(r)
         /\ \A i \in 1 .. Depth(p) : At(Beneath(p, k, r), i) = At(p, i)
         /\ At(Beneath(p, k, r), Depth(p) + 1) = k
         /\ \A i \in 1 .. Depth(r) :
              At(Beneath(p, k, r), Depth(p) + 1 + i) = At(r, i)
BY Lists DEF Beneath, Depth, At

\* Paths with the same elements are the same.
LEMMA SamePath ==
  ASSUME NEW p \in Paths, NEW q \in Paths, Depth(p) = Depth(q),
         \A i \in 1 .. Depth(p) : At(p, i) = At(q, i)
  PROVE  p = q
<1>1. IsPrefix(p, q) BY PrefixAt, Depths
<1> QED BY <1>1, PrefixLen DEF Depth

\* What ForEach makes of the defaults' paths.
LEMMA BeneathPaths ==
  /\ \A t \in Keys, k \in Keys : Beneath(TemplatesPath, t, <<k>>) = TemplatePath(t, k)
  /\ \A u \in Keys : Beneath(UpstreamsPath, u, <<"mode">>) = UpstreamPath(u, "mode")
  /\ \A u \in Keys : Beneath(UpstreamsPath, u, <<"ttl">>) = UpstreamPath(u, "ttl")
  /\ \A u \in Keys :
       Beneath(UpstreamsPath, u, <<"health", "timeout">>) = HealthPath(u, "timeout")
<1>1. \A k \in Keys : <<k>> \in Paths /\ Depth(<<k>>) = 1 /\ At(<<k>>, 1) = k
  BY DEF Paths, Depth, At
<1>2. /\ <<"health", "timeout">> \in Paths /\ Depth(<<"health", "timeout">>) = 2
      /\ At(<<"health", "timeout">>, 1) = "health"
      /\ At(<<"health", "timeout">>, 2) = "timeout"
  BY KeysAssumption DEF NamedKeys, Paths, Depth, At
<1>3. "mode" \in Keys /\ "ttl" \in Keys BY KeysAssumption DEF NamedKeys
<1>4. ASSUME NEW t \in Keys, NEW k \in Keys
      PROVE  Beneath(TemplatesPath, t, <<k>>) = TemplatePath(t, k)
  <2> DEFINE b == Beneath(TemplatesPath, t, <<k>>)
  <2>1. /\ b \in Paths /\ Depth(b) = 1 + 1 + 1
        /\ At(b, 1) = "templates" /\ At(b, 1 + 1) = t /\ At(b, 1 + 1 + 1) = k
    BY <1>1, ShortPaths, BeneathAt
  <2>2. /\ TemplatePath(t, k) \in Paths /\ Depth(TemplatePath(t, k)) = 3
        /\ At(TemplatePath(t, k), 1) = "templates"
        /\ At(TemplatePath(t, k), 2) = t /\ At(TemplatePath(t, k), 3) = k
    BY KeyPaths
  <2> HIDE DEF b
  <2>3. b = TemplatePath(t, k) BY <2>1, <2>2, SamePath
  <2> QED BY <2>3 DEF b
<1>5. ASSUME NEW u \in Keys, NEW k \in {"mode", "ttl"}
      PROVE  Beneath(UpstreamsPath, u, <<k>>) = UpstreamPath(u, k)
  <2> DEFINE b == Beneath(UpstreamsPath, u, <<k>>)
  <2>1. /\ b \in Paths /\ Depth(b) = 2 + 1 + 1
        /\ At(b, 1) = "proxy" /\ At(b, 2) = "upstreams"
        /\ At(b, 2 + 1) = u /\ At(b, 2 + 1 + 1) = k
    BY <1>1, <1>3, NamedPaths, BeneathAt
  <2>2. /\ UpstreamPath(u, k) \in Paths /\ Depth(UpstreamPath(u, k)) = 4
        /\ At(UpstreamPath(u, k), 1) = "proxy" /\ At(UpstreamPath(u, k), 2) = "upstreams"
        /\ At(UpstreamPath(u, k), 3) = u /\ At(UpstreamPath(u, k), 4) = k
    BY UpstreamPaths
  <2> HIDE DEF b
  <2>3. b = UpstreamPath(u, k) BY <2>1, <2>2, SamePath
  <2> QED BY <2>3 DEF b
<1>6. ASSUME NEW u \in Keys
      PROVE  Beneath(UpstreamsPath, u, <<"health", "timeout">>) = HealthPath(u, "timeout")
  <2> DEFINE b == Beneath(UpstreamsPath, u, <<"health", "timeout">>)
  <2>1. /\ b \in Paths /\ Depth(b) = 2 + 1 + 2
        /\ At(b, 1) = "proxy" /\ At(b, 2) = "upstreams"
        /\ At(b, 2 + 1) = u /\ At(b, 2 + 1 + 1) = "health"
        /\ At(b, 2 + 1 + 2) = "timeout"
    BY <1>2, NamedPaths, BeneathAt
  <2>2. /\ HealthPath(u, "timeout") \in Paths /\ Depth(HealthPath(u, "timeout")) = 5
        /\ At(HealthPath(u, "timeout"), 1) = "proxy"
        /\ At(HealthPath(u, "timeout"), 2) = "upstreams"
        /\ At(HealthPath(u, "timeout"), 3) = u
        /\ At(HealthPath(u, "timeout"), 4) = "health"
        /\ At(HealthPath(u, "timeout"), 5) = "timeout"
    BY UpstreamPaths
  <2> HIDE DEF b
  <2>3. b = HealthPath(u, "timeout") BY <2>1, <2>2, SamePath
  <2> QED BY <2>3 DEF b
<1> QED BY <1>4, <1>5, <1>6

\* The leaves of TEMPLATE_DEFAULTS,
LEMMA TemplateLeaves ==
  /\ IsDictionary(TEMPLATE_DEFAULTS)
  /\ \A r : r \in DOMAIN TEMPLATE_DEFAULTS <=> r = <<"enabled">> \/ r = <<"args">>
  /\ TEMPLATE_DEFAULTS[<<"enabled">>] = "True"
  /\ TEMPLATE_DEFAULTS[<<"args">>] = EmptyDict
<1> DEFINE pairs == {<<<<"enabled">>, "True">>, <<<<"args">>, EmptyDict>>}
<1>1. \A l \in pairs : l = <<l[1], l[2]>> OBVIOUS
<1>2. \A p, v : <<p, v>> \in pairs <=>
        \/ p = <<"enabled">> /\ v = "True"
        \/ p = <<"args">> /\ v = EmptyDict
  OBVIOUS
<1>3. TEMPLATE_DEFAULTS = Leaves(pairs) BY DEF TEMPLATE_DEFAULTS
<1>4. /\ <<"enabled">> \in Paths /\ <<"args">> \in Paths
      /\ <<"enabled">> # <<"args">> /\ <<"enabled">> # <<>> /\ <<"args">> # <<>>
      /\ At(<<"enabled">>, 1) = "enabled" /\ At(<<"args">>, 1) = "args"
  BY KeysAssumption DEF NamedKeys, Paths, At
<1> HIDE DEF pairs
<1>5. \A r : r \in DOMAIN TEMPLATE_DEFAULTS <=> r = <<"enabled">> \/ r = <<"args">>
  BY <1>1, <1>2, <1>3, LeavesParts
<1>6. /\ TEMPLATE_DEFAULTS[<<"enabled">>] = "True"
      /\ TEMPLATE_DEFAULTS[<<"args">>] = EmptyDict
  BY <1>1, <1>2, <1>3, <1>4, <1>5, LeavesParts
<1>7. ~IsPrefix(<<"enabled">>, <<"args">>) /\ ~IsPrefix(<<"args">>, <<"enabled">>)
  BY <1>4, ApartAt
<1>8. IsFunction(TEMPLATE_DEFAULTS) BY <1>1, <1>3, LeavesParts
<1>9. IsDictionary(TEMPLATE_DEFAULTS) BY <1>4, <1>5, <1>7, <1>8 DEF IsDictionary
<1> QED BY <1>5, <1>6, <1>9

\* and those of UPSTREAM_DEFAULTS.
LEMMA UpstreamLeaves ==
  /\ IsDictionary(UPSTREAM_DEFAULTS)
  /\ \A r : r \in DOMAIN UPSTREAM_DEFAULTS <=>
              r = <<"mode">> \/ r = <<"ttl">> \/ r = <<"health", "timeout">>
  /\ \A r \in DOMAIN UPSTREAM_DEFAULTS : UPSTREAM_DEFAULTS[r] # EmptyDict
<1> DEFINE pairs == {<<<<"mode">>, "http">>, <<<<"health", "timeout">>, "5s">>,
                     <<<<"ttl">>, "1w">>}
<1>1. \A l \in pairs : l = <<l[1], l[2]>> OBVIOUS
<1>2. \A p, v : <<p, v>> \in pairs <=>
        \/ p = <<"mode">> /\ v = "http"
        \/ p = <<"ttl">> /\ v = "1w"
        \/ p = <<"health", "timeout">> /\ v = "5s"
  OBVIOUS
<1>3. UPSTREAM_DEFAULTS = Leaves(pairs) BY DEF UPSTREAM_DEFAULTS
<1>4. /\ <<"mode">> \in Paths /\ <<"ttl">> \in Paths
      /\ <<"mode">> # <<>> /\ <<"ttl">> # <<>>
      /\ At(<<"mode">>, 1) = "mode" /\ At(<<"ttl">>, 1) = "ttl"
  BY KeysAssumption DEF NamedKeys, Paths, At
<1>5. /\ <<"health", "timeout">> \in Paths /\ <<"health", "timeout">> # <<>>
      /\ At(<<"health", "timeout">>, 1) = "health"
  BY KeysAssumption DEF NamedKeys, Paths, At
<1> HIDE DEF pairs
<1>6. \A r : r \in DOMAIN UPSTREAM_DEFAULTS <=>
               r = <<"mode">> \/ r = <<"ttl">> \/ r = <<"health", "timeout">>
  BY <1>1, <1>2, <1>3, LeavesParts
<1>7. \A r \in DOMAIN UPSTREAM_DEFAULTS : UPSTREAM_DEFAULTS[r] # EmptyDict
  <2>1. \A r \in DOMAIN UPSTREAM_DEFAULTS : <<r, UPSTREAM_DEFAULTS[r]>> \in pairs
    BY <1>1, <1>3, LeavesParts
  <2> QED BY <1>2, <2>1, DefaultKeys
<1>8. /\ ~IsPrefix(<<"mode">>, <<"ttl">>) /\ ~IsPrefix(<<"ttl">>, <<"mode">>)
      /\ ~IsPrefix(<<"mode">>, <<"health", "timeout">>)
      /\ ~IsPrefix(<<"health", "timeout">>, <<"mode">>)
      /\ ~IsPrefix(<<"ttl">>, <<"health", "timeout">>)
      /\ ~IsPrefix(<<"health", "timeout">>, <<"ttl">>)
  BY <1>4, <1>5, ApartAt
<1>9. IsFunction(UPSTREAM_DEFAULTS) BY <1>1, <1>3, LeavesParts
<1>10. IsDictionary(UPSTREAM_DEFAULTS) BY <1>4, <1>5, <1>6, <1>8, <1>9 DEF IsDictionary
<1> QED BY <1>6, <1>7, <1>10

\* The keys of templates and of upstreams.
LEMMA TemplateKeys ==
  ASSUME NEW d, IsDictionary(d)
  PROVE  \A k : k \in KeysAt(d, TemplatesPath) <=>
           \E p \in DOMAIN d : Depth(p) >= 2 /\ At(p, 1) = "templates" /\ At(p, 2) = k
<1>1. \A p \in DOMAIN d : p \in Paths BY DEF IsDictionary
<1>2. \A p \in Paths :
        IsStrictPrefix(TemplatesPath, p) <=> Depth(p) >= 2 /\ At(p, 1) = "templates"
  <2> TAKE p \in Paths
  <2>1. /\ IsStrictPrefix(TemplatesPath, p) <=>
             IsPrefix(TemplatesPath, p) /\ TemplatesPath # p
        /\ IsPrefix(TemplatesPath, p) <=>
             Depth(p) >= 1 /\ At(p, 1) = "templates"
    BY ShortPaths, PrefixIs, PrefixAt, Depths
  <2>2. Depth(p) = 1 /\ At(p, 1) = "templates" => p = TemplatesPath
    BY ShortPaths, SamePath
  <2>3. TemplatesPath = p => Depth(p) = 1 BY ShortPaths
  <2> QED BY <2>1, <2>2, <2>3, Depths
<1>3. \A p : p[Len(TemplatesPath) + 1] = At(p, 2)
  <2>1. Len(TemplatesPath) = 1 BY ShortPaths DEF Depth
  <2> QED BY <2>1 DEF At
<1>4. \A k : k \in KeysAt(d, TemplatesPath) <=>
        \E p \in DOMAIN d : IsStrictPrefix(TemplatesPath, p) /\ k = p[Len(TemplatesPath) + 1]
  BY DEF KeysAt
<1> QED BY <1>1, <1>2, <1>3, <1>4

\* Likewise for upstreams.
LEMMA UpstreamKeys ==
  ASSUME NEW d, IsDictionary(d)
  PROVE  \A k : k \in KeysAt(d, UpstreamsPath) <=>
           \E p \in DOMAIN d : /\ Depth(p) >= 3 /\ At(p, 1) = "proxy"
                               /\ At(p, 2) = "upstreams" /\ At(p, 3) = k
<1>1. \A p \in DOMAIN d : p \in Paths BY DEF IsDictionary
<1>2. \A p \in Paths :
        IsStrictPrefix(UpstreamsPath, p) <=>
          Depth(p) >= 3 /\ At(p, 1) = "proxy" /\ At(p, 2) = "upstreams"
  <2> TAKE p \in Paths
  <2>1. /\ IsStrictPrefix(UpstreamsPath, p) <=>
             IsPrefix(UpstreamsPath, p) /\ UpstreamsPath # p
        /\ IsPrefix(UpstreamsPath, p) <=>
             Depth(p) >= 2 /\ At(p, 1) = "proxy" /\ At(p, 2) = "upstreams"
    <3>1. /\ UpstreamsPath \in Paths /\ Depth(UpstreamsPath) = 2
          /\ At(UpstreamsPath, 1) = "proxy" /\ At(UpstreamsPath, 2) = "upstreams"
      BY NamedPaths
    <3>2. \A i : i \in 1 .. 2 <=> i = 1 \/ i = 2 OBVIOUS
    <3> QED BY <3>1, <3>2, PrefixIs, PrefixAt, Depths
  <2>2. Depth(p) = 2 /\ At(p, 1) = "proxy" /\ At(p, 2) = "upstreams" => p = UpstreamsPath
    BY NamedPaths, SamePath
  <2>3. UpstreamsPath = p => Depth(p) = 2 BY NamedPaths
  <2> QED BY <2>1, <2>2, <2>3, Depths
<1>3. \A p : p[Len(UpstreamsPath) + 1] = At(p, 3)
  <2>1. Len(UpstreamsPath) = 2 BY NamedPaths DEF Depth
  <2> QED BY <2>1 DEF At
<1>4. \A k : k \in KeysAt(d, UpstreamsPath) <=>
        \E p \in DOMAIN d : IsStrictPrefix(UpstreamsPath, p) /\ k = p[Len(UpstreamsPath) + 1]
  BY DEF KeysAt
<1> QED BY <1>1, <1>2, <1>3, <1>4

\* They are keys.
LEMMA KeysInKeys ==
  ASSUME NEW d, IsDictionary(d)
  PROVE  KeysAt(d, TemplatesPath) \subseteq Keys /\ KeysAt(d, UpstreamsPath) \subseteq Keys
BY ShortPaths, NamedPaths, KeysHas

\* The defaults for a set of templates.
LEMMA EachTemplate ==
  ASSUME NEW keys \in SUBSET Keys,
         NEW f, f = ForEach(TemplatesPath, keys, TEMPLATE_DEFAULTS)
  PROVE  /\ Shaped(f)
         /\ \A q : q \in DOMAIN f <=>
              \E t \in keys : q \in {TemplatePath(t, "enabled"), TemplatePath(t, "args")}
         /\ \A t \in keys : f[TemplatePath(t, "enabled")] = "True"
         /\ \A t \in keys : f[TemplatePath(t, "args")] = EmptyDict
<1>1. IsDictionary(f) BY ShortPaths, TemplateLeaves, EachParts
<1>2. "enabled" \in Keys /\ "args" \in Keys BY DefaultKeys
<1>3. \A t \in keys :
        /\ Beneath(TemplatesPath, t, <<"enabled">>) = TemplatePath(t, "enabled")
        /\ Beneath(TemplatesPath, t, <<"args">>) = TemplatePath(t, "args")
  BY <1>2, BeneathPaths
<1>4. /\ \A q \in DOMAIN f : \E t \in keys, r \in DOMAIN TEMPLATE_DEFAULTS :
           q = Beneath(TemplatesPath, t, r)
      /\ \A t \in keys, r \in DOMAIN TEMPLATE_DEFAULTS :
           /\ Beneath(TemplatesPath, t, r) \in DOMAIN f
           /\ f[Beneath(TemplatesPath, t, r)] = TEMPLATE_DEFAULTS[r]
  <2>1. TemplatesPath \in Paths /\ IsDictionary(TEMPLATE_DEFAULTS)
    BY ShortPaths, TemplateLeaves
  <2>2. \A q \in DOMAIN f : \E t \in keys, r \in DOMAIN TEMPLATE_DEFAULTS :
           q = Beneath(TemplatesPath, t, r)
    BY <2>1, EachParts
  <2>3. ASSUME NEW t \in keys, NEW r \in DOMAIN TEMPLATE_DEFAULTS
        PROVE  /\ Beneath(TemplatesPath, t, r) \in DOMAIN f
               /\ f[Beneath(TemplatesPath, t, r)] = TEMPLATE_DEFAULTS[r]
    BY <2>1, EachParts
  <2> QED BY <2>2, <2>3
<1>5. \A q : q \in DOMAIN f <=>
        \E t \in keys : q \in {TemplatePath(t, "enabled"), TemplatePath(t, "args")}
  BY <1>3, <1>4, TemplateLeaves
<1>6. \A t \in keys : /\ f[TemplatePath(t, "enabled")] = "True"
                      /\ f[TemplatePath(t, "args")] = EmptyDict
  BY <1>3, <1>4, TemplateLeaves
<1>7. \A q \in DOMAIN f : q # <<>> /\ Fits(q, f[q])
  <2> SUFFICES ASSUME NEW t \in keys
               PROVE  /\ TemplatePath(t, "enabled") # <<>> /\ TemplatePath(t, "args") # <<>>
                      /\ Fits(TemplatePath(t, "enabled"), "True")
                      /\ Fits(TemplatePath(t, "args"), EmptyDict)
    BY <1>5, <1>6
  <2>1. Depth(TemplatePath(t, "enabled")) = 3 /\ Depth(TemplatePath(t, "args")) = 3
    BY <1>2, KeyPaths
  <2>2. TemplatePath(t, "enabled") # <<>> /\ TemplatePath(t, "args") # <<>>
    BY <1>2, <2>1, KeyPaths, Depths
  <2> QED BY <2>2, FitsNamed, FitsEmpty, DefaultKeys
<1> QED BY <1>1, <1>5, <1>6, <1>7 DEF Shaped

\* Afterwards each template is enabled or not, and has arguments.
LEMMA TemplateStage ==
  ASSUME NEW g, Shaped(g)
  PROVE  /\ Shaped(TemplateDefaults(g)) /\ Grows(TemplateDefaults(g), g)
         /\ \A q \in Paths :
              q # <<>> /\ (At(q, 1) # "templates" \/ Depth(q) >= 4) =>
                Agree(TemplateDefaults(g), g, q)
         /\ \A t \in Keys :
              TemplatePath(t, "enabled") \notin DOMAIN g
                /\ TemplatePath(t, "enabled") \in DOMAIN TemplateDefaults(g) =>
                TemplateDefaults(g)[TemplatePath(t, "enabled")] = "True"
         /\ \A t \in KeysAt(TemplateDefaults(g), TemplatesPath) :
              /\ TemplatePath(t, "enabled") \in DOMAIN TemplateDefaults(g)
              /\ Has(TemplateDefaults(g), TemplatePath(t, "args"))
              /\ t \in KeysAt(g, TemplatesPath)
<1> DEFINE w == TemplateDefaults(g)
           f == ForEach(TemplatesPath, KeysAt(g, TemplatesPath), TEMPLATE_DEFAULTS)
<1>1. w = Merge(g, f) BY DEF TemplateDefaults
<1>2. KeysAt(g, TemplatesPath) \subseteq Keys BY KeysInKeys DEF Shaped
<1>3. /\ Shaped(f)
      /\ \A q : q \in DOMAIN f <=> \E t \in KeysAt(g, TemplatesPath) :
           q \in {TemplatePath(t, "enabled"), TemplatePath(t, "args")}
      /\ \A t \in KeysAt(g, TemplatesPath) : f[TemplatePath(t, "enabled")] = "True"
  BY <1>2, EachTemplate
<1> HIDE DEF f, w
<1>4. "enabled" \in Keys /\ "args" \in Keys BY DefaultKeys
<1>5. \A q \in DOMAIN f : /\ q \in Paths /\ Depth(q) = 3
                          /\ At(q, 1) = "templates" /\ At(q, 2) \in KeysAt(g, TemplatesPath)
  BY <1>2, <1>3, <1>4, KeyPaths
<1>6. Shaped(w) /\ Grows(w, g) BY <1>1, <1>3, MergeShaped, MergeGrows DEF Shaped
<1>7. ASSUME NEW q \in Paths, q # <<>>, At(q, 1) # "templates" \/ Depth(q) >= 4
      PROVE  Agree(w, g, q)
  <2>1. ASSUME NEW r \in DOMAIN f, IsPrefix(q, r) PROVE FALSE
    BY <1>5, <1>7, <2>1, Elements
  <2> QED BY <1>1, <1>3, <2>1, MergeElsewhere DEF Shaped
<1>8. ASSUME NEW t \in Keys, TemplatePath(t, "enabled") \notin DOMAIN g,
             TemplatePath(t, "enabled") \in DOMAIN w
      PROVE  w[TemplatePath(t, "enabled")] = "True"
  <2>1. /\ TemplatePath(t, "enabled") \in DOMAIN f
        /\ w[TemplatePath(t, "enabled")] = f[TemplatePath(t, "enabled")]
    BY <1>1, <1>3, <1>8, MergeParts DEF Shaped
  <2>2. PICK m \in KeysAt(g, TemplatesPath) :
          TemplatePath(t, "enabled") \in {TemplatePath(m, "enabled"), TemplatePath(m, "args")}
    BY <1>3, <2>1
  <2>3. At(TemplatePath(t, "enabled"), 3) = "enabled" /\ At(TemplatePath(m, "args"), 3) = "args"
    BY <1>2, <1>4, KeyPaths
  <2>4. TemplatePath(t, "enabled") = TemplatePath(m, "enabled") BY <2>2, <2>3
  <2> QED BY <1>3, <2>1, <2>4
<1>9. ASSUME NEW t \in KeysAt(w, TemplatesPath) PROVE t \in KeysAt(g, TemplatesPath)
  <2>1. PICK p \in DOMAIN w : Depth(p) >= 2 /\ At(p, 1) = "templates" /\ At(p, 2) = t
    BY <1>6, TemplateKeys DEF Shaped
  <2>2. p \in DOMAIN g \/ p \in DOMAIN f BY <1>1, <1>3, MergeParts DEF Shaped
  <2> QED BY <1>5, <2>1, <2>2, TemplateKeys DEF Shaped
<1>10. ASSUME NEW t \in KeysAt(w, TemplatesPath)
       PROVE  /\ TemplatePath(t, "enabled") \in DOMAIN w
              /\ Has(w, TemplatePath(t, "args"))
  <2>1. t \in KeysAt(g, TemplatesPath) /\ t \in Keys BY <1>2, <1>9
  <2>2. \A k \in {"enabled", "args"} : Has(w, TemplatePath(t, k))
    <3> TAKE k \in {"enabled", "args"}
    <3>1. TemplatePath(t, k) \in DOMAIN f /\ TemplatePath(t, k) \in Paths /\ k \in Keys
      BY <1>3, <1>4, <2>1, KeyPaths
    <3>2. Has(w, TemplatePath(t, k)) \/ Above(w, TemplatePath(t, k))
      BY <1>1, <1>3, <3>1, MergeSat DEF Sat, Shaped
    <3> QED BY <1>6, <2>1, <3>1, <3>2, FirmPaths, FirmHas
  <2>3. Atomic(TemplatePath(t, "enabled")) /\ TemplatePath(t, "enabled") \in Paths
    BY <1>4, <2>1, AtomicPaths, KeyPaths
  <2> QED BY <1>6, <2>2, <2>3, AtomicLeaf
<1> QED BY <1>6, <1>7, <1>8, <1>9, <1>10 DEF w

-----------------------------------------------------------------------------
(* check_and_apply_schedule.                                               *)

\* Parts of the schema that are apart make one of the schema.
LEMMA JoinShaped ==
  ASSUME NEW d, NEW e, Shaped(d), Shaped(e),
         \A p \in DOMAIN d, q \in DOMAIN e : ~IsPrefix(p, q) /\ ~IsPrefix(q, p)
  PROVE  Shaped(d ++ e)
<1>1. /\ DOMAIN d \subseteq Paths /\ \A p, q \in DOMAIN d : IsPrefix(p, q) => p = q
      /\ DOMAIN e \subseteq Paths /\ \A p, q \in DOMAIN e : IsPrefix(p, q) => p = q
      /\ \A p \in DOMAIN d : p # <<>> /\ Fits(p, d[p])
      /\ \A p \in DOMAIN e : p # <<>> /\ Fits(p, e[p])
  BY DEF Shaped, IsDictionary
<1>2. /\ DOMAIN (d ++ e) \subseteq Paths /\ IsFunction(d ++ e)
      /\ \A p \in DOMAIN (d ++ e) : p # <<>> /\ Fits(p, (d ++ e)[p])
  BY <1>1, JoinParts
<1>3. \A p, q \in DOMAIN (d ++ e) : IsPrefix(p, q) => p = q
  BY <1>1, JoinParts
<1> QED BY <1>2, <1>3 DEF Shaped, IsDictionary

\* Schedule and state are values.
LEMMA TopAtomic ==
  Atomic(SchedulePath) /\ Atomic(StatePath)
<1>1. ASSUME NEW q \in {SchedulePath, StatePath}, NEW p \in Paths, NEW v,
             IsPrefix(q, p), Fits(p, v)
      PROVE  p = q /\ v # EmptyDict
  <2>1. q \in Paths /\ Depth(q) = 1 /\ At(q, 1) \in {"schedule", "state"}
    BY ShortPaths
  <2>2. q # <<>> BY <2>1, Depths
  <2>3. Depth(p) \in Nat /\ 1 <= Depth(p) /\ At(p, 1) = At(q, 1)
        /\ (Depth(p) = Depth(q) => p = q)
    BY <1>1, <2>1, <2>2, Depths, Elements
  <2>4. p # <<>> BY <2>3, Depths
  <2> QED BY <1>1, <2>1, <2>3, <2>4, FitsOther
<1> QED BY <1>1 DEF Atomic

\* The schedule that is looked at.
LEMMA ScheduleFound ==
  ASSUME NEW w, Shaped(w), NEW d, d = Merge(w, Leaf(SchedulePath, "None"))
  PROVE  /\ Shaped(d) /\ Grows(d, w)
         /\ SchedulePath \in DOMAIN d /\ d[SchedulePath] # EmptyDict
         /\ IsScheduled(d) <=> IsScheduled(w)
         /\ SchedulePath \in DOMAIN w => d[SchedulePath] = w[SchedulePath]
         /\ \A q \in Paths : q # <<>> /\ At(q, 1) # "schedule" => Agree(d, w, q)
<1> DEFINE l == Leaf(SchedulePath, "None")
<1>1. SchedulePath \in Paths /\ SchedulePath # <<>> /\ At(SchedulePath, 1) = "schedule"
  BY ShortPaths, Depths
<1>2. /\ \A q : q \in DOMAIN l <=> q = SchedulePath
      /\ \A q \in DOMAIN l : l[q] = "None"
  BY LeafParts
<1>3. Shaped(l) BY <1>1, LeafShaped, FitsNamed, DefaultKeys
<1> HIDE DEF l
<1>4. d = Merge(w, l) BY DEF l
<1>5. Shaped(d) /\ Grows(d, w) BY <1>3, <1>4, MergeShaped, MergeGrows DEF Shaped
<1>6. SchedulePath \in DOMAIN d /\ d[SchedulePath] # EmptyDict
  <2>1. Has(d, SchedulePath) \/ Above(d, SchedulePath)
    BY <1>2, <1>3, <1>4, MergeSat DEF Sat, Shaped
  <2>2. Has(d, SchedulePath) BY <1>1, <1>5, <2>1, FirmHas, FirmPaths
  <2> QED BY <1>1, <1>5, <2>2, AtomicLeaf, TopAtomic
<1>7. SchedulePath \in DOMAIN w => d[SchedulePath] = w[SchedulePath]
  <2>1. SchedulePath \in DOMAIN w => Has(w, SchedulePath)
    BY <1>1, PrefixOrder DEF Has
  <2>2. SchedulePath \in DOMAIN w => w[SchedulePath] # EmptyDict
    BY <1>1, <2>1, AtomicLeaf, TopAtomic
  <2> QED BY <1>5, <2>2 DEF Grows
<1>8. SchedulePath \notin DOMAIN w => d[SchedulePath] = "None"
  BY <1>2, <1>3, <1>4, <1>6, MergeParts DEF Shaped
<1>9. IsScheduled(d) <=> IsScheduled(w)
  BY <1>6, <1>7, <1>8 DEF IsScheduled, Truthy
<1>10. ASSUME NEW q \in Paths, q # <<>>, At(q, 1) # "schedule"
       PROVE  Agree(d, w, q)
  <2>1. ~IsPrefix(q, SchedulePath) BY <1>1, <1>10, ApartAt
  <2> QED BY <1>2, <1>3, <1>4, <2>1, MergeElsewhere DEF Shaped
<1> QED BY <1>5, <1>6, <1>7, <1>9, <1>10

\* What is put is there.
LEMMA PutStage ==
  ASSUME NEW d, NEW p \in Paths, NEW v, Shaped(d), p # <<>>, Fits(p, v),
         NEW e, e = Put(d, p, v)
  PROVE  Shaped(e) /\ p \in DOMAIN e /\ e[p] = v
BY PutShaped, PutParts DEF Shaped

\* Neither proxy nor check.
Untouched(q) ==
  /\ q \in Paths /\ q # <<>>
  /\ At(q, 1) # "proxy"
  /\ At(q, 1) = "deployment" =>
       /\ Depth(q) >= 2
       /\ At(q, 2) = "check" => Depth(q) >= 3 /\ At(q, 3) \notin {"port", "path"}

\* What a schedule makes of proxy and check.
LEMMA UnwiredStage ==
  ASSUME NEW d, Shaped(d), NEW b, b = Unchecked(Unwired(d))
  PROVE  /\ Shaped(b)
         /\ \A q : Untouched(q) => Agree(b, d, q)
         /\ \A q \in {HostsPath, ListenersPath, UpstreamsPath} :
              q \in DOMAIN b /\ b[q] = EmptyDict
         /\ CheckPath("port") \in DOMAIN b /\ b[CheckPath("port")] = "None"
         /\ CheckPath("path") \in DOMAIN b /\ b[CheckPath("path")] = ""
<1>1. "port" \in Keys /\ "path" \in Keys BY DefaultKeys
<1>2. /\ \A q \in {HostsPath, ListenersPath, UpstreamsPath} :
           q \in Paths /\ q # <<>> /\ Depth(q) = 2 /\ At(q, 1) = "proxy"
      /\ At(HostsPath, 2) = "hosts" /\ At(ListenersPath, 2) = "listeners"
      /\ At(UpstreamsPath, 2) = "upstreams"
  BY NamedPaths, Depths
<1>3. \A k \in {"port", "path"} :
        /\ CheckPath(k) \in Paths /\ CheckPath(k) # <<>> /\ Depth(CheckPath(k)) = 3
        /\ At(CheckPath(k), 1) = "deployment" /\ At(CheckPath(k), 2) = "check"
        /\ At(CheckPath(k), 3) = k
  BY <1>1, KeyPaths, Depths
<1>4. \A q \in {HostsPath, ListenersPath, UpstreamsPath} : Fits(q, EmptyDict)
  BY FitsEmpty
<1>5. Fits(CheckPath("port"), "None") /\ Fits(CheckPath("path"), "")
  BY FitsNamed, DefaultKeys
<1> DEFINE a1 == Put(d, HostsPath, EmptyDict)
           a2 == Put(a1, ListenersPath, EmptyDict)
           a3 == Put(a2, UpstreamsPath, EmptyDict)
           a4 == Put(a3, CheckPath("port"), "None")
           a5 == Put(a4, CheckPath("path"), "")
<1>6. b = a5 BY DEF Unchecked, Unwired
<1>7. Shaped(a1) /\ HostsPath \in DOMAIN a1 /\ a1[HostsPath] = EmptyDict
  BY <1>2, <1>4, PutStage
<1> HIDE DEF a1
<1>8. Shaped(a2) /\ ListenersPath \in DOMAIN a2 /\ a2[ListenersPath] = EmptyDict
  BY <1>2, <1>4, <1>7, PutStage
<1> HIDE DEF a2
<1>9. Shaped(a3) /\ UpstreamsPath \in DOMAIN a3 /\ a3[UpstreamsPath] = EmptyDict
  BY <1>2, <1>4, <1>8, PutStage
<1> HIDE DEF a3
<1>10. Shaped(a4) /\ CheckPath("port") \in DOMAIN a4 /\ a4[CheckPath("port")] = "None"
  <2>1. CheckPath("port") \in Paths /\ CheckPath("port") # <<>> BY <1>3
  <2>2. \A p \in Paths : \A v :
          p # <<>> /\ Fits(p, v) =>
            Shaped(Put(a3, p, v)) /\ p \in DOMAIN Put(a3, p, v) /\ Put(a3, p, v)[p] = v
    BY <1>9, PutStage
  <2> QED BY <1>5, <2>1, <2>2
<1> HIDE DEF a4
<1>11. Shaped(a5) /\ CheckPath("path") \in DOMAIN a5 /\ a5[CheckPath("path")] = ""
  <2>1. CheckPath("path") \in Paths /\ CheckPath("path") # <<>> BY <1>3
  <2>2. \A p \in Paths : \A v :
          p # <<>> /\ Fits(p, v) =>
            Shaped(Put(a4, p, v)) /\ p \in DOMAIN Put(a4, p, v) /\ Put(a4, p, v)[p] = v
    BY <1>10, PutStage
  <2> QED BY <1>5, <2>1, <2>2
<1> HIDE DEF a5
<1>12. \A q \in Paths :
         /\ ~IsPrefix(HostsPath, q) /\ ~IsPrefix(q, HostsPath) => Agree(a1, d, q)
         /\ ~IsPrefix(ListenersPath, q) /\ ~IsPrefix(q, ListenersPath) => Agree(a2, a1, q)
         /\ ~IsPrefix(UpstreamsPath, q) /\ ~IsPrefix(q, UpstreamsPath) => Agree(a3, a2, q)
  BY <1>2, <1>7, <1>8, PutElsewhere DEF Shaped, a1, a2, a3
<1>13. \A q \in Paths :
         /\ ~IsPrefix(CheckPath("port"), q) /\ ~IsPrefix(q, CheckPath("port")) =>
              Agree(a4, a3, q)
         /\ ~IsPrefix(CheckPath("path"), q) /\ ~IsPrefix(q, CheckPath("path")) =>
              Agree(a5, a4, q)
  BY <1>3, <1>9, <1>10, PutElsewhere DEF Shaped, a4, a5
<1>14. ASSUME NEW q, Untouched(q) PROVE Agree(a5, d, q)
  <2>1. \A p \in {HostsPath, ListenersPath, UpstreamsPath} :
          ~IsPrefix(p, q) /\ ~IsPrefix(q, p)
    BY <1>2, <1>14, ApartAt DEF Untouched
  <2>2. \A k \in {"port", "path"} :
          ~IsPrefix(CheckPath(k), q) /\ ~IsPrefix(q, CheckPath(k))
    BY <1>3, <1>14, ApartAt DEF Untouched
  <2>3. Agree(a1, d, q) /\ Agree(a2, a1, q) /\ Agree(a3, a2, q)
    BY <1>12, <1>14, <2>1 DEF Untouched
  <2>4. Agree(a4, a3, q) /\ Agree(a5, a4, q) BY <1>13, <1>14, <2>2 DEF Untouched
  <2> QED BY <2>3, <2>4, AgreeTrans
<1>15. \A p \in {HostsPath, ListenersPath, UpstreamsPath} :
         /\ \A k \in {"port", "path"} :
              ~IsPrefix(CheckPath(k), p) /\ ~IsPrefix(p, CheckPath(k))
         /\ \A q \in {HostsPath, ListenersPath, UpstreamsPath} :
              p # q => ~IsPrefix(p, q) /\ ~IsPrefix(q, p)
  BY <1>2, <1>3, ApartAt
<1>16. \A q \in {HostsPath, ListenersPath, UpstreamsPath} :
         q \in DOMAIN a3 /\ a3[q] = EmptyDict
  <2>1. HostsPath # ListenersPath /\ HostsPath # UpstreamsPath /\ ListenersPath # UpstreamsPath
    BY <1>2
  <2>2. Agree(a2, a1, HostsPath) /\ Agree(a3, a2, HostsPath) /\ Agree(a3, a2, ListenersPath)
    BY <1>2, <1>12, <1>15, <2>1
  <2> QED BY <1>2, <1>7, <1>8, <1>9, <2>2, PrefixOrder DEF Agree
<1>17. \A q \in {HostsPath, ListenersPath, UpstreamsPath} :
         q \in DOMAIN a5 /\ a5[q] = EmptyDict
  <2>1. \A q \in {HostsPath, ListenersPath, UpstreamsPath} :
          Agree(a4, a3, q) /\ Agree(a5, a4, q)
    BY <1>2, <1>13, <1>15
  <2> QED BY <1>2, <1>16, <2>1, PrefixOrder DEF Agree
<1>18. CheckPath("port") \in DOMAIN a5 /\ a5[CheckPath("port")] = "None"
  <2>1. /\ ~IsPrefix(CheckPath("path"), CheckPath("port"))
        /\ ~IsPrefix(CheckPath("port"), CheckPath("path"))
    BY <1>3, ApartAt
  <2>2. Agree(a5, a4, CheckPath("port")) BY <1>3, <1>13, <2>1
  <2> QED BY <1>3, <1>10, <2>2, PrefixOrder DEF Agree
<1> QED BY <1>6, <1>11, <1>14, <1>17, <1>18

\* A join agrees with either part where the other has nothing.
LEMMA JoinElsewhere ==
  ASSUME NEW d, NEW e, NEW q
  PROVE  /\ (\A r \in DOMAIN e : ~IsPrefix(q, r)) => Agree(d ++ e, d, q)
         /\ (\A r \in DOMAIN d : ~IsPrefix(q, r)) => Agree(d ++ e, e, q)
BY JoinParts DEF Agree

\* A template.
LEMMA TemplateParts ==
  ASSUME NEW d, Shaped(d), NEW t \in Keys, NEW e, e = Template(d, t)
  PROVE  /\ Shaped(e)
         /\ \A p : p \in DOMAIN e <=>
              p \in DOMAIN d /\ Depth(p) >= 2 /\ At(p, 1) = "templates" /\ At(p, 2) = t
         /\ \A q \in Paths : Depth(q) >= 2 /\ At(q, 1) = "templates" /\ At(q, 2) = t =>
              Agree(e, d, q)
<1> DEFINE tp == <<"templates", t>>
           S == {p \in DOMAIN d : IsPrefix(tp, p)}
<1>1. tp \in Paths /\ Depth(tp) = 2 /\ At(tp, 1) = "templates" /\ At(tp, 2) = t
  BY KeysAssumption DEF NamedKeys, Paths, Depth, At
<1>2. e = Only(d, S) BY DEF Template
<1>3. \A p : p \in S <=> p \in DOMAIN d /\ IsPrefix(tp, p) OBVIOUS
<1> HIDE DEF tp, S
<1>4. \A p \in Paths :
        IsPrefix(tp, p) <=> Depth(p) >= 2 /\ At(p, 1) = "templates" /\ At(p, 2) = t
  <2>1. \A i : i \in 1 .. 2 <=> i = 1 \/ i = 2 OBVIOUS
  <2> QED BY <1>1, <2>1, PrefixAt, Depths
<1>5. DOMAIN d \subseteq Paths BY DEF Shaped, IsDictionary
<1>6. \A p : p \in DOMAIN e <=>
              p \in DOMAIN d /\ Depth(p) >= 2 /\ At(p, 1) = "templates" /\ At(p, 2) = t
  BY <1>2, <1>3, <1>4, <1>5, OnlyParts
<1>7. ASSUME NEW q \in Paths, Depth(q) >= 2, At(q, 1) = "templates", At(q, 2) = t
      PROVE  Agree(e, d, q)
  <2>1. IsPrefix(tp, q) BY <1>4, <1>7
  <2>2. \A p \in DOMAIN d : IsPrefix(q, p) => p \in S
    BY <1>1, <1>3, <1>5, <2>1, PrefixOrder
  <2> QED BY <1>2, <2>2, OnlyElsewhere
<1>8. Shaped(e) BY <1>2, OnlyShaped
<1> QED BY <1>6, <1>7, <1>8

\* A template with the schedule.
LEMMA ScheduledParts ==
  ASSUME NEW tm, Shaped(tm), NEW t \in Keys, NEW v, v # EmptyDict,
         NEW e, e = Merge(Leaf(ServicePath(t, "schedule"), v), tm)
  PROVE  /\ Shaped(e)
         /\ ServicePath(t, "schedule") \in DOMAIN e /\ e[ServicePath(t, "schedule")] = v
         /\ \A p \in DOMAIN e : p = ServicePath(t, "schedule") \/ p \in DOMAIN tm
         /\ \A q \in Paths :
              ~IsPrefix(q, ServicePath(t, "schedule"))
                /\ ~IsPrefix(ServicePath(t, "schedule"), q) =>
                Agree(e, tm, q)
<1> DEFINE sp == ServicePath(t, "schedule")
           l == Leaf(sp, v)
<1>1. sp \in Paths /\ sp # <<>>
  <2>1. "schedule" \in Keys BY DefaultKeys
  <2> QED BY <2>1, KeyPaths, Depths
<1>2. Shaped(l) BY <1>1, LeafShaped, FitsAny
<1>3. (\A q : q \in DOMAIN l <=> q = sp) /\ (\A q \in DOMAIN l : l[q] = v)
  BY LeafParts
<1> HIDE DEF sp, l
<1>4. e = Merge(l, tm) BY DEF l, sp
<1>5. Shaped(e) BY <1>2, <1>4, MergeShaped
<1>6. sp \in DOMAIN e /\ e[sp] = v BY <1>2, <1>3, <1>4, MergeKeeps DEF Shaped
<1>7. \A p \in DOMAIN e : p = sp \/ p \in DOMAIN tm
  BY <1>2, <1>3, <1>4, MergeParts DEF Shaped
<1>8. ASSUME NEW q \in Paths, ~IsPrefix(q, sp), ~IsPrefix(sp, q)
      PROVE  Agree(e, tm, q)
  <2>1. DOMAIN tm \subseteq Paths BY DEF Shaped, IsDictionary
  <2>2. \A p \in Paths : IsPrefix(q, p) => ~IsPrefix(p, sp) /\ ~IsPrefix(sp, p) /\ p # sp
    BY <1>1, <1>8, PrefixOrder
  <2>3. \A p \in DOMAIN tm : IsPrefix(q, p) => p \in Added(l, tm)
    BY <1>3, <2>1, <2>2 DEF Added
  <2>4. \A p \in Paths : IsPrefix(q, p) =>
          /\ p \in DOMAIN e <=> p \in DOMAIN tm
          /\ p \in DOMAIN e /\ p \in DOMAIN tm => e[p] = tm[p]
    BY <1>2, <1>3, <1>4, <1>7, <2>2, <2>3, MergeParts DEF Shaped
  <2> QED BY <2>4 DEF Agree
<1> QED BY <1>5, <1>6, <1>7, <1>8 DEF sp

\* The paths that the schedule step mentions.
LEMMA TimerPaths ==
  /\ "app" \in Keys /\ "timer" \in Keys
  /\ \A k \in {"name", "args", "enabled"} :
       /\ k \in Keys
       /\ TemplatePath("timer", k) \in Paths /\ TemplatePath("timer", k) # <<>>
       /\ Depth(TemplatePath("timer", k)) = 3
       /\ At(TemplatePath("timer", k), 1) = "templates"
       /\ At(TemplatePath("timer", k), 2) = "timer" /\ At(TemplatePath("timer", k), 3) = k
       /\ TemplatePath("app", k) \in Paths /\ TemplatePath("app", k) # <<>>
       /\ Depth(TemplatePath("app", k)) = 3
       /\ At(TemplatePath("app", k), 1) = "templates"
       /\ At(TemplatePath("app", k), 2) = "app" /\ At(TemplatePath("app", k), 3) = k
  /\ \A t \in {"app", "timer"} :
       /\ ServicePath(t, "schedule") \in Paths /\ ServicePath(t, "schedule") # <<>>
       /\ Depth(ServicePath(t, "schedule")) = 5
       /\ At(ServicePath(t, "schedule"), 1) = "templates"
       /\ At(ServicePath(t, "schedule"), 2) = t
       /\ At(ServicePath(t, "schedule"), 3) = "args"
       /\ At(ServicePath(t, "schedule"), 4) = "service"
       /\ At(ServicePath(t, "schedule"), 5) = "schedule"
<1>1. /\ "app" \in Keys /\ "timer" \in Keys /\ "schedule" \in Keys
      /\ "name" \in Keys /\ "args" \in Keys /\ "enabled" \in Keys
  BY DefaultKeys
<1>2. \A t, k \in Keys : TemplatePath(t, k) # <<>> /\ ServicePath(t, k) # <<>>
  BY KeyPaths, Depths
<1> QED BY <1>1, <1>2, KeyPaths

\* The timer takes its name from the app template.
LEMMA TimerStage ==
  ASSUME NEW d, Shaped(d), d[SchedulePath] # EmptyDict,
         TemplatePath("app", "name") \in DOMAIN d,
         NEW e, e = Put(Timer(d), TemplatePath("timer", "enabled"), "True")
  PROVE  /\ Shaped(e)
         /\ \A p \in DOMAIN e :
              Depth(p) >= 2 /\ At(p, 1) = "templates" /\ At(p, 2) = "timer"
         /\ TemplatePath("timer", "enabled") \in DOMAIN e
         /\ e[TemplatePath("timer", "enabled")] = "True"
         /\ ServicePath("timer", "schedule") \in DOMAIN e
         /\ e[ServicePath("timer", "schedule")] = d[SchedulePath]
         /\ TemplatePath("timer", "name") \in DOMAIN e
<1> DEFINE v == d[TemplatePath("app", "name")]
           n == Leaf(TemplatePath("timer", "name"), v)
                ++ Leaf(TemplatePath("timer", "args"), EmptyDict)
           T == Template(d, "timer")
           tm == Merge(T, n)
           ti == Merge(Leaf(ServicePath("timer", "schedule"), d[SchedulePath]), tm)
           np == TemplatePath("timer", "name")
           ep == TemplatePath("timer", "enabled")
           sp == ServicePath("timer", "schedule")
<1>1. v # EmptyDict
  <2>1. /\ TemplatePath("app", "name") \in Paths /\ Atomic(TemplatePath("app", "name"))
    BY TimerPaths, AtomicPaths
  <2>2. Has(d, TemplatePath("app", "name")) BY <2>1, PrefixOrder DEF Has
  <2> QED BY <2>1, <2>2, AtomicLeaf
<1>2. /\ Shaped(n) /\ np \in DOMAIN n
      /\ \A p \in DOMAIN n : p \in {np, TemplatePath("timer", "args")}
  <2>1. /\ Shaped(Leaf(np, v)) /\ Shaped(Leaf(TemplatePath("timer", "args"), EmptyDict))
    BY <1>1, TimerPaths, LeafShaped, FitsNamed, FitsEmpty
  <2>2. ~IsPrefix(np, TemplatePath("timer", "args")) /\ ~IsPrefix(TemplatePath("timer", "args"), np)
    BY TimerPaths, ApartAt
  <2>3. (\A p : p \in DOMAIN Leaf(np, v) <=> p = np)
        /\ (\A p : p \in DOMAIN Leaf(TemplatePath("timer", "args"), EmptyDict) <=>
                     p = TemplatePath("timer", "args"))
    BY LeafParts
  <2>4. Shaped(n) BY <2>1, <2>2, <2>3, JoinShaped
  <2>5. \A p : p \in DOMAIN n <=> p = np \/ p = TemplatePath("timer", "args")
    BY <2>3, JoinParts
  <2> QED BY <2>4, <2>5
<1>3. /\ Shaped(T)
      /\ \A p \in DOMAIN T : Depth(p) >= 2 /\ At(p, 1) = "templates" /\ At(p, 2) = "timer"
  BY TimerPaths, TemplateParts
<1> HIDE DEF n, T, v
<1>4. Shaped(tm) /\ (\A p \in DOMAIN tm : p \in DOMAIN T \/ p \in DOMAIN n)
  BY <1>2, <1>3, MergeShaped, MergeParts DEF Shaped
<1>5. np \in DOMAIN tm
  <2>1. Has(tm, np) \/ Above(tm, np) BY <1>2, <1>3, MergeSat DEF Sat, Shaped
  <2>2. Firm(np) /\ Atomic(np) /\ np \in Paths BY TimerPaths, FirmPaths, AtomicPaths
  <2> QED BY <1>4, <2>1, <2>2, FirmHas, AtomicLeaf
<1> HIDE DEF tm
<1>6. /\ Shaped(ti) /\ sp \in DOMAIN ti /\ ti[sp] = d[SchedulePath]
      /\ \A p \in DOMAIN ti : p = sp \/ p \in DOMAIN tm
      /\ \A q \in Paths : ~IsPrefix(q, sp) /\ ~IsPrefix(sp, q) => Agree(ti, tm, q)
  BY <1>4, TimerPaths, ScheduledParts
<1>7. /\ np \in Paths /\ ep \in Paths /\ sp \in Paths /\ ep # <<>>
      /\ ~IsPrefix(np, sp) /\ ~IsPrefix(sp, np)
      /\ ~IsPrefix(np, ep) /\ ~IsPrefix(ep, np)
      /\ ~IsPrefix(sp, ep) /\ ~IsPrefix(ep, sp)
  BY TimerPaths, ApartAt
<1>8. /\ Depth(ep) >= 2 /\ At(ep, 1) = "templates" /\ At(ep, 2) = "timer"
      /\ Depth(sp) >= 2 /\ At(sp, 1) = "templates" /\ At(sp, 2) = "timer"
      /\ \A p \in {np, TemplatePath("timer", "args")} :
           Depth(p) >= 2 /\ At(p, 1) = "templates" /\ At(p, 2) = "timer"
  BY TimerPaths
<1>9. Fits(ep, "True") BY FitsNamed, DefaultKeys
<1>10. e = Put(ti, ep, "True") BY DEF Timer, Scheduled, tm, T, n, v
<1> HIDE DEF np, ep, sp
<1>11. np \in DOMAIN ti BY <1>5, <1>6, <1>7, PrefixOrder DEF Agree
<1> HIDE DEF ti
<1>12. /\ \A q : q \in DOMAIN e <=>
            q = ep \/ (q \in DOMAIN ti /\ ~IsPrefix(ep, q) /\ ~IsPrefix(q, ep))
       /\ \A q \in DOMAIN e :
            (q = ep /\ e[q] = "True") \/ (q \in DOMAIN ti /\ q # ep /\ e[q] = ti[q])
  <2>1. IsDictionary(ti) BY <1>6 DEF Shaped
  <2>2. ep \in Paths BY <1>7
  <2> QED BY <1>10, <2>1, <2>2, PutTo
<1>13. Shaped(e)
  <2>1. \A p \in Paths : \A w : p # <<>> /\ Fits(p, w) => Shaped(Put(ti, p, w))
    BY <1>6, PutShaped
  <2> QED BY <1>7, <1>9, <1>10, <2>1
<1>14. np \in DOMAIN e /\ sp \in DOMAIN e /\ e[sp] = d[SchedulePath]
  BY <1>6, <1>7, <1>11, <1>12, PrefixOrder
<1>15. ep \in DOMAIN e /\ e[ep] = "True" BY <1>12
<1>16. \A p \in DOMAIN e : Depth(p) >= 2 /\ At(p, 1) = "templates" /\ At(p, 2) = "timer"
  BY <1>2, <1>3, <1>4, <1>6, <1>8, <1>12
<1> QED BY <1>13, <1>14, <1>15, <1>16 DEF np, ep, sp

\* Both templates of a scheduled deployment.
LEMMA BothStage ==
  ASSUME NEW d, Shaped(d), d[SchedulePath] # EmptyDict,
         TemplatePath("app", "name") \in DOMAIN d,
         Truthy(d[TemplatePath("app", "enabled")]),
         NEW s, s = ScheduledTemplates(d)
  PROVE  /\ Shaped(s)
         /\ \A p \in DOMAIN s :
              Depth(p) >= 2 /\ At(p, 1) = "templates" /\ At(p, 2) \in {"app", "timer"}
         /\ \A t \in {"app", "timer"} :
              /\ ServicePath(t, "schedule") \in DOMAIN s
              /\ s[ServicePath(t, "schedule")] = d[SchedulePath]
         /\ \A q \in Paths :
              Depth(q) >= 2 /\ At(q, 1) = "templates" /\ At(q, 2) = "app"
              /\ ~IsPrefix(q, ServicePath("app", "schedule"))
              /\ ~IsPrefix(ServicePath("app", "schedule"), q) => Agree(s, d, q)
         /\ TemplatePath("timer", "enabled") \in DOMAIN s
         /\ s[TemplatePath("timer", "enabled")] = "True"
         /\ TemplatePath("timer", "name") \in DOMAIN s
<1> DEFINE T == Template(d, "app")
           sp == ServicePath("app", "schedule")
           a == Merge(Leaf(sp, d[SchedulePath]), T)
           e == Put(Timer(d), TemplatePath("timer", "enabled"), "True")
<1>1. s = a ++ e BY DEF ScheduledTemplates, Scheduled
<1>2. /\ Shaped(T)
      /\ \A p \in DOMAIN T : Depth(p) >= 2 /\ At(p, 1) = "templates" /\ At(p, 2) = "app"
      /\ \A q \in Paths : Depth(q) >= 2 /\ At(q, 1) = "templates" /\ At(q, 2) = "app" =>
           Agree(T, d, q)
  <2>1. "app" \in Keys BY DefaultKeys
  <2>2. ASSUME NEW t, t = "app"
        PROVE  LET e1 == Template(d, t)
               IN /\ Shaped(e1)
                  /\ \A p : p \in DOMAIN e1 <=>
                       p \in DOMAIN d /\ Depth(p) >= 2 /\ At(p, 1) = "templates" /\ At(p, 2) = t
                  /\ \A q \in Paths : Depth(q) >= 2 /\ At(q, 1) = "templates" /\ At(q, 2) = t =>
                       Agree(e1, d, q)
    BY <2>1, <2>2, TemplateParts
  <2> QED BY <2>2
<1> HIDE DEF T
<1>3. /\ Shaped(a)
      /\ sp \in DOMAIN a /\ a[sp] = d[SchedulePath]
      /\ \A p \in DOMAIN a : p = sp \/ p \in DOMAIN T
      /\ \A q \in Paths : ~IsPrefix(q, sp) /\ ~IsPrefix(sp, q) => Agree(a, T, q)
  BY <1>2, TimerPaths, ScheduledParts
<1>4. /\ Shaped(e)
      /\ \A p \in DOMAIN e : Depth(p) >= 2 /\ At(p, 1) = "templates" /\ At(p, 2) = "timer"
      /\ TemplatePath("timer", "enabled") \in DOMAIN e
      /\ e[TemplatePath("timer", "enabled")] = "True"
      /\ ServicePath("timer", "schedule") \in DOMAIN e
      /\ e[ServicePath("timer", "schedule")] = d[SchedulePath]
      /\ TemplatePath("timer", "name") \in DOMAIN e
  BY TimerStage
<1>5. /\ sp \in Paths /\ Depth(sp) >= 2 /\ At(sp, 1) = "templates" /\ At(sp, 2) = "app"
      /\ ServicePath("timer", "schedule") \in Paths
  <2>1. "app" \in Keys /\ "timer" \in Keys /\ "schedule" \in Keys BY DefaultKeys
  <2> QED BY <2>1, KeyPaths
<1> HIDE DEF a, e, sp
<1>6. \A p \in DOMAIN a : /\ p \in Paths /\ p # <<>> /\ Depth(p) >= 2
                          /\ At(p, 1) = "templates" /\ At(p, 2) = "app"
  BY <1>2, <1>3, <1>5 DEF Shaped, IsDictionary
<1>7. \A p \in DOMAIN e : p \in Paths /\ p # <<>> BY <1>4 DEF Shaped, IsDictionary
<1>8. \A p \in DOMAIN a, q \in DOMAIN e : ~IsPrefix(p, q) /\ ~IsPrefix(q, p)
  BY <1>4, <1>6, <1>7, ApartAt
<1>9. Shaped(s) BY <1>1, <1>3, <1>4, <1>8, JoinShaped
<1>10. /\ \A p : p \in DOMAIN s <=> p \in DOMAIN a \/ p \in DOMAIN e
       /\ \A p \in DOMAIN s :
            \/ p \in DOMAIN a /\ s[p] = a[p]
            \/ p \in DOMAIN e /\ p \notin DOMAIN a /\ s[p] = e[p]
  BY <1>1, JoinParts
<1>11. \A p \in DOMAIN e : p \in DOMAIN s /\ s[p] = e[p] BY <1>4, <1>6, <1>10
<1>12. ASSUME NEW q \in Paths, Depth(q) >= 2, At(q, 1) = "templates", At(q, 2) = "app",
              ~IsPrefix(q, sp), ~IsPrefix(sp, q)
       PROVE  Agree(s, d, q)
  <2>1. q # <<>> BY <1>12, Depths
  <2>2. \A r \in DOMAIN e : ~IsPrefix(q, r) BY <1>4, <1>7, <1>12, <2>1, ApartAt
  <2>3. Agree(s, a, q) BY <1>1, <2>2, JoinElsewhere
  <2> QED BY <1>2, <1>3, <1>12, <2>3, AgreeTrans
<1>13. sp \in DOMAIN s /\ s[sp] = d[SchedulePath] BY <1>3, <1>10
<1>14. \A p \in DOMAIN s :
         Depth(p) >= 2 /\ At(p, 1) = "templates" /\ At(p, 2) \in {"app", "timer"}
  BY <1>4, <1>6, <1>10
<1> QED BY <1>4, <1>9, <1>11, <1>12, <1>13, <1>14 DEF sp

\* Every template has what the tasks index.
Tasks(d) ==
  \A t \in KeysAt(d, TemplatesPath) :
    /\ TemplatePath(t, "enabled") \in DOMAIN d
    /\ Has(d, TemplatePath(t, "args"))

\* The rest of a scheduled deployment.
OtherParts(d) ==
  Only(Unchecked(Unwired(d)), {p \in Paths : ~IsPrefix(TemplatesPath, p)})

\* check_and_apply_schedule with its result named.
LEMMA ScheduleSteps ==
  ASSUME NEW w, NEW d, d = Merge(w, Leaf(SchedulePath, "None"))
  PROVE  CheckAndApplySchedule(w) =
           IF IsScheduled(d) THEN OtherParts(d) ++ ScheduledTemplates(d) ELSE d
BY DEF CheckAndApplySchedule, OtherParts

\* With a schedule: no proxy, no check, and the two templates, if any.
LEMMA ScheduledStage ==
  ASSUME NEW d, Shaped(d), SchedulePath \in DOMAIN d, d[SchedulePath] # EmptyDict,
         TemplatePath("app", "name") \in DOMAIN d, Tasks(d),
         NEW c, c = OtherParts(d) ++ ScheduledTemplates(d)
  PROVE  /\ Shaped(c) /\ Tasks(c)
         /\ \A q : Untouched(q) /\ At(q, 1) # "templates" => Agree(c, d, q)
         /\ \A q \in {HostsPath, ListenersPath, UpstreamsPath} :
              q \in DOMAIN c /\ c[q] = EmptyDict
         /\ CheckPath("port") \in DOMAIN c /\ c[CheckPath("port")] = "None"
         /\ CheckPath("path") \in DOMAIN c /\ c[CheckPath("path")] = ""
         /\ \A q \in Paths : q # <<>> /\ At(q, 1) = "templates" =>
              Agree(c, ScheduledTemplates(d), q)
         /\ ~Truthy(d[TemplatePath("app", "enabled")]) => KeysAt(c, TemplatesPath) = {}
         /\ Truthy(d[TemplatePath("app", "enabled")]) =>
              /\ TemplatePath("app", "enabled") \in DOMAIN c
              /\ c[TemplatePath("app", "enabled")] = d[TemplatePath("app", "enabled")]
<1>0. PICK b, s : b = OtherParts(d) /\ s = ScheduledTemplates(d) OBVIOUS
<1> DEFINE u == Unchecked(Unwired(d))
           S == {p \in Paths : ~IsPrefix(TemplatesPath, p)}
<1>1. /\ Shaped(u)
      /\ \A q : Untouched(q) => Agree(u, d, q)
      /\ \A q \in {HostsPath, ListenersPath, UpstreamsPath} :
           q \in DOMAIN u /\ u[q] = EmptyDict
      /\ CheckPath("port") \in DOMAIN u /\ u[CheckPath("port")] = "None"
      /\ CheckPath("path") \in DOMAIN u /\ u[CheckPath("path")] = ""
  BY UnwiredStage
<1>2. \A p \in Paths : p # <<>> =>
        (IsPrefix(TemplatesPath, p) <=> At(p, 1) = "templates")
  BY ShortPaths, PrefixAt, Depths
<1>3. \A p : p \in S <=> p \in Paths /\ ~IsPrefix(TemplatesPath, p) OBVIOUS
<1>4. b = Only(u, S) BY <1>0 DEF OtherParts
<1> HIDE DEF u, S
<1>5. /\ Shaped(b)
      /\ \A p : p \in DOMAIN b <=> p \in DOMAIN u /\ p \in S
      /\ \A p \in DOMAIN b : b[p] = u[p]
  <2>1. /\ Shaped(Only(u, S))
        /\ \A p : p \in DOMAIN Only(u, S) <=> p \in DOMAIN u /\ p \in S
        /\ \A p \in DOMAIN Only(u, S) : Only(u, S)[p] = u[p]
    BY <1>1, OnlyShaped, OnlyParts
  <2> QED BY <1>4, <2>1
<1>6. \A p \in DOMAIN b : p \in Paths /\ p # <<>> BY <1>5 DEF Shaped, IsDictionary
<1>7. \A p \in DOMAIN b : At(p, 1) # "templates" BY <1>2, <1>3, <1>5, <1>6
<1>8. \A q \in Paths : q # <<>> /\ At(q, 1) # "templates" => Agree(b, u, q)
  <2> SUFFICES ASSUME NEW q \in Paths, q # <<>>, At(q, 1) # "templates"
               PROVE  Agree(b, u, q)
    OBVIOUS
  <2>1. \A p \in Paths : IsPrefix(q, p) => p # <<>> /\ At(p, 1) # "templates"
    <3> SUFFICES ASSUME NEW p \in Paths, IsPrefix(q, p)
                 PROVE  p # <<>> /\ At(p, 1) # "templates"
      OBVIOUS
    <3>1. Depth(q) \in Nat /\ 1 <= Depth(q) /\ Depth(q) <= Depth(p) /\ At(q, 1) = At(p, 1)
      BY Elements
    <3> QED BY <3>1, Depths
  <2>2. \A p \in DOMAIN u : IsPrefix(q, p) => p \in S
    BY <1>1, <1>2, <1>3, <2>1 DEF Shaped, IsDictionary
  <2> QED BY <1>4, <2>2, OnlyElsewhere
<1>9. /\ Shaped(s)
      /\ \A p \in DOMAIN s : At(p, 1) = "templates"
  <2>1. CASE Truthy(d[TemplatePath("app", "enabled")]) BY <1>0, <2>1, BothStage
  <2>2. CASE ~Truthy(d[TemplatePath("app", "enabled")])
    <3>1. s = Leaf(TemplatesPath, EmptyDict) BY <1>0, <2>2 DEF ScheduledTemplates
    <3>2. TemplatesPath \in Paths /\ TemplatesPath # <<>> /\ At(TemplatesPath, 1) = "templates"
      BY ShortPaths, Depths
    <3> QED BY <3>1, <3>2, LeafShaped, LeafParts, FitsEmpty
  <2> QED BY <2>1, <2>2
<1>10. \A p \in DOMAIN s : p \in Paths /\ p # <<>> BY <1>9 DEF Shaped, IsDictionary
<1>11. \A p \in DOMAIN b, q \in DOMAIN s : ~IsPrefix(p, q) /\ ~IsPrefix(q, p)
  BY <1>6, <1>7, <1>9, <1>10, ApartAt
<1>12. c = b ++ s /\ Shaped(c)
  <2>1. c = b ++ s BY <1>0
  <2> QED BY <1>5, <1>9, <1>11, <2>1, JoinShaped
<1>13. /\ \A p : p \in DOMAIN c <=> p \in DOMAIN b \/ p \in DOMAIN s
       /\ \A p \in DOMAIN c :
            \/ p \in DOMAIN b /\ c[p] = b[p]
            \/ p \in DOMAIN s /\ p \notin DOMAIN b /\ c[p] = s[p]
  BY <1>12, JoinParts
<1>14. \A q \in Paths : q # <<>> /\ At(q, 1) = "templates" => Agree(c, s, q)
  <2> SUFFICES ASSUME NEW q \in Paths, q # <<>>, At(q, 1) = "templates"
               PROVE  Agree(c, s, q)
    OBVIOUS
  <2>1. \A r \in DOMAIN b : ~IsPrefix(q, r) BY <1>6, <1>7, ApartAt
  <2> QED BY <1>12, <2>1, JoinElsewhere
<1>15. \A q \in Paths : q # <<>> /\ At(q, 1) # "templates" => Agree(c, b, q)
  <2> SUFFICES ASSUME NEW q \in Paths, q # <<>>, At(q, 1) # "templates"
               PROVE  Agree(c, b, q)
    OBVIOUS
  <2>1. \A r \in DOMAIN s : ~IsPrefix(q, r) BY <1>9, <1>10, ApartAt
  <2> QED BY <1>12, <2>1, JoinElsewhere
<1>16. \A q : Untouched(q) /\ At(q, 1) # "templates" => Agree(c, d, q)
  BY <1>1, <1>8, <1>15, AgreeTrans DEF Untouched
<1>17. \A q \in Paths : q # <<>> /\ At(q, 1) # "templates" =>
         /\ q \in DOMAIN c <=> q \in DOMAIN u
         /\ q \in DOMAIN c => c[q] = u[q]
  BY <1>8, <1>15, PrefixOrder, AgreeTrans DEF Agree
<1>18. \A q \in {HostsPath, ListenersPath, UpstreamsPath} :
         q \in DOMAIN c /\ c[q] = EmptyDict
  <2>1. \A q \in {HostsPath, ListenersPath, UpstreamsPath} :
          q \in Paths /\ q # <<>> /\ At(q, 1) # "templates"
    BY NamedPaths, Depths
  <2> QED BY <1>1, <1>17, <2>1
<1>19. /\ CheckPath("port") \in DOMAIN c /\ c[CheckPath("port")] = "None"
       /\ CheckPath("path") \in DOMAIN c /\ c[CheckPath("path")] = ""
  <2>1. "port" \in Keys /\ "path" \in Keys BY DefaultKeys
  <2>2. \A k \in {"port", "path"} :
          CheckPath(k) \in Paths /\ CheckPath(k) # <<>> /\ At(CheckPath(k), 1) # "templates"
    BY <2>1, KeyPaths, Depths
  <2> QED BY <1>1, <1>17, <2>2
<1>20. \A t : t \in KeysAt(c, TemplatesPath) <=>
         \E p \in DOMAIN s : Depth(p) >= 2 /\ At(p, 2) = t
  <2>1. \A t : t \in KeysAt(c, TemplatesPath) <=>
           \E p \in DOMAIN c : Depth(p) >= 2 /\ At(p, 1) = "templates" /\ At(p, 2) = t
    BY <1>12, TemplateKeys DEF Shaped
  <2> QED BY <1>7, <1>9, <1>13, <2>1
<1>21. CASE ~Truthy(d[TemplatePath("app", "enabled")])
  <2>1. s = Leaf(TemplatesPath, EmptyDict) BY <1>0, <1>21 DEF ScheduledTemplates
  <2>2. \A p \in DOMAIN s : Depth(p) = 1 BY <2>1, LeafParts, ShortPaths
  <2>3. KeysAt(c, TemplatesPath) = {} BY <1>20, <2>2
  <2> QED
    BY <1>0, <1>12, <1>14, <1>16, <1>18, <1>19, <1>21, <2>3 DEF Tasks
<1>22. CASE Truthy(d[TemplatePath("app", "enabled")])
  <2> DEFINE ep == TemplatePath("app", "enabled")
  <2>1. /\ \A p \in DOMAIN s :
             Depth(p) >= 2 /\ At(p, 1) = "templates" /\ At(p, 2) \in {"app", "timer"}
        /\ \A t \in {"app", "timer"} : ServicePath(t, "schedule") \in DOMAIN s
        /\ TemplatePath("timer", "enabled") \in DOMAIN s
        /\ \A q \in Paths :
              Depth(q) >= 2 /\ At(q, 1) = "templates" /\ At(q, 2) = "app"
              /\ ~IsPrefix(q, ServicePath("app", "schedule"))
              /\ ~IsPrefix(ServicePath("app", "schedule"), q) => Agree(s, d, q)
    BY <1>0, <1>22, BothStage
  <2>2. /\ ep \in Paths /\ ep # <<>> /\ Depth(ep) >= 2 /\ At(ep, 1) = "templates"
        /\ At(ep, 2) = "app"
        /\ ~IsPrefix(ep, ServicePath("app", "schedule"))
        /\ ~IsPrefix(ServicePath("app", "schedule"), ep)
    BY TimerPaths, ApartAt
  <2>3. ep \in DOMAIN d
    <3>1. "app" \in KeysAt(d, TemplatesPath)
      BY TimerPaths, TemplateKeys DEF Shaped
    <3> QED BY <3>1 DEF Tasks
  <2>4. ep \in DOMAIN s /\ s[ep] = d[ep] BY <2>1, <2>2, <2>3, PrefixOrder DEF Agree
  <2>5. ep \in DOMAIN c /\ c[ep] = d[ep]
    BY <1>14, <2>2, <2>4, PrefixOrder DEF Agree
  <2>6. \A t \in {"app", "timer"} :
          TemplatePath(t, "enabled") \in DOMAIN c /\ Has(c, TemplatePath(t, "args"))
    <3>1. TemplatePath("timer", "enabled") \in DOMAIN c BY <1>13, <2>1
    <3>2. \A t \in {"app", "timer"} : Has(c, TemplatePath(t, "args"))
      <4> TAKE t \in {"app", "timer"}
      <4>1. ServicePath(t, "schedule") \in DOMAIN c BY <1>13, <2>1
      <4>2. IsPrefix(TemplatePath(t, "args"), ServicePath(t, "schedule"))
        <5>1. t \in Keys /\ "args" \in Keys /\ "schedule" \in Keys
          BY DefaultKeys
        <5>2. /\ TemplatePath(t, "args") \in Paths /\ Depth(TemplatePath(t, "args")) = 3
              /\ At(TemplatePath(t, "args"), 1) = "templates"
              /\ At(TemplatePath(t, "args"), 2) = t
              /\ At(TemplatePath(t, "args"), 3) = "args"
          BY <5>1, KeyPaths
        <5>3. /\ ServicePath(t, "schedule") \in Paths /\ Depth(ServicePath(t, "schedule")) = 5
              /\ At(ServicePath(t, "schedule"), 1) = "templates"
              /\ At(ServicePath(t, "schedule"), 2) = t
              /\ At(ServicePath(t, "schedule"), 3) = "args"
          BY <5>1, KeyPaths
        <5>4. \A i : i \in 1 .. 3 <=> i = 1 \/ i = 2 \/ i = 3 OBVIOUS
        <5> QED BY <5>2, <5>3, <5>4, PrefixAt
      <4> QED BY <4>1, <4>2 DEF Has
    <3> QED BY <2>5, <3>1, <3>2
  <2>7. Tasks(c) BY <1>20, <2>1, <2>6 DEF Tasks
  <2> QED
    BY <1>0, <1>12, <1>14, <1>16, <1>18, <1>19, <1>22, <2>5, <2>7
<1> QED BY <1>21, <1>22

\* Whether tasks find what they index depends on the templates only.
LEMMA TasksAgree ==
  ASSUME NEW d, NEW e, IsDictionary(d), IsDictionary(e), Agree(d, e, TemplatesPath),
         Tasks(e)
  PROVE  Tasks(d)
<1>1. KeysAt(d, TemplatesPath) = KeysAt(e, TemplatesPath) BY ShortPaths, AgreeKeys
<1> SUFFICES ASSUME NEW t \in KeysAt(e, TemplatesPath)
             PROVE  /\ TemplatePath(t, "enabled") \in DOMAIN d
                    /\ Has(d, TemplatePath(t, "args"))
  BY <1>1 DEF Tasks
<1>2. t \in Keys /\ "enabled" \in Keys /\ "args" \in Keys BY DefaultKeys, KeysInKeys
<1>3. \A k \in {"enabled", "args"} :
        TemplatePath(t, k) \in Paths /\ IsPrefix(TemplatesPath, TemplatePath(t, k))
  <2>1. \A p \in Paths : p # <<>> /\ At(p, 1) = "templates" => IsPrefix(TemplatesPath, p)
    BY ShortPaths, PrefixAt, Depths
  <2>2. \A k \in {"enabled", "args"} :
          /\ TemplatePath(t, k) \in Paths /\ Depth(TemplatePath(t, k)) = 3
          /\ At(TemplatePath(t, k), 1) = "templates"
    BY <1>2, KeyPaths
  <2> QED BY <2>1, <2>2, Depths
<1>4. TemplatePath(t, "enabled") \in DOMAIN e /\ Has(e, TemplatePath(t, "args"))
  BY DEF Tasks
<1>5. TemplatePath(t, "enabled") \in DOMAIN d BY <1>3, <1>4 DEF Agree
<1>6. Has(d, TemplatePath(t, "args"))
  <2>1. DOMAIN d \subseteq Paths /\ DOMAIN e \subseteq Paths BY DEF IsDictionary
  <2> QED BY <1>3, <1>4, <2>1, ShortPaths, AgreeHas
<1> QED BY <1>5, <1>6

\* An app template that is enabled, as far as the tasks can tell.
AppEnabled(d) ==
  /\ TemplatePath("app", "enabled") \in DOMAIN d
  /\ Truthy(d[TemplatePath("app", "enabled")])

\* check_and_apply_schedule, with a schedule or without.
LEMMA ScheduleStage ==
  ASSUME NEW w, Shaped(w), Tasks(w),
         IsScheduled(w) => TemplatePath("app", "name") \in DOMAIN w,
         NEW c, c = CheckAndApplySchedule(w)
  PROVE  /\ Shaped(c) /\ Tasks(c)
         /\ IsScheduled(c) <=> IsScheduled(w)
         /\ SchedulePath \in DOMAIN c
         /\ SchedulePath \in DOMAIN w => c[SchedulePath] = w[SchedulePath]
         /\ ~IsScheduled(w) =>
              /\ Grows(c, w)
              /\ \A q \in Paths : q # <<>> /\ At(q, 1) # "schedule" => Agree(c, w, q)
         /\ \A q : Untouched(q) /\ At(q, 1) \notin {"templates", "schedule"} =>
              Agree(c, w, q)
         /\ IsScheduled(w) =>
              /\ \A q \in {HostsPath, ListenersPath, UpstreamsPath} :
                   q \in DOMAIN c /\ c[q] = EmptyDict
              /\ CheckPath("port") \in DOMAIN c /\ c[CheckPath("port")] = "None"
              /\ CheckPath("path") \in DOMAIN c /\ c[CheckPath("path")] = ""
              /\ ~AppEnabled(w) => KeysAt(c, TemplatesPath) = {}
              /\ AppEnabled(w) => AppEnabled(c)
<1>1. PICK d : d = Merge(w, Leaf(SchedulePath, "None")) OBVIOUS
<1>4. c = IF IsScheduled(d) THEN OtherParts(d) ++ ScheduledTemplates(d) ELSE d
  BY <1>1, ScheduleSteps
<1>5. /\ Shaped(d) /\ Grows(d, w)
      /\ SchedulePath \in DOMAIN d /\ d[SchedulePath] # EmptyDict
      /\ IsScheduled(d) <=> IsScheduled(w)
      /\ SchedulePath \in DOMAIN w => d[SchedulePath] = w[SchedulePath]
      /\ \A q \in Paths : q # <<>> /\ At(q, 1) # "schedule" => Agree(d, w, q)
  BY <1>1, ScheduleFound
<1>6. Agree(d, w, TemplatesPath)
  BY <1>5, ShortPaths, Depths
<1>7. Tasks(d) BY <1>5, <1>6, TasksAgree DEF Shaped
<1>8. CASE ~IsScheduled(w)
  <2>1. c = d BY <1>4, <1>5, <1>8
  <2> QED BY <1>5, <1>7, <1>8, <2>1 DEF Untouched
<1>9. CASE IsScheduled(w)
  <2>1. c = OtherParts(d) ++ ScheduledTemplates(d) BY <1>4, <1>5, <1>9
  <2>2. /\ TemplatePath("app", "name") \in Paths /\ TemplatePath("app", "name") # <<>>
        /\ At(TemplatePath("app", "name"), 1) = "templates"
        /\ Depth(TemplatePath("app", "name")) >= 2 /\ At(TemplatePath("app", "name"), 2) = "app"
        /\ TemplatePath("app", "enabled") \in Paths /\ TemplatePath("app", "enabled") # <<>>
        /\ At(TemplatePath("app", "enabled"), 1) = "templates"
    BY TimerPaths
  <2>3. TemplatePath("app", "name") \in DOMAIN d
    BY <1>5, <1>9, <2>2, PrefixOrder DEF Agree
  <2>4. TemplatePath("app", "enabled") \in DOMAIN w
    <3>1. "app" \in KeysAt(w, TemplatesPath) BY <1>9, <2>2, TemplateKeys DEF Shaped
    <3> QED BY <3>1 DEF Tasks
  <2>5. d[TemplatePath("app", "enabled")] = w[TemplatePath("app", "enabled")]
    BY <1>5, <2>2, <2>4, PrefixOrder DEF Agree
  <2>6. /\ Shaped(c) /\ Tasks(c)
        /\ \A q : Untouched(q) /\ At(q, 1) # "templates" => Agree(c, d, q)
        /\ \A q \in {HostsPath, ListenersPath, UpstreamsPath} :
             q \in DOMAIN c /\ c[q] = EmptyDict
        /\ CheckPath("port") \in DOMAIN c /\ c[CheckPath("port")] = "None"
        /\ CheckPath("path") \in DOMAIN c /\ c[CheckPath("path")] = ""
        /\ ~Truthy(d[TemplatePath("app", "enabled")]) => KeysAt(c, TemplatesPath) = {}
        /\ Truthy(d[TemplatePath("app", "enabled")]) =>
              /\ TemplatePath("app", "enabled") \in DOMAIN c
              /\ c[TemplatePath("app", "enabled")] = d[TemplatePath("app", "enabled")]
    BY <1>5, <1>7, <2>1, <2>3, ScheduledStage
  <2>7. /\ AppEnabled(w) <=> Truthy(d[TemplatePath("app", "enabled")])
        /\ Truthy(d[TemplatePath("app", "enabled")]) => AppEnabled(c)
    BY <2>4, <2>5, <2>6 DEF AppEnabled
  <2>8. Untouched(SchedulePath) /\ At(SchedulePath, 1) # "templates" /\ SchedulePath \in Paths
    BY ShortPaths, Depths DEF Untouched
  <2>9. SchedulePath \in DOMAIN c /\ c[SchedulePath] = d[SchedulePath]
    BY <1>5, <2>6, <2>8, PrefixOrder DEF Agree
  <2>10. IsScheduled(c) <=> IsScheduled(d) BY <1>5, <2>9 DEF IsScheduled
  <2>11. \A q : Untouched(q) /\ At(q, 1) \notin {"templates", "schedule"} => Agree(c, w, q)
    BY <1>5, <2>6, AgreeTrans DEF Untouched
  <2> QED BY <1>5, <1>9, <2>6, <2>7, <2>9, <2>10, <2>11
<1> QED BY <1>8, <1>9

-----------------------------------------------------------------------------
(* The version and the state.                                              *)

\* The version and the state.
LEMMA VersionStage ==
  ASSUME NEW c, Shaped(c), NEW v, v = ApplyVersion(c)
  PROVE  /\ Shaped(v)
         /\ \A p \in Paths : Has(c, p) => Has(v, p)
         /\ \A q \in Paths : q # <<>> /\ At(q, 1) # "state" /\ ~IsPrefix(q, VersionPath) =>
              Agree(v, c, q)
         /\ VersionPath \in DOMAIN c => VersionPath \in DOMAIN v
         /\ VersionPath \in DOMAIN c /\ Truthy(c[VersionPath]) =>
              v[VersionPath] = c[VersionPath]
         /\ \A p \in DOMAIN v : p # StatePath => p \in DOMAIN c
         /\ StatePath \in DOMAIN v /\ v[StatePath] = "NEW"
<1> DEFINE e == [c EXCEPT ![VersionPath] = IF Truthy(@) THEN @ ELSE "now"]
<1>1. IsFunction(c) /\ DOMAIN c \subseteq Paths
      /\ (\A p, q \in DOMAIN c : IsPrefix(p, q) => p = q)
      /\ (\A p \in DOMAIN c : p # <<>> /\ Fits(p, c[p]))
  BY DEF Shaped, IsDictionary
<1>2. /\ DOMAIN e = DOMAIN c /\ IsFunction(e)
      /\ \A p \in DOMAIN c : p # VersionPath => e[p] = c[p]
      /\ VersionPath \in DOMAIN c =>
           /\ Truthy(c[VersionPath]) => e[VersionPath] = c[VersionPath]
           /\ ~Truthy(c[VersionPath]) => e[VersionPath] = "now"
  BY DEF IsFunction
<1>3. v = Put(e, StatePath, "NEW") BY DEF ApplyVersion
<1> HIDE DEF e
<1>4. Fits(StatePath, "NEW") /\ \A w : w # EmptyDict => Fits(VersionPath, w)
  BY FitsNamed, DefaultKeys
<1>5. VersionPath \in DOMAIN c => e[VersionPath] # EmptyDict
  BY <1>2, DefaultKeys DEF Truthy
<1>6. Shaped(e) BY <1>1, <1>2, <1>4, <1>5 DEF Shaped, IsDictionary
<1>7. StatePath \in Paths /\ StatePath # <<>> /\ At(StatePath, 1) = "state"
      /\ VersionPath \in Paths /\ VersionPath # <<>> /\ At(VersionPath, 1) = "deployment"
  BY ShortPaths, NamedPaths, Depths
<1>8. Shaped(v) /\ StatePath \in DOMAIN v /\ v[StatePath] = "NEW"
  <2>1. \A w : Fits(StatePath, w) =>
          /\ Shaped(Put(e, StatePath, w)) /\ StatePath \in DOMAIN Put(e, StatePath, w)
          /\ Put(e, StatePath, w)[StatePath] = w
    BY <1>6, <1>7, PutStage
  <2> QED BY <1>3, <1>4, <2>1
<1>9. \A p \in Paths : Has(e, p) => Has(v, p)
  <2> SUFFICES ASSUME NEW p \in Paths, Has(e, p) PROVE Has(v, p)
    OBVIOUS
  <2>1. CASE IsPrefix(StatePath, p)
    <3>1. p = StatePath
      <4>1. PICK r \in DOMAIN e : IsPrefix(p, r) BY DEF Has
      <4>2. r \in Paths /\ Fits(r, e[r]) BY <1>6, <4>1 DEF Shaped, IsDictionary
      <4>3. IsPrefix(StatePath, r) BY <1>7, <2>1, <4>1, <4>2, PrefixOrder
      <4>4. r = StatePath BY <4>2, <4>3, TopAtomic DEF Atomic
      <4> QED BY <1>7, <2>1, <4>1, <4>4, PrefixOrder
    <3> QED BY <1>7, <1>8, <3>1, PrefixOrder DEF Has
  <2>2. CASE ~IsPrefix(StatePath, p)
    <3>1. \A w : Has(Put(e, StatePath, w), p)
      BY <1>6, <1>7, <2>2, PutHas DEF Shaped
    <3> QED BY <1>3, <3>1
  <2> QED BY <2>1, <2>2
<1>10. \A p : Has(c, p) <=> Has(e, p) BY <1>2 DEF Has
<1>11. \A q \in Paths : q # <<>> /\ At(q, 1) # "state" => Agree(v, e, q)
  <2> SUFFICES ASSUME NEW q \in Paths, q # <<>>, At(q, 1) # "state"
               PROVE  Agree(v, e, q)
    OBVIOUS
  <2>1. ~IsPrefix(q, StatePath) /\ ~IsPrefix(StatePath, q) BY <1>7, ApartAt
  <2>2. \A w : Agree(Put(e, StatePath, w), e, q)
    BY <1>6, <1>7, <2>1, PutElsewhere DEF Shaped
  <2> QED BY <1>3, <2>2
<1>12. \A q \in Paths : ~IsPrefix(q, VersionPath) => Agree(e, c, q)
  BY <1>2 DEF Agree
<1>13. \A q \in Paths : q # <<>> /\ At(q, 1) # "state" /\ ~IsPrefix(q, VersionPath) =>
              Agree(v, c, q)
  BY <1>11, <1>12, AgreeTrans
<1>14. VersionPath \in DOMAIN e =>
         VersionPath \in DOMAIN v /\ v[VersionPath] = e[VersionPath]
  BY <1>7, <1>11, PrefixOrder DEF Agree
<1>15. \A p \in DOMAIN v : p # StatePath => p \in DOMAIN c
  <2>1. \A w : \A p \in DOMAIN Put(e, StatePath, w) : p = StatePath \/ p \in DOMAIN e
    BY <1>6, <1>7, PutParts DEF Shaped
  <2> QED BY <1>2, <1>3, <2>1
<1> QED BY <1>2, <1>8, <1>9, <1>10, <1>13, <1>14, <1>15

-----------------------------------------------------------------------------
(* Upstreams for the exposed ports.                                        *)

\* IsHealth, IsPort and UselessUri in terms of Depth and At.
LEMMA HealthAt ==
  \A p \in Paths :
    /\ IsHealth(p) <=> /\ Depth(p) >= 4 /\ At(p, 1) = "proxy"
                       /\ At(p, 2) = "upstreams" /\ At(p, 4) = "health"
    /\ IsPort(p) <=>
         /\ Depth(p) = 4 /\ At(p, 1) = "proxy"
         /\ \/ At(p, 2) = "hosts" /\ At(p, 4) = "port"
            \/ At(p, 2) = "listeners" /\ At(p, 4) = "upstream_port"
    /\ \A d : UselessUri(d, p) =>
         /\ Depth(p) >= 4 /\ At(p, 1) = "proxy" /\ At(p, 2) = "upstreams"
         /\ At(p, 4) = "health" /\ At(p, Depth(p)) = "uri"
<1> TAKE p \in Paths
<1>1. IsPrefix(UpstreamsPath, p) <=>
        Depth(p) >= 2 /\ At(p, 1) = "proxy" /\ At(p, 2) = "upstreams"
  <2>1. /\ UpstreamsPath \in Paths /\ Depth(UpstreamsPath) = 2
        /\ At(UpstreamsPath, 1) = "proxy" /\ At(UpstreamsPath, 2) = "upstreams"
    BY NamedPaths
  <2>2. \A i : i \in 1 .. 2 <=> i = 1 \/ i = 2 OBVIOUS
  <2> QED BY <2>1, <2>2, PrefixAt, Depths
<1>2. IsHealth(p) <=> /\ Depth(p) >= 4 /\ At(p, 1) = "proxy"
                      /\ At(p, 2) = "upstreams" /\ At(p, 4) = "health"
  <2>1. IsHealth(p) <=> IsPrefix(UpstreamsPath, p) /\ Depth(p) >= 4 /\ At(p, 4) = "health"
    BY DEF IsHealth, Depth, At
  <2> QED BY <1>1, <2>1, Depths
<1>3. IsPort(p) <=>
         /\ Depth(p) = 4 /\ At(p, 1) = "proxy"
         /\ \/ At(p, 2) = "hosts" /\ At(p, 4) = "port"
            \/ At(p, 2) = "listeners" /\ At(p, 4) = "upstream_port"
  BY DEF IsPort, Depth, At
<1>4. \A d : UselessUri(d, p) => IsHealth(p) /\ At(p, Depth(p)) = "uri"
  BY DEF UselessUri, At, Depth
<1> QED BY <1>2, <1>3, <1>4

\* Exposed ports are keys: the schema has them so, or they are keys already.
LEMMA PortsInKeys ==
  ASSUME NEW d, Shaped(d)
  PROVE  GetExposedPorts(d) \subseteq Keys
<1>1. \A p \in DOMAIN d : p \in Paths /\ p # <<>> /\ Fits(p, d[p])
  BY DEF Shaped, IsDictionary
<1>2. \A p \in DOMAIN d : IsPort(p) => d[p] \in Keys
  BY <1>1, HealthAt, FitsProxy
<1>3. KeysAt(d, UpstreamsPath) \subseteq Keys BY KeysInKeys DEF Shaped
<1> QED BY <1>2, <1>3 DEF GetExposedPorts

\* The defaults of an upstream fit the schema.
LEMMA UpstreamFits ==
  \A u \in Keys : \A v : v # EmptyDict =>
    /\ UpstreamPath(u, "mode") # <<>> /\ Fits(UpstreamPath(u, "mode"), v)
    /\ UpstreamPath(u, "ttl") # <<>> /\ Fits(UpstreamPath(u, "ttl"), v)
    /\ HealthPath(u, "timeout") # <<>> /\ Fits(HealthPath(u, "timeout"), v)
<1> TAKE u \in Keys
<1>1. \A v : v # EmptyDict => Fits(UpstreamPath(u, "mode"), v)
  BY DEF Fits, UpstreamPath
<1>2. \A v : v # EmptyDict => Fits(UpstreamPath(u, "ttl"), v)
  BY DEF Fits, UpstreamPath
<1>3. \A v : v # EmptyDict => Fits(HealthPath(u, "timeout"), v)
  BY DEF Fits, HealthPath
<1>4. /\ UpstreamPath(u, "mode") # <<>> /\ UpstreamPath(u, "ttl") # <<>>
      /\ HealthPath(u, "timeout") # <<>>
  BY UpstreamPaths, Depths
<1> QED BY <1>1, <1>2, <1>3, <1>4

\* The defaults for a set of upstreams.
LEMMA EachUpstream ==
  ASSUME NEW keys \in SUBSET Keys,
         NEW f, f = ForEach(UpstreamsPath, keys, UPSTREAM_DEFAULTS)
  PROVE  /\ Shaped(f)
         /\ \A q : q \in DOMAIN f <=>
              \E u \in keys : \/ q = UpstreamPath(u, "mode")
                              \/ q = UpstreamPath(u, "ttl")
                              \/ q = HealthPath(u, "timeout")
         /\ \A q \in DOMAIN f : f[q] # EmptyDict
<1>1. UpstreamsPath \in Paths /\ IsDictionary(UPSTREAM_DEFAULTS)
  BY NamedPaths, UpstreamLeaves
<1>2. IsDictionary(f) BY <1>1, EachParts
<1>3. \A u \in keys :
        /\ Beneath(UpstreamsPath, u, <<"mode">>) = UpstreamPath(u, "mode")
        /\ Beneath(UpstreamsPath, u, <<"ttl">>) = UpstreamPath(u, "ttl")
        /\ Beneath(UpstreamsPath, u, <<"health", "timeout">>) = HealthPath(u, "timeout")
  BY BeneathPaths
<1>4. \A q \in DOMAIN f : \E u \in keys, r \in DOMAIN UPSTREAM_DEFAULTS :
        q = Beneath(UpstreamsPath, u, r) /\ f[q] = UPSTREAM_DEFAULTS[r]
  BY <1>1, EachParts
<1>5. ASSUME NEW u \in keys, NEW r \in DOMAIN UPSTREAM_DEFAULTS
      PROVE  Beneath(UpstreamsPath, u, r) \in DOMAIN f
  BY <1>1, EachParts
<1>6. \A q : q \in DOMAIN f <=>
        \E u \in keys : \/ q = UpstreamPath(u, "mode")
                        \/ q = UpstreamPath(u, "ttl")
                        \/ q = HealthPath(u, "timeout")
  <2>1. \A r \in DOMAIN UPSTREAM_DEFAULTS :
          r = <<"mode">> \/ r = <<"ttl">> \/ r = <<"health", "timeout">>
    BY UpstreamLeaves
  <2>2. /\ <<"mode">> \in DOMAIN UPSTREAM_DEFAULTS
        /\ <<"ttl">> \in DOMAIN UPSTREAM_DEFAULTS
        /\ <<"health", "timeout">> \in DOMAIN UPSTREAM_DEFAULTS
    BY UpstreamLeaves
  <2>3. \A u \in keys : /\ UpstreamPath(u, "mode") \in DOMAIN f
                        /\ UpstreamPath(u, "ttl") \in DOMAIN f
                        /\ HealthPath(u, "timeout") \in DOMAIN f
    BY <1>3, <1>5, <2>2
  <2>4. ASSUME NEW q \in DOMAIN f
        PROVE  \E u \in keys : \/ q = UpstreamPath(u, "mode")
                               \/ q = UpstreamPath(u, "ttl")
                               \/ q = HealthPath(u, "timeout")
    <3>1. PICK u \in keys, r \in DOMAIN UPSTREAM_DEFAULTS :
            q = Beneath(UpstreamsPath, u, r)
      BY <1>4
    <3>2. CASE r = <<"mode">> BY <1>3, <3>1, <3>2
    <3>3. CASE r = <<"ttl">> BY <1>3, <3>1, <3>3
    <3>4. CASE r = <<"health", "timeout">> BY <1>3, <3>1, <3>4
    <3> QED BY <2>1, <3>2, <3>3, <3>4
  <2> QED BY <2>3, <2>4
<1>7. \A q \in DOMAIN f : f[q] # EmptyDict BY <1>4, UpstreamLeaves
<1>8. \A q \in DOMAIN f : q # <<>> /\ Fits(q, f[q])
  <2> SUFFICES ASSUME NEW q \in DOMAIN f PROVE q # <<>> /\ Fits(q, f[q])
    OBVIOUS
  <2>1. PICK u \in keys : \/ q = UpstreamPath(u, "mode")
                          \/ q = UpstreamPath(u, "ttl")
                          \/ q = HealthPath(u, "timeout")
    BY <1>6
  <2>2. f[q] # EmptyDict /\ u \in Keys BY <1>7
  <2> QED BY <2>1, <2>2, UpstreamFits
<1> QED BY <1>2, <1>6, <1>7, <1>8 DEF Shaped

\* They are values beneath nothing but dictionaries.
LEMMA UpstreamAtomic ==
  \A u \in Keys : /\ Atomic(UpstreamPath(u, "mode")) /\ Atomic(UpstreamPath(u, "ttl"))
                  /\ Atomic(HealthPath(u, "timeout"))
                  /\ Firm(UpstreamPath(u, "mode")) /\ Firm(UpstreamPath(u, "ttl"))
                  /\ Firm(HealthPath(u, "timeout"))
<1> TAKE u \in Keys
<1>1. ASSUME NEW q \in Paths, At(q, 1) = "proxy", At(q, 2) = "upstreams",
             \/ Depth(q) = 4 /\ At(q, 4) # "health"
             \/ Depth(q) = 5 /\ At(q, 4) = "health"
      PROVE  Atomic(q) /\ Firm(q)
  <2>1. ASSUME NEW p \in Paths, NEW v, IsPrefix(q, p), Fits(p, v)
        PROVE  p = q /\ v # EmptyDict
    <3>1. /\ Depth(q) <= Depth(p) /\ At(p, 1) = "proxy" /\ At(p, 2) = "upstreams"
          /\ At(p, 4) = At(q, 4) /\ p # <<>>
          /\ Depth(q) = Depth(p) => q = p
      BY <1>1, <2>1, Elements, Depths
    <3>2. Depth(p) \in Nat BY Depths
    <3>3. /\ Depth(p) = 4 => (v = EmptyDict <=> At(p, 4) = "health")
          /\ Depth(p) > 4 => Depth(p) = 5 /\ At(p, 4) = "health" /\ v # EmptyDict
      BY <2>1, <3>1, FitsProxy
    <3> QED BY <1>1, <3>1, <3>2, <3>3
  <2>2. Depth(q) \in 1 .. 5 BY <1>1
  <2> QED BY <1>1, <2>1, <2>2, ProxyFirm DEF Atomic
<1>2. /\ Atomic(UpstreamPath(u, "mode")) /\ Firm(UpstreamPath(u, "mode"))
      /\ Atomic(UpstreamPath(u, "ttl")) /\ Firm(UpstreamPath(u, "ttl"))
  BY <1>1, UpstreamPaths
<1>3. Atomic(HealthPath(u, "timeout")) /\ Firm(HealthPath(u, "timeout"))
  BY <1>1, UpstreamPaths
<1> QED BY <1>2, <1>3

\* The upstreams afterwards are the exposed ports, with their defaults.
LEMMA UpstreamStage ==
  ASSUME NEW v, Shaped(v), NEW u, u = ApplyUpstreams(v)
  PROVE  /\ Shaped(u)
         /\ \A p \in Paths :
              p # <<>> /\ (At(p, 1) # "proxy" \/ Depth(p) <= 3) /\ Has(v, p) => Has(u, p)
         /\ \A q \in Paths :
              q # <<>> /\ (At(q, 1) # "proxy" \/ (Depth(q) >= 2 /\ At(q, 2) # "upstreams")) =>
                Agree(u, v, q)
         /\ KeysAt(u, UpstreamsPath) = GetExposedPorts(v)
         /\ \A k \in KeysAt(u, UpstreamsPath) :
              /\ UpstreamPath(k, "mode") \in DOMAIN u /\ UpstreamPath(k, "ttl") \in DOMAIN u
              /\ HealthPath(k, "timeout") \in DOMAIN u
         /\ \A p \in DOMAIN v :
              v[p] # EmptyDict /\ ~(IsHealth(p) /\ p[Len(p)] = "uri") =>
                p \in DOMAIN u /\ u[p] = v[p]
         /\ \A p \in DOMAIN u : IsPort(p) => u[p] \in KeysAt(u, UpstreamsPath)
         /\ GetExposedPorts(u) = KeysAt(u, UpstreamsPath)
         /\ \A p \in DOMAIN u : ~UselessUri(u, p)
<1> DEFINE P == GetExposedPorts(v)
           F == ForEach(UpstreamsPath, P, UPSTREAM_DEFAULTS)
           m == Merge(v, F)
           Left == {p \in DOMAIN m : ~UselessUri(m, p)}
<1>1. u = Only(m, Left) BY DEF ApplyUpstreams
<1>2. P \subseteq Keys BY PortsInKeys
<1>3. /\ Shaped(F)
      /\ \A q : q \in DOMAIN F <=>
           \E k \in P : \/ q = UpstreamPath(k, "mode")
                        \/ q = UpstreamPath(k, "ttl")
                        \/ q = HealthPath(k, "timeout")
  BY <1>2, EachUpstream
<1>4. Shaped(m) /\ Grows(m, v) BY <1>3, MergeShaped, MergeGrows DEF Shaped
<1>5. \A p : p \in Left <=> p \in DOMAIN m /\ ~UselessUri(m, p) OBVIOUS
<1>6. P = {v[p] : p \in {q \in DOMAIN v : IsPort(q)}} \cup KeysAt(v, UpstreamsPath)
  BY DEF GetExposedPorts
<1>7. /\ \A p \in DOMAIN m : p \in DOMAIN v \/ p \in DOMAIN F
      /\ \A q \in Paths : (\A r \in DOMAIN F : ~IsPrefix(q, r)) => Agree(m, v, q)
      /\ \A p \in Paths : Has(F, p) => Has(m, p) \/ Above(v, p)
  BY <1>3, MergeParts, MergeElsewhere, MergeAdds DEF Shaped
<1>8. IsDictionary(v) /\ IsDictionary(m) /\ \A p \in DOMAIN m : p \in Paths /\ p # <<>>
  BY <1>4 DEF Shaped, IsDictionary
<1> HIDE DEF P, F, m, Left
<1>9. /\ Shaped(u)
      /\ \A p : p \in DOMAIN u <=> p \in DOMAIN m /\ ~UselessUri(m, p)
      /\ \A p \in DOMAIN u : u[p] = m[p]
  <2>1. /\ Shaped(Only(m, Left))
        /\ \A p : p \in DOMAIN Only(m, Left) <=> p \in DOMAIN m /\ p \in Left
        /\ \A p \in DOMAIN Only(m, Left) : Only(m, Left)[p] = m[p]
    BY <1>4, OnlyShaped, OnlyParts
  <2> QED BY <1>1, <1>5, <2>1
<1>10. \A k \in P : /\ UpstreamPath(k, "mode") \in DOMAIN m
                    /\ UpstreamPath(k, "ttl") \in DOMAIN m
                    /\ HealthPath(k, "timeout") \in DOMAIN m
  <2>1. ASSUME NEW q \in Paths, q \in DOMAIN F, Firm(q), Atomic(q)
        PROVE  q \in DOMAIN m
    <3>1. Has(m, q) \/ Above(v, q) BY <1>7, <2>1, PrefixOrder DEF Has
    <3>2. Has(m, q) BY <1>4, <2>1, <3>1, FirmHas DEF Grows
    <3> QED BY <1>4, <2>1, <3>2, AtomicLeaf
  <2> TAKE k \in P
  <2>2. /\ UpstreamPath(k, "mode") \in DOMAIN F /\ UpstreamPath(k, "ttl") \in DOMAIN F
        /\ HealthPath(k, "timeout") \in DOMAIN F /\ k \in Keys
    BY <1>2, <1>3
  <2>3. UpstreamPath(k, "mode") \in DOMAIN m
    BY <2>1, <2>2, UpstreamAtomic, UpstreamPaths
  <2>4. UpstreamPath(k, "ttl") \in DOMAIN m
    BY <2>1, <2>2, UpstreamAtomic, UpstreamPaths
  <2>5. HealthPath(k, "timeout") \in DOMAIN m
    BY <2>1, <2>2, UpstreamAtomic, UpstreamPaths
  <2> QED BY <2>3, <2>4, <2>5
<1>11. \A k \in P : /\ UpstreamPath(k, "mode") \in DOMAIN u
                    /\ UpstreamPath(k, "ttl") \in DOMAIN u
                    /\ HealthPath(k, "timeout") \in DOMAIN u
  <2> TAKE k \in P
  <2>1. k \in Keys BY <1>2
  <2>2. /\ ~UselessUri(m, UpstreamPath(k, "mode")) /\ ~UselessUri(m, UpstreamPath(k, "ttl"))
        /\ ~UselessUri(m, HealthPath(k, "timeout"))
    BY <2>1, HealthAt, UpstreamPaths
  <2> QED BY <1>9, <1>10, <2>2
<1>12. \A k : k \in KeysAt(u, UpstreamsPath) <=> k \in P
  <2>1. \A k : k \in KeysAt(u, UpstreamsPath) <=>
           \E p \in DOMAIN u : /\ Depth(p) >= 3 /\ At(p, 1) = "proxy"
                               /\ At(p, 2) = "upstreams" /\ At(p, 3) = k
    BY <1>9, UpstreamKeys DEF Shaped
  <2>2. ASSUME NEW p \in DOMAIN m, Depth(p) >= 3, At(p, 1) = "proxy",
               At(p, 2) = "upstreams"
        PROVE  At(p, 3) \in P
    <3>1. CASE p \in DOMAIN v
      <4>1. At(p, 3) \in KeysAt(v, UpstreamsPath) BY <1>8, <2>2, <3>1, UpstreamKeys
      <4> QED BY <1>6, <4>1
    <3>2. CASE p \in DOMAIN F
      <4>1. PICK k \in P : \/ p = UpstreamPath(k, "mode")
                           \/ p = UpstreamPath(k, "ttl")
                           \/ p = HealthPath(k, "timeout")
        BY <1>3, <3>2
      <4>2. k \in Keys BY <1>2
      <4>3. At(p, 3) = k BY <4>1, <4>2, UpstreamPaths
      <4> QED BY <4>3
    <3> QED BY <1>7, <3>1, <3>2
  <2>3. \A k \in P : k \in KeysAt(u, UpstreamsPath)
    <3> TAKE k \in P
    <3>1. UpstreamPath(k, "mode") \in DOMAIN u BY <1>11
    <3>2. /\ Depth(UpstreamPath(k, "mode")) = 4 /\ At(UpstreamPath(k, "mode"), 1) = "proxy"
          /\ At(UpstreamPath(k, "mode"), 2) = "upstreams"
          /\ At(UpstreamPath(k, "mode"), 3) = k
      BY <1>2, UpstreamPaths
    <3> QED BY <2>1, <3>1, <3>2
  <2> QED BY <1>9, <2>1, <2>2, <2>3
<1>13. \A q \in Paths :
         q # <<>> /\ (At(q, 1) # "proxy" \/ (Depth(q) >= 2 /\ At(q, 2) # "upstreams")) =>
           Agree(u, v, q)
  <2> SUFFICES ASSUME NEW q \in Paths, q # <<>>,
                      At(q, 1) # "proxy" \/ (Depth(q) >= 2 /\ At(q, 2) # "upstreams")
               PROVE  Agree(u, v, q)
    OBVIOUS
  <2>1. \A r \in Paths :
          r # <<>> /\ Depth(r) >= 2 /\ At(r, 1) = "proxy" /\ At(r, 2) = "upstreams" =>
            ~IsPrefix(q, r)
    BY ApartAt
  <2>2. \A r \in DOMAIN F : ~IsPrefix(q, r)
    <3> TAKE r \in DOMAIN F
    <3>1. PICK k \in P : \/ r = UpstreamPath(k, "mode")
                         \/ r = UpstreamPath(k, "ttl")
                         \/ r = HealthPath(k, "timeout")
      BY <1>3
    <3>2. /\ r \in Paths /\ Depth(r) >= 2
          /\ At(r, 1) = "proxy" /\ At(r, 2) = "upstreams"
      BY <1>2, <3>1, UpstreamPaths
    <3> QED BY <2>1, <3>2, Depths
  <2>3. Agree(m, v, q) BY <1>7, <2>2
  <2>4. \A p \in Paths : IsPrefix(q, p) => ~UselessUri(m, p)
    <3> SUFFICES ASSUME NEW p \in Paths, IsPrefix(q, p), UselessUri(m, p) PROVE FALSE
      OBVIOUS
    <3>1. /\ Depth(p) >= 4 /\ At(p, 1) = "proxy" /\ At(p, 2) = "upstreams"
      BY HealthAt
    <3> QED BY <2>1, <3>1, Depths
  <2>5. Agree(u, m, q) BY <1>9, <2>4 DEF Agree
  <2> QED BY <2>3, <2>5, AgreeTrans
<1>14. \A p \in DOMAIN v :
         v[p] # EmptyDict /\ ~(IsHealth(p) /\ p[Len(p)] = "uri") =>
           p \in DOMAIN u /\ u[p] = v[p]
  <2> SUFFICES ASSUME NEW p \in DOMAIN v, v[p] # EmptyDict,
                      ~(IsHealth(p) /\ p[Len(p)] = "uri")
               PROVE  p \in DOMAIN u /\ u[p] = v[p]
    OBVIOUS
  <2>1. p \in DOMAIN m /\ m[p] = v[p] BY <1>4 DEF Grows
  <2>2. ~UselessUri(m, p) BY DEF UselessUri
  <2> QED BY <1>9, <2>1, <2>2
<1>15. \A p \in Paths :
         p # <<>> /\ (At(p, 1) # "proxy" \/ Depth(p) <= 3) /\ Has(v, p) => Has(u, p)
  <2> SUFFICES ASSUME NEW p \in Paths, p # <<>>, At(p, 1) # "proxy" \/ Depth(p) <= 3,
                      Has(v, p)
               PROVE  Has(u, p)
    OBVIOUS
  <2>1. PICK r \in DOMAIN m : IsPrefix(p, r) BY <1>4 DEF Grows, Has
  <2>2. CASE ~UselessUri(m, r) BY <1>9, <2>1, <2>2 DEF Has
  <2>3. CASE UselessUri(m, r)
    <3>1. r \in Paths /\ Depth(r) >= 4 /\ At(r, 1) = "proxy" /\ At(r, 2) = "upstreams"
      BY <1>8, <2>3, HealthAt
    <3>2. \E s \in DOMAIN u : s \in Paths /\ Depth(s) >= 3
            /\ At(s, 1) = "proxy" /\ At(s, 2) = "upstreams" /\ At(s, 3) = At(r, 3)
      <4>1. CASE r \in DOMAIN v
        <5>1. At(r, 3) \in P BY <1>6, <1>8, <3>1, <4>1, Depths, UpstreamKeys
        <5>2. UpstreamPath(At(r, 3), "mode") \in DOMAIN u /\ At(r, 3) \in Keys
          BY <1>2, <1>11, <5>1
        <5> QED BY <5>2, UpstreamPaths
      <4>2. CASE r \in DOMAIN F
        <5>1. PICK k \in P : \/ r = UpstreamPath(k, "mode")
                             \/ r = UpstreamPath(k, "ttl")
                             \/ r = HealthPath(k, "timeout")
          BY <1>3, <4>2
        <5>2. r \in DOMAIN u BY <1>11, <5>1
        <5> QED BY <1>9, <2>3, <5>2
      <4> QED BY <1>7, <4>1, <4>2
    <3>3. PICK s \in DOMAIN u : s \in Paths /\ Depth(s) >= 3
            /\ At(s, 1) = "proxy" /\ At(s, 2) = "upstreams" /\ At(s, 3) = At(r, 3)
      BY <3>2
    <3>4. /\ 1 <= Depth(p) /\ Depth(p) \in Nat /\ At(p, 1) = At(r, 1)
          /\ 2 <= Depth(p) => At(p, 2) = At(r, 2)
          /\ 3 <= Depth(p) => At(p, 3) = At(r, 3)
      BY <2>1, <3>1, Elements
    <3>5. Depth(p) <= 3 BY <3>1, <3>4
    <3>6. \A i : i \in 1 .. Depth(p) =>
                   i = 1 \/ (i = 2 /\ 2 <= Depth(p)) \/ (i = 3 /\ 3 <= Depth(p))
      BY <3>4, <3>5
    <3>7. \A i \in 1 .. Depth(p) : At(p, i) = At(s, i) BY <3>1, <3>3, <3>4, <3>6
    <3>8. Depth(p) <= Depth(s) BY <3>3, <3>4, <3>5, Depths
    <3>9. IsPrefix(p, s) BY <3>3, <3>7, <3>8, PrefixAt
    <3> QED BY <3>3, <3>9 DEF Has
  <2> QED BY <2>2, <2>3
<1>16. \A p \in DOMAIN u : IsPort(p) => u[p] \in P
  <2> SUFFICES ASSUME NEW p \in DOMAIN u, IsPort(p) PROVE u[p] \in P
    OBVIOUS
  <2>1. p \in Paths /\ p # <<>> /\ Depth(p) = 4 /\ At(p, 1) = "proxy" /\ At(p, 2) # "upstreams"
    BY <1>8, <1>9, HealthAt
  <2>2. Agree(u, v, p) BY <1>13, <2>1
  <2>3. p \in DOMAIN v /\ u[p] = v[p] BY <2>1, <2>2, PrefixOrder DEF Agree
  <2> QED BY <1>6, <2>3
<1>17. KeysAt(u, UpstreamsPath) = GetExposedPorts(v) BY <1>12 DEF P
<1>18. GetExposedPorts(u) = KeysAt(u, UpstreamsPath)
  <2>1. {u[p] : p \in {q \in DOMAIN u : IsPort(q)}} \subseteq KeysAt(u, UpstreamsPath)
    BY <1>12, <1>16
  <2> QED BY <2>1 DEF GetExposedPorts
<1>19. \A p \in DOMAIN u : ~UselessUri(u, p)
  <2> SUFFICES ASSUME NEW p \in DOMAIN u, UselessUri(u, p) PROVE FALSE
    OBVIOUS
  <2>1. p \in Paths /\ Depth(p) >= 4 /\ At(p, 1) = "proxy" /\ At(p, 2) = "upstreams"
    BY <1>8, <1>9, HealthAt
  <2>2. At(p, 3) \in P BY <1>9, <1>12, <2>1, Depths, UpstreamKeys DEF Shaped
  <2>3. /\ UpstreamPath(At(p, 3), "mode") \in DOMAIN u
        /\ u[UpstreamPath(At(p, 3), "mode")] = m[UpstreamPath(At(p, 3), "mode")]
        /\ u[p] = m[p]
    BY <1>9, <1>11, <2>2
  <2>4. UselessUri(m, p) BY <2>3 DEF UselessUri, At
  <2> QED BY <1>9, <2>4
<1> QED BY <1>9, <1>11, <1>12, <1>13, <1>14, <1>15, <1>16, <1>17, <1>18, <1>19

-----------------------------------------------------------------------------
(* The arguments of the app template.                                      *)

\* Where the variable of the deployment's environment at p goes.
Moved(p) == EnvironmentPath \o Tail(p)
IsShared(p) == p \in Paths /\ Depth(p) >= 2 /\ At(p, 1) = "environment"

\* What concatenation does to the elements of paths.
LEMMA Concatenated ==
  ASSUME NEW s \in Paths, NEW t \in Paths
  PROVE  /\ s \o t \in Paths /\ Len(s \o t) = Len(s) + Len(t)
         /\ \A i \in 1 .. Len(s) : (s \o t)[i] = s[i]
         /\ \A i \in 1 .. Len(t) : (s \o t)[Len(s) + i] = t[i]
BY DEF Paths

\* The elements of a moved path.
LEMMA MovedAt ==
  ASSUME NEW p, IsShared(p)
  PROVE  /\ Moved(p) \in Paths /\ Depth(p) \in Nat
         /\ Depth(Moved(p)) = Depth(p) + 3
         /\ At(Moved(p), 1) = "templates" /\ At(Moved(p), 2) = "app"
         /\ At(Moved(p), 3) = "args" /\ At(Moved(p), 4) = "environment"
         /\ \A i \in 2 .. Depth(p) : At(Moved(p), i + 3) = At(p, i)
         /\ SharedPath \o SubSeq(Moved(p), 5, Len(Moved(p))) = p
<1>1. p \in Seq(Keys) /\ Len(p) \in Nat /\ Len(p) >= 2 /\ p[1] = "environment"
  BY DEF IsShared, Paths, Depth, At
<1> DEFINE t == Tail(p)
           e == EnvironmentPath
           m == e \o t
<1>2. t \in Seq(Keys) /\ Len(t) = Len(p) - 1 /\ \A i \in 1 .. Len(t) : t[i] = p[i + 1]
  BY <1>1
<1>3. /\ e \in Seq(Keys) /\ Len(e) = 4
      /\ e[1] = "templates" /\ e[2] = "app" /\ e[3] = "args" /\ e[4] = "environment"
  BY AppPaths DEF Paths, Depth, At
<1> HIDE DEF t, e
<1>9. /\ m \in Seq(Keys) /\ Len(m) = Len(e) + Len(t)
      /\ \A i \in 1 .. Len(e) : m[i] = e[i]
      /\ \A i \in 1 .. Len(t) : m[Len(e) + i] = t[i]
  <2>1. e \in Paths /\ t \in Paths BY <1>2, <1>3 DEF Paths
  <2>2. /\ m \in Paths /\ Len(m) = Len(e) + Len(t)
        /\ \A i \in 1 .. Len(e) : m[i] = e[i]
        /\ \A i \in 1 .. Len(t) : m[Len(e) + i] = t[i]
    BY <2>1, Concatenated
  <2> HIDE DEF m
  <2> QED BY <2>2 DEF Paths
<1> HIDE DEF m
<1>4. Len(m) = Len(p) + 3 BY <1>1, <1>2, <1>3, <1>9
<1>5. /\ m[1] = "templates" /\ m[2] = "app" /\ m[3] = "args" /\ m[4] = "environment"
  BY <1>3, <1>9
<1>6. \A i \in 2 .. Len(p) : m[i + 3] = p[i]
  <2> TAKE i \in 2 .. Len(p)
  <2>1. i - 1 \in 1 .. Len(t) /\ 4 + (i - 1) = i + 3 /\ i - 1 + 1 = i BY <1>1, <1>2
  <2>2. m[i + 3] = t[i - 1] BY <1>3, <1>9, <2>1
  <2> QED BY <1>2, <2>1, <2>2
<1>7. SharedPath \o SubSeq(m, 5, Len(m)) = p
  <2> DEFINE b == SubSeq(m, 5, Len(m))
  <2>1. b \in Seq(Keys) /\ Len(b) = Len(p) - 1 /\ \A i \in 1 .. Len(b) : b[i] = m[i + 4]
    BY <1>1, <1>4, <1>9
  <2> HIDE DEF b
  <2>2. SharedPath = <<"environment">> BY DEF SharedPath
  <2>3. <<"environment">> \in Seq(Keys) BY KeysAssumption DEF NamedKeys
  <2> DEFINE c == <<"environment">> \o b
  <2>4. c \in Seq(Keys) /\ Len(c) = Len(p) BY <1>1, <2>1, <2>3
  <2>5. \A i \in 1 .. Len(p) : c[i] = p[i]
    <3> TAKE i \in 1 .. Len(p)
    <3>1. CASE i = 1 BY <1>1, <2>1, <2>3, <3>1
    <3>2. CASE i # 1
      <4>1. c[i] = b[i - 1] BY <1>1, <2>1, <2>3, <3>2
      <4>2. i - 1 \in 1 .. Len(b) /\ i - 1 + 4 = i + 3 /\ i \in 2 .. Len(p)
        BY <1>1, <2>1, <3>2
      <4>3. b[i - 1] = m[i + 3] BY <2>1, <4>2
      <4> QED BY <1>6, <4>1, <4>2, <4>3
    <3> QED BY <3>1, <3>2
  <2> HIDE DEF c
  <2>6. c = p BY <1>1, <2>4, <2>5
  <2> QED BY <2>2, <2>6 DEF b, c
<1>8. Moved(p) = m BY DEF m, e, t, Moved
<1> QED BY <1>1, <1>4, <1>5, <1>6, <1>7, <1>8, <1>9 DEF Paths, Depth, At

\* Moving keeps paths apart.
LEMMA MovedPrefix ==
  ASSUME NEW p, IsShared(p), NEW q, IsShared(q), IsPrefix(Moved(p), Moved(q))
  PROVE  IsPrefix(p, q)
<1>1. /\ Moved(p) \in Paths /\ Depth(p) \in Nat /\ Depth(Moved(p)) = Depth(p) + 3
      /\ \A i \in 2 .. Depth(p) : At(Moved(p), i + 3) = At(p, i)
  BY MovedAt
<1>2. /\ Moved(q) \in Paths /\ Depth(q) \in Nat /\ Depth(Moved(q)) = Depth(q) + 3
      /\ \A i \in 2 .. Depth(q) : At(Moved(q), i + 3) = At(q, i)
  BY MovedAt
<1>3. /\ Depth(Moved(p)) <= Depth(Moved(q))
      /\ \A i \in 1 .. Depth(Moved(p)) : At(Moved(p), i) = At(Moved(q), i)
  BY <1>1, <1>2, PrefixAt
<1>4. Depth(p) <= Depth(q) BY <1>1, <1>2, <1>3
<1>5. /\ p \in Paths /\ q \in Paths /\ At(p, 1) = At(q, 1) BY DEF IsShared
<1>6. \A i \in 1 .. Depth(p) : At(p, i) = At(q, i)
  <2> TAKE i \in 1 .. Depth(p)
  <2>1. CASE i = 1 BY <1>5, <2>1
  <2>2. CASE i # 1
    <3>1. i \in 2 .. Depth(p) /\ i \in 2 .. Depth(q) /\ i + 3 \in 1 .. Depth(Moved(p))
      BY <1>1, <1>2, <1>4, <2>2
    <3> QED BY <1>1, <1>2, <1>3, <3>1
  <2> QED BY <2>1, <2>2
<1> QED BY <1>4, <1>5, <1>6, PrefixAt

\* The deployment's environment, moved to the app template.
LEMMA EnvironmentStage ==
  ASSUME NEW d, Shaped(d), NEW e, e = GeneralEnvironment(d)
  PROVE  /\ Shaped(e)
         /\ \A q : q \in DOMAIN e <=> \E p \in DOMAIN d : IsShared(p) /\ q = Moved(p)
<1> DEFINE S == {p \in DOMAIN d : IsStrictPrefix(SharedPath, p)}
           Q == {EnvironmentPath \o Tail(p) : p \in S}
<1>1. e = [q \in Q |-> d[SharedPath \o SubSeq(q, 5, Len(q))]] BY DEF GeneralEnvironment
<1>2. \A p : p \in S <=> p \in DOMAIN d /\ IsShared(p)
  <2>1. \A p \in DOMAIN d : p \in Paths BY DEF Shaped, IsDictionary
  <2>2. ASSUME NEW p \in Paths PROVE IsStrictPrefix(SharedPath, p) <=> IsShared(p)
    <3>1. IsPrefix(SharedPath, p) <=> Depth(p) >= 1 /\ At(p, 1) = "environment"
      BY ShortPaths, PrefixAt, Depths
    <3>2. IsStrictPrefix(SharedPath, p) <=> IsPrefix(SharedPath, p) /\ SharedPath # p
      BY ShortPaths, PrefixIs
    <3>3. Depth(p) = 1 /\ At(p, 1) = "environment" => p = SharedPath
      BY ShortPaths, SamePath
    <3>4. SharedPath = p => Depth(p) = 1 BY ShortPaths
    <3> QED BY <3>1, <3>2, <3>3, <3>4, Depths DEF IsShared
  <2> QED BY <2>1, <2>2
<1>3. \A q : q \in Q <=> \E p \in S : q = Moved(p) BY DEF Moved
<1>4. IsFunction(e) /\ \A q : q \in DOMAIN e <=> q \in Q BY <1>1 DEF IsFunction
<1> HIDE DEF S, Q
<1>5. \A q : q \in DOMAIN e <=> \E p \in DOMAIN d : IsShared(p) /\ q = Moved(p)
  BY <1>2, <1>3, <1>4
<1>6. \A q \in DOMAIN e : q \in Paths /\ q # <<>> /\ \A v : Fits(q, v)
  <2> SUFFICES ASSUME NEW q \in DOMAIN e
               PROVE  q \in Paths /\ q # <<>> /\ \A v : Fits(q, v)
    OBVIOUS
  <2>1. PICK p \in DOMAIN d : IsShared(p) /\ q = Moved(p) BY <1>5
  <2>2. /\ q \in Paths /\ Depth(q) >= 5 /\ At(q, 1) = "templates"
        /\ At(q, 3) = "args" /\ At(q, 4) = "environment"
    <3>1. /\ Moved(p) \in Paths /\ Depth(p) \in Nat
          /\ Depth(Moved(p)) = Depth(p) + 3
          /\ At(Moved(p), 1) = "templates"
          /\ At(Moved(p), 3) = "args" /\ At(Moved(p), 4) = "environment"
      BY <2>1, MovedAt
    <3>2. Depth(p) >= 2 BY <2>1 DEF IsShared
    <3> QED BY <2>1, <3>1, <3>2
  <2>3. Len(q) >= 5 /\ q[1] = "templates" /\ q[3] = "args" /\ q[4] = "environment"
    BY <2>2 DEF Depth, At
  <2>4. \A v : Fits(q, v) BY <2>3 DEF Fits
  <2> QED BY <2>2, <2>4, Depths
<1>7. ASSUME NEW q \in DOMAIN e, NEW r \in DOMAIN e, IsPrefix(q, r)
      PROVE  q = r
  <2>1. PICK p \in DOMAIN d : IsShared(p) /\ q = Moved(p) BY <1>5
  <2>2. PICK s \in DOMAIN d : IsShared(s) /\ r = Moved(s) BY <1>5
  <2>3. IsPrefix(p, s) BY <1>7, <2>1, <2>2, MovedPrefix
  <2>4. p = s BY <2>3 DEF Shaped, IsDictionary
  <2> QED BY <2>1, <2>2, <2>4
<1>8. DOMAIN e \subseteq Paths BY <1>6
<1> QED BY <1>4, <1>5, <1>6, <1>7, <1>8 DEF Shaped, IsDictionary

Discovered == {"DISCOVER_PORTS", "DISCOVER_MODE", "DISCOVER_HEALTH",
               "DISCOVER_UPSTREAM_TTL"}

\* The paths of the variables for the discovery.
LEMMA DiscoverPaths ==
  \A k \in Discovered :
    /\ k \in Keys /\ VariablePath(k) \in Paths /\ VariablePath(k) # <<>>
    /\ Depth(VariablePath(k)) = 5
    /\ At(VariablePath(k), 1) = "templates" /\ At(VariablePath(k), 2) = "app"
    /\ At(VariablePath(k), 3) = "args" /\ At(VariablePath(k), 4) = "environment"
    /\ At(VariablePath(k), 5) = k
<1>1. \A k \in Discovered : k \in Keys BY DefaultKeys DEF Discovered
<1> QED BY <1>1, KeyPaths, Depths

\* What is to be discovered, unless there is a schedule.
LEMMA DiscoverStage ==
  ASSUME NEW d, NEW e, e = Discover(d)
  PROVE  /\ Shaped(e)
         /\ IsScheduled(d) => \A q : q \notin DOMAIN e
         /\ ~IsScheduled(d) =>
              /\ \A q : q \in DOMAIN e <=> \E k \in Discovered : q = VariablePath(k)
              /\ e[VariablePath("DISCOVER_PORTS")] = GetExposedPorts(d)
<1>1. CASE IsScheduled(d)
  <2>1. e = <<>> BY <1>1 DEF Discover
  <2>2. \A q : q \notin DOMAIN <<>> OBVIOUS
  <2>3. IsFunction(<<>>) BY DEF IsFunction
  <2>4. Shaped(<<>>) BY <2>2, <2>3 DEF Shaped, IsDictionary
  <2> QED BY <1>1, <2>1, <2>2, <2>4
<1>2. CASE ~IsScheduled(d)
  <2> DEFINE L(k, v) == Leaf(VariablePath(k), v)
             ports == GetExposedPorts(d)
             health == Only(d, {p \in DOMAIN d : IsHealth(p)})
  <2>1. e = L("DISCOVER_PORTS", ports) ++ L("DISCOVER_MODE", d[ModePath])
            ++ L("DISCOVER_HEALTH", health) ++ L("DISCOVER_UPSTREAM_TTL", "86400")
    BY <1>2 DEF Discover
  <2>2. \A k \in Discovered : \A v :
          /\ Shaped(L(k, v))
          /\ \A q : q \in DOMAIN L(k, v) <=> q = VariablePath(k)
          /\ L(k, v)[VariablePath(k)] = v
    BY DiscoverPaths, LeafShaped, LeafParts, FitsAny
  <2>3. \A k, m \in Discovered : k # m =>
          /\ VariablePath(k) # VariablePath(m)
          /\ ~IsPrefix(VariablePath(k), VariablePath(m))
    <3> SUFFICES ASSUME NEW k \in Discovered, NEW m \in Discovered, k # m
                 PROVE  /\ VariablePath(k) # VariablePath(m)
                        /\ ~IsPrefix(VariablePath(k), VariablePath(m))
      OBVIOUS
    <3>1. ~IsPrefix(VariablePath(k), VariablePath(m)) BY DiscoverPaths, ApartAt
    <3>2. At(VariablePath(k), 5) = k /\ At(VariablePath(m), 5) = m BY DiscoverPaths
    <3> QED BY <3>1, <3>2
  <2> HIDE DEF L, ports, health
  <2>4. ASSUME NEW a, Shaped(a), NEW k \in Discovered, NEW v,
               \A q \in DOMAIN a : \E m \in Discovered : m # k /\ q = VariablePath(m)
        PROVE  /\ Shaped(a ++ L(k, v))
               /\ \A q : q \in DOMAIN (a ++ L(k, v)) <=> q = VariablePath(k) \/ q \in DOMAIN a
               /\ \A q \in DOMAIN a : (a ++ L(k, v))[q] = a[q]
    <3>1. \A p \in DOMAIN a, q \in DOMAIN L(k, v) : ~IsPrefix(p, q) /\ ~IsPrefix(q, p)
      BY <2>2, <2>3, <2>4
    <3>2. Shaped(L(k, v)) BY <2>2
    <3>3. Shaped(a ++ L(k, v)) BY <2>4, <3>1, <3>2, JoinShaped
    <3>4. \A q : q \in DOMAIN (a ++ L(k, v)) <=> q \in DOMAIN a \/ q \in DOMAIN L(k, v)
      BY JoinParts
    <3>5. \A q \in DOMAIN a : (a ++ L(k, v))[q] = a[q]
      BY <2>2, <2>3, <2>4, JoinParts
    <3> QED BY <2>2, <2>4, <3>3, <3>4, <3>5
  <2> DEFINE e1 == L("DISCOVER_PORTS", ports)
             e2 == e1 ++ L("DISCOVER_MODE", d[ModePath])
             e3 == e2 ++ L("DISCOVER_HEALTH", health)
             e4 == e3 ++ L("DISCOVER_UPSTREAM_TTL", "86400")
  <2>5. e = e4 BY <2>1
  <2>6. \A k : k \in Discovered <=>
          \/ k = "DISCOVER_PORTS" \/ k = "DISCOVER_MODE"
          \/ k = "DISCOVER_HEALTH" \/ k = "DISCOVER_UPSTREAM_TTL"
    BY DEF Discovered
  <2>7. /\ Shaped(e1)
        /\ \A q : q \in DOMAIN e1 <=> q = VariablePath("DISCOVER_PORTS")
        /\ e1[VariablePath("DISCOVER_PORTS")] = ports
    BY <2>2, <2>6
  <2> HIDE DEF e1
  <2>8. /\ Shaped(e2)
        /\ \A q : q \in DOMAIN e2 <=>
             \/ q = VariablePath("DISCOVER_PORTS")
             \/ q = VariablePath("DISCOVER_MODE")
        /\ e2[VariablePath("DISCOVER_PORTS")] = ports
    <3>1. ASSUME NEW k \in Discovered, k \notin {"DISCOVER_PORTS"}, NEW v
          PROVE  /\ Shaped(e1 ++ L(k, v))
                 /\ \A q : q \in DOMAIN (e1 ++ L(k, v)) <=>
                      q = VariablePath(k) \/ q \in DOMAIN e1
                 /\ \A q \in DOMAIN e1 : (e1 ++ L(k, v))[q] = e1[q]
      <4>1. \A q \in DOMAIN e1 : \E m \in Discovered : m # k /\ q = VariablePath(m)
        BY <2>6, <2>7, <3>1
      <4> QED BY <2>4, <2>7, <4>1
    <3>2. /\ Shaped(e2)
          /\ \A q : q \in DOMAIN e2 <=>
               q = VariablePath("DISCOVER_MODE") \/ q \in DOMAIN e1
          /\ \A q \in DOMAIN e1 : e2[q] = e1[q]
      BY <2>6, <3>1
    <3> HIDE DEF e2
    <3> QED BY <2>7, <3>2
  <2> HIDE DEF e2
  <2>9. /\ Shaped(e3)
        /\ \A q : q \in DOMAIN e3 <=>
             \/ q = VariablePath("DISCOVER_PORTS")
             \/ q = VariablePath("DISCOVER_MODE")
             \/ q = VariablePath("DISCOVER_HEALTH")
        /\ e3[VariablePath("DISCOVER_PORTS")] = ports
    <3>1. ASSUME NEW k \in Discovered, k \notin {"DISCOVER_PORTS", "DISCOVER_MODE"}, NEW v
          PROVE  /\ Shaped(e2 ++ L(k, v))
                 /\ \A q : q \in DOMAIN (e2 ++ L(k, v)) <=>
                      q = VariablePath(k) \/ q \in DOMAIN e2
                 /\ \A q \in DOMAIN e2 : (e2 ++ L(k, v))[q] = e2[q]
      <4>1. \A q \in DOMAIN e2 : \E m \in Discovered : m # k /\ q = VariablePath(m)
        BY <2>6, <2>8, <3>1
      <4> QED BY <2>4, <2>8, <4>1
    <3>2. /\ Shaped(e3)
          /\ \A q : q \in DOMAIN e3 <=>
               q = VariablePath("DISCOVER_HEALTH") \/ q \in DOMAIN e2
          /\ \A q \in DOMAIN e2 : e3[q] = e2[q]
      BY <2>6, <3>1
    <3> HIDE DEF e3
    <3> QED BY <2>8, <3>2
  <2> HIDE DEF e3
  <2>10. /\ Shaped(e4)
         /\ \A q : q \in DOMAIN e4 <=>
              \/ q = VariablePath("DISCOVER_PORTS")
              \/ q = VariablePath("DISCOVER_MODE")
              \/ q = VariablePath("DISCOVER_HEALTH")
              \/ q = VariablePath("DISCOVER_UPSTREAM_TTL")
         /\ e4[VariablePath("DISCOVER_PORTS")] = ports
    <3>1. ASSUME NEW k \in Discovered, NEW v,
                 k \notin {"DISCOVER_PORTS", "DISCOVER_MODE", "DISCOVER_HEALTH"}
          PROVE  /\ Shaped(e3 ++ L(k, v))
                 /\ \A q : q \in DOMAIN (e3 ++ L(k, v)) <=>
                      q = VariablePath(k) \/ q \in DOMAIN e3
                 /\ \A q \in DOMAIN e3 : (e3 ++ L(k, v))[q] = e3[q]
      <4>1. \A q \in DOMAIN e3 : \E m \in Discovered : m # k /\ q = VariablePath(m)
        BY <2>6, <2>9, <3>1
      <4> QED BY <2>4, <2>9, <4>1
    <3>2. /\ Shaped(e4)
          /\ \A q : q \in DOMAIN e4 <=>
               q = VariablePath("DISCOVER_UPSTREAM_TTL") \/ q \in DOMAIN e3
          /\ \A q \in DOMAIN e3 : e4[q] = e3[q]
      BY <2>6, <3>1
    <3> HIDE DEF e4
    <3> QED BY <2>9, <3>2
  <2> HIDE DEF e4
  <2>11. \A q : q \in DOMAIN e4 <=> \E k \in Discovered : q = VariablePath(k)
    BY <2>6, <2>10
  <2> QED BY <1>2, <2>5, <2>10, <2>11 DEF ports
<1> QED BY <1>1, <1>2

\* Whether defaults add anything depends on their paths only.
LEMMA SatDomain ==
  ASSUME NEW d, NEW e, NEW f, \A q : q \in DOMAIN e <=> q \in DOMAIN f, Sat(d, e)
  PROVE  Sat(d, f)
BY DEF Sat

\* Defaults that are there stay there when something else is put.
LEMMA PutSat ==
  ASSUME NEW d, NEW p \in Paths, NEW v, NEW e, Shaped(d), Firm(p), IsDictionary(e),
         \A q \in DOMAIN e : ~IsPrefix(p, q), Sat(d, e)
  PROVE  Sat(Put(d, p, v), e)
<1> SUFFICES ASSUME NEW q \in DOMAIN e
             PROVE  Has(Put(d, p, v), q) \/ Above(Put(d, p, v), q)
  BY DEF Sat
<1>1. q \in Paths /\ ~IsPrefix(p, q) BY DEF IsDictionary
<1>2. IsDictionary(d) /\ \A r \in DOMAIN d : r \in Paths /\ r # <<>> /\ Fits(r, d[r])
  BY DEF Shaped, IsDictionary
<1>3. CASE Has(d, q)
  <2>1. \A w : Has(Put(d, p, w), q) BY <1>1, <1>2, <1>3, PutHas
  <2> QED BY <2>1
<1>4. CASE Above(d, q)
  <2>1. PICK r \in DOMAIN d : IsPrefix(r, q) /\ d[r] # EmptyDict BY <1>4 DEF Above
  <2>2. ~IsPrefix(p, r) BY <1>1, <1>2, <2>1, PrefixOrder
  <2>3. ~IsPrefix(r, p) BY <1>2, <2>1, <2>2, PrefixOrder DEF Firm
  <2>4. \A w : r \in DOMAIN Put(d, p, w) /\ Put(d, p, w)[r] = d[r]
    BY <1>2, <2>2, <2>3, PutParts, PrefixOrder
  <2> QED BY <2>1, <2>4 DEF Above
<1> QED BY <1>3, <1>4 DEF Sat

\* A leaf stays, also an empty dictionary if nothing is added to it.
LEMMA MergeLeaf ==
  ASSUME NEW s, NEW d, IsDictionary(s), IsDictionary(d), NEW p \in DOMAIN s,
         \A q \in DOMAIN d : ~IsStrictPrefix(p, q)
  PROVE  p \in DOMAIN Merge(s, d) /\ Merge(s, d)[p] = s[p]
<1>1. p \in Kept(s, d) BY DEF Kept
<1> QED BY <1>1, MergeParts

\* What is beneath the arguments of the app template, but their sidekicks.
IsArgument(r) ==
  /\ r \in Paths /\ Depth(r) >= 5
  /\ At(r, 1) = "templates" /\ At(r, 2) = "app" /\ At(r, 3) = "args"
  /\ At(r, 4) # "sidekicks"

Besides(q) ==
  /\ q \in Paths /\ q # <<>>
  /\ \/ At(q, 1) # "templates"
     \/ Depth(q) >= 2 /\ At(q, 2) # "app"
     \/ Depth(q) >= 3 /\ At(q, 3) # "args"

\* Arguments are apart from what is besides them and from the sidekicks.
LEMMA ArgumentApart ==
  /\ \A q, r : Besides(q) /\ IsArgument(r) => ~IsPrefix(q, r) /\ ~IsPrefix(r, q)
  /\ \A r : IsArgument(r) => ~IsPrefix(SidekicksPath, r) /\ ~IsPrefix(r, SidekicksPath)
  /\ \A q : Besides(q) => ~IsPrefix(SidekicksPath, q) /\ ~IsPrefix(q, SidekicksPath)
<1>1. /\ SidekicksPath \in Paths /\ SidekicksPath # <<>> /\ Depth(SidekicksPath) = 4
      /\ At(SidekicksPath, 1) = "templates" /\ At(SidekicksPath, 2) = "app"
      /\ At(SidekicksPath, 3) = "args" /\ At(SidekicksPath, 4) = "sidekicks"
  BY AppPaths, Depths
<1>2. \A r : IsArgument(r) =>
        /\ r \in Paths /\ r # <<>> /\ Depth(r) >= 4 /\ Depth(r) >= 3 /\ Depth(r) >= 2
        /\ At(r, 1) = "templates" /\ At(r, 2) = "app" /\ At(r, 3) = "args"
        /\ At(r, 4) # "sidekicks"
  BY Depths DEF IsArgument
<1>3. ASSUME NEW q, NEW r, Besides(q), IsArgument(r)
      PROVE  ~IsPrefix(q, r) /\ ~IsPrefix(r, q)
  BY <1>2, <1>3, ApartAt DEF Besides
<1>4. \A r : IsArgument(r) => ~IsPrefix(SidekicksPath, r) /\ ~IsPrefix(r, SidekicksPath)
  BY <1>1, <1>2, ApartAt
<1>5. ASSUME NEW q, Besides(q)
      PROVE  ~IsPrefix(SidekicksPath, q) /\ ~IsPrefix(q, SidekicksPath)
  BY <1>1, <1>5, ApartAt DEF Besides
<1> QED BY <1>3, <1>4, <1>5

\* What is merged with the arguments.
LEMMA ArgumentParts ==
  ASSUME NEW d, Shaped(d)
  PROVE  /\ \A q \in DOMAIN GeneralEnvironment(d) : IsArgument(q)
         /\ \A q \in DOMAIN Discover(d) : IsArgument(q)
         /\ IsArgument(ServicePath("app", "container_stop_sec"))
<1>1. \A q \in DOMAIN GeneralEnvironment(d) : IsArgument(q)
  <2> SUFFICES ASSUME NEW q \in DOMAIN GeneralEnvironment(d) PROVE IsArgument(q)
    OBVIOUS
  <2>1. PICK p \in DOMAIN d : IsShared(p) /\ q = Moved(p) BY EnvironmentStage
  <2>2. /\ Moved(p) \in Paths /\ Depth(p) \in Nat
        /\ Depth(Moved(p)) = Depth(p) + 3
        /\ At(Moved(p), 1) = "templates" /\ At(Moved(p), 2) = "app"
        /\ At(Moved(p), 3) = "args" /\ At(Moved(p), 4) = "environment"
    BY <2>1, MovedAt
  <2>3. Depth(p) >= 2 BY <2>1 DEF IsShared
  <2> QED BY <2>1, <2>2, <2>3 DEF IsArgument
<1>2. \A q \in DOMAIN Discover(d) : IsArgument(q)
  <2>1. \A k \in Discovered : IsArgument(VariablePath(k))
    BY DiscoverPaths DEF IsArgument
  <2>2. \A q \in DOMAIN Discover(d) : \E k \in Discovered : q = VariablePath(k)
    BY DiscoverStage
  <2> QED BY <2>1, <2>2
<1>3. IsArgument(ServicePath("app", "container_stop_sec"))
  <2>1. "app" \in Keys /\ "container_stop_sec" \in Keys BY DefaultKeys
  <2> QED BY <2>1, KeyPaths DEF IsArgument
<1> QED BY <1>1, <1>2, <1>3

AppFixed(d) ==
  /\ Sat(d, GeneralEnvironment(d))
  /\ Sat(d, Discover(d))
  /\ SidekicksPath \in DOMAIN d /\ d[SidekicksPath] = Sidekicks(d)
  /\ \A v : Sat(d, Leaf(ServicePath("app", "container_stop_sec"), v))

\* Fixed arguments are not changed.
LEMMA AppSame ==
  ASSUME NEW d, Shaped(d), AppFixed(d)
  PROVE  ApplyAppArguments(d) = d
<1>1. IsDictionary(d) BY DEF Shaped
<1>2. Merge(d, GeneralEnvironment(d)) = d
  <2>1. IsDictionary(GeneralEnvironment(d)) BY EnvironmentStage DEF Shaped
  <2> QED BY <1>1, <2>1, MergeSame DEF AppFixed
<1>3. Merge(d, Discover(d)) = d
  <2>1. IsDictionary(Discover(d)) BY DiscoverStage DEF Shaped
  <2> QED BY <1>1, <2>1, MergeSame DEF AppFixed
<1>4. Put(d, SidekicksPath, Sidekicks(d)) = d
  BY <1>1, AppPaths, PutSame DEF AppFixed
<1>5. \A v : Merge(d, Leaf(ServicePath("app", "container_stop_sec"), v)) = d
  <2>1. "app" \in Keys /\ "container_stop_sec" \in Keys BY DefaultKeys
  <2>2. \A p \in Paths : \A v : IsDictionary(Leaf(p, v)) BY LeafDictionary
  <2>3. \A v : IsDictionary(Leaf(ServicePath("app", "container_stop_sec"), v))
    BY <2>1, <2>2, KeyPaths
  <2> QED BY <1>1, <2>3, MergeSame DEF AppFixed
<1> QED BY <1>2, <1>3, <1>4, <1>5 DEF ApplyAppArguments, GetAppEnvironment

AnnouncedPath == <<"environment", "DISCOVER_PORTS">>

\* The path of the ports that the deployment's environment announces.
LEMMA AnnouncedAt ==
  /\ IsShared(AnnouncedPath) /\ Depth(AnnouncedPath) = 2
  /\ At(AnnouncedPath, 2) = "DISCOVER_PORTS"
  /\ AnnouncedPath \in Paths /\ AnnouncedPath # <<>> /\ At(AnnouncedPath, 1) = "environment"
<1>1. AnnouncedPath \in Paths BY KeysAssumption DEF AnnouncedPath, Paths, NamedKeys
<1>2. /\ Depth(AnnouncedPath) = 2 /\ At(AnnouncedPath, 1) = "environment"
      /\ At(AnnouncedPath, 2) = "DISCOVER_PORTS"
  BY DEF AnnouncedPath, Depth, At
<1> QED BY <1>1, <1>2, Depths DEF IsShared

\* Variables of the environment that are moved to DISCOVER_PORTS or beneath.
LEMMA AnnouncedMoved ==
  ASSUME NEW d, Shaped(d), ~Has(d, AnnouncedPath), NEW q \in DOMAIN GeneralEnvironment(d)
  PROVE  ~IsPrefix(VariablePath("DISCOVER_PORTS"), q)
<1> SUFFICES ASSUME IsPrefix(VariablePath("DISCOVER_PORTS"), q) PROVE FALSE
  OBVIOUS
<1>1. PICK p \in DOMAIN d : IsShared(p) /\ q = Moved(p) BY EnvironmentStage
<1>2. /\ Moved(p) \in Paths /\ Depth(p) \in Nat
      /\ \A i \in 2 .. Depth(p) : At(Moved(p), i + 3) = At(p, i)
  BY <1>1, MovedAt
<1>3. p \in Paths /\ Depth(p) >= 2 /\ At(p, 1) = "environment"
  BY <1>1 DEF IsShared
<1>4. At(q, 5) = At(p, 2)
  <2>1. 2 \in 2 .. Depth(p) /\ 2 + 3 = 5 BY <1>2, <1>3
  <2> QED BY <1>1, <1>2, <2>1
<1>5. At(q, 5) = "DISCOVER_PORTS"
  <2>1. "DISCOVER_PORTS" \in Discovered BY DEF Discovered
  <2>2. q \in Paths BY <1>1, <1>2
  <2> QED BY <2>1, <2>2, DiscoverPaths, Elements
<1>6. \A i : i \in 1 .. 2 <=> i = 1 \/ i = 2 OBVIOUS
<1>7. \A i \in 1 .. 2 : At(AnnouncedPath, i) = At(p, i)
  BY <1>3, <1>4, <1>5, <1>6, AnnouncedAt
<1>8. IsPrefix(AnnouncedPath, p) BY <1>3, <1>7, AnnouncedAt, PrefixAt
<1> QED BY <1>1, <1>8 DEF Has

\* The arguments of the app template: only they change, and they are fixed.
LEMMA AppStage ==
  ASSUME NEW u, Shaped(u), Has(u, AppPath), Tasks(u), NEW a, a = ApplyAppArguments(u)
  PROVE  /\ Shaped(a)
         /\ \A q : Besides(q) => Agree(a, u, q)
         /\ \A p \in Paths : ~IsPrefix(SidekicksPath, p) /\ Has(u, p) => Has(a, p)
         /\ \A p \in DOMAIN u :
              u[p] # EmptyDict /\ ~IsPrefix(SidekicksPath, p) =>
                p \in DOMAIN a /\ a[p] = u[p]
         /\ KeysAt(a, TemplatesPath) = KeysAt(u, TemplatesPath)
         /\ ~Has(u, AnnouncedPath) /\ VariablePath("DISCOVER_PORTS") \in DOMAIN u =>
              /\ VariablePath("DISCOVER_PORTS") \in DOMAIN a
              /\ a[VariablePath("DISCOVER_PORTS")] = u[VariablePath("DISCOVER_PORTS")]
         /\ /\ ~IsScheduled(u)
            /\ ~Has(u, AnnouncedPath) /\ ~Has(u, VariablePath("DISCOVER_PORTS"))
            => /\ VariablePath("DISCOVER_PORTS") \in DOMAIN a
               /\ a[VariablePath("DISCOVER_PORTS")] = GetExposedPorts(u)
         /\ AppFixed(a)
<1> DEFINE E == GeneralEnvironment(u)
           D == Discover(u)
           l == Merge(u, E)
           n == Merge(l, D)
           s == Put(n, SidekicksPath, Sidekicks(u))
           SP == ServicePath("app", "container_stop_sec")
           C == Leaf(SP, Seconds(u[StopPath]))
           VP == VariablePath("DISCOVER_PORTS")
<1>1. a = Merge(s, C) BY DEF ApplyAppArguments, GetAppEnvironment
<1>2. Shaped(E) /\ Shaped(D) BY EnvironmentStage, DiscoverStage
<1>3. /\ \A q \in DOMAIN E : IsArgument(q)
      /\ \A q \in DOMAIN D : IsArgument(q)
      /\ IsArgument(SP)
  BY ArgumentParts
<1>4. Shaped(C) /\ \A q : q \in DOMAIN C <=> q = SP
  <2>1. SP \in Paths /\ SP # <<>> BY <1>3, Depths DEF IsArgument
  <2>2. \A v : Fits(SP, v) BY FitsAny
  <2>3. \A v : Shaped(Leaf(SP, v)) /\ \A q : q \in DOMAIN Leaf(SP, v) <=> q = SP
    BY <2>1, <2>2, LeafShaped, LeafParts
  <2> QED BY <2>3
<1>5. SidekicksPath \in Paths /\ SidekicksPath # <<>> /\ Firm(SidekicksPath)
  BY AppPaths, FirmPaths, Depths
<1> HIDE DEF SP
<1>6. Shaped(l) /\ Grows(l, u) /\ Sat(l, E)
  BY <1>2, MergeShaped, MergeGrows, MergeSat DEF Shaped
<1>7. \A q \in Paths : (\A r \in DOMAIN E : ~IsPrefix(q, r)) => Agree(l, u, q)
  BY <1>2, MergeElsewhere DEF Shaped
<1>20. \A p \in DOMAIN u : (\A q \in DOMAIN E : ~IsStrictPrefix(p, q)) =>
         p \in DOMAIN l /\ l[p] = u[p]
  BY <1>2, MergeLeaf DEF Shaped
<1> HIDE DEF l
<1>8. Shaped(n) /\ Grows(n, l) /\ Sat(n, D)
  BY <1>2, <1>6, MergeShaped, MergeGrows, MergeSat DEF Shaped
<1>9. \A q \in Paths : (\A r \in DOMAIN D : ~IsPrefix(q, r)) => Agree(n, l, q)
  BY <1>2, <1>6, MergeElsewhere DEF Shaped
<1>21. \A p \in DOMAIN l : (\A q \in DOMAIN D : ~IsStrictPrefix(p, q)) =>
         p \in DOMAIN n /\ n[p] = l[p]
  BY <1>2, <1>6, MergeLeaf DEF Shaped
<1>22. \A p \in DOMAIN D :
         (\A q \in DOMAIN l : ~IsPrefix(p, q) /\ (IsPrefix(q, p) => l[q] = EmptyDict)) =>
           p \in DOMAIN n /\ n[p] = D[p]
  <2> SUFFICES ASSUME NEW p \in DOMAIN D,
                      \A q \in DOMAIN l :
                        ~IsPrefix(p, q) /\ (IsPrefix(q, p) => l[q] = EmptyDict)
               PROVE  p \in DOMAIN n /\ n[p] = D[p]
    OBVIOUS
  <2>1. IsDictionary(l) /\ IsDictionary(D) BY <1>2, <1>6 DEF Shaped
  <2>2. p \in Added(l, D) BY DEF Added
  <2>3. p \in Paths BY <2>1 DEF IsDictionary
  <2>4. p \notin DOMAIN l BY <2>3, PrefixOrder
  <2> QED BY <2>1, <2>2, <2>4, MergeParts
<1> HIDE DEF n
<1>10. /\ Shaped(s) /\ SidekicksPath \in DOMAIN s
       /\ s[SidekicksPath] = Sidekicks(u)
       /\ \A p : p \in DOMAIN s <=>
            \/ p = SidekicksPath
            \/ p \in DOMAIN n /\ ~IsPrefix(SidekicksPath, p) /\ ~IsPrefix(p, SidekicksPath)
       /\ \A p \in DOMAIN s : p = SidekicksPath \/ s[p] = n[p]
       /\ \A q \in Paths :
            ~IsPrefix(SidekicksPath, q) /\ ~IsPrefix(q, SidekicksPath) => Agree(s, n, q)
       /\ \A p \in Paths : Has(n, p) /\ ~IsPrefix(SidekicksPath, p) => Has(s, p)
       /\ \A e : /\ IsDictionary(e) /\ Sat(n, e)
                 /\ \A q \in DOMAIN e : ~IsPrefix(SidekicksPath, q)
            => Sat(s, e)
  <2> SUFFICES ASSUME NEW v, NEW b, b = Put(n, SidekicksPath, v)
               PROVE
       /\ Shaped(b) /\ SidekicksPath \in DOMAIN b
       /\ b[SidekicksPath] = v
       /\ \A p : p \in DOMAIN b <=>
            \/ p = SidekicksPath
            \/ p \in DOMAIN n /\ ~IsPrefix(SidekicksPath, p) /\ ~IsPrefix(p, SidekicksPath)
       /\ \A p \in DOMAIN b : p = SidekicksPath \/ b[p] = n[p]
       /\ \A q \in Paths :
            ~IsPrefix(SidekicksPath, q) /\ ~IsPrefix(q, SidekicksPath) => Agree(b, n, q)
       /\ \A p \in Paths : Has(n, p) /\ ~IsPrefix(SidekicksPath, p) => Has(b, p)
       /\ \A e : /\ IsDictionary(e) /\ Sat(n, e)
                 /\ \A q \in DOMAIN e : ~IsPrefix(SidekicksPath, q)
            => Sat(b, e)
    BY DEF s
  <2>1. IsDictionary(n) BY <1>8 DEF Shaped
  <2>2. Fits(SidekicksPath, v) BY FitsAny
  <2>3. Shaped(b) /\ SidekicksPath \in DOMAIN b /\ b[SidekicksPath] = v
    BY <1>5, <1>8, <2>2, PutStage
  <2>4. /\ \A p : p \in DOMAIN b <=>
            \/ p = SidekicksPath
            \/ p \in DOMAIN n /\ ~IsPrefix(SidekicksPath, p) /\ ~IsPrefix(p, SidekicksPath)
        /\ \A p \in DOMAIN b : p = SidekicksPath \/ b[p] = n[p]
    BY <1>5, <2>1, PutTo
  <2>5. \A q \in Paths :
          ~IsPrefix(SidekicksPath, q) /\ ~IsPrefix(q, SidekicksPath) =>
            Agree(Put(n, SidekicksPath, v), n, q)
    BY <1>5, <2>1, PutElsewhere
  <2>6. \A p \in Paths : Has(n, p) /\ ~IsPrefix(SidekicksPath, p) =>
          Has(Put(n, SidekicksPath, v), p)
    BY <1>5, <2>1, PutHas
  <2>7. ASSUME NEW e, IsDictionary(e), Sat(n, e), \A q \in DOMAIN e : ~IsPrefix(SidekicksPath, q)
        PROVE  Sat(Put(n, SidekicksPath, v), e)
    BY <1>5, <1>8, <2>7, PutSat
  <2> QED BY <2>3, <2>4, <2>5, <2>6, <2>7
<1> HIDE DEF s
<1>11. Shaped(a) /\ Grows(a, s)
  BY <1>1, <1>4, <1>10, MergeShaped, MergeGrows DEF Shaped
<1>12. /\ \A q \in Paths : ~IsPrefix(q, SP) => Agree(a, s, q)
       /\ Sat(a, C)
  <2>1. IsDictionary(s) /\ IsDictionary(C) BY <1>4, <1>10 DEF Shaped
  <2>2. \A q \in Paths : ~IsPrefix(q, SP) => Agree(Merge(s, C), s, q)
    BY <1>4, <2>1, MergeElsewhere
  <2>3. Sat(Merge(s, C), C) BY <2>1, MergeSat
  <2> QED BY <1>1, <2>2, <2>3
<1>13. \A q : Besides(q) => Agree(a, u, q)
  <2> SUFFICES ASSUME NEW q, Besides(q) PROVE Agree(a, u, q)
    OBVIOUS
  <2>1. q \in Paths /\ ~IsPrefix(SidekicksPath, q) /\ ~IsPrefix(q, SidekicksPath)
    BY ArgumentApart DEF Besides
  <2>2. \A r : IsArgument(r) => ~IsPrefix(q, r) BY ArgumentApart
  <2>3. Agree(l, u, q) BY <1>3, <1>7, <2>1, <2>2
  <2>4. Agree(n, l, q) BY <1>3, <1>9, <2>1, <2>2
  <2>5. Agree(s, n, q) BY <1>10, <2>1
  <2>6. Agree(a, s, q) BY <1>3, <1>12, <2>1, <2>2
  <2> QED BY <2>3, <2>4, <2>5, <2>6, AgreeTrans
<1>14. \A p \in Paths : ~IsPrefix(SidekicksPath, p) /\ Has(u, p) => Has(a, p)
  BY <1>6, <1>8, <1>10, <1>11 DEF Grows
<1>15. \A p \in DOMAIN u :
         u[p] # EmptyDict /\ ~IsPrefix(SidekicksPath, p) =>
           p \in DOMAIN a /\ a[p] = u[p]
  <2> SUFFICES ASSUME NEW p \in DOMAIN u, u[p] # EmptyDict, ~IsPrefix(SidekicksPath, p)
               PROVE  p \in DOMAIN a /\ a[p] = u[p]
    OBVIOUS
  <2>1. p \in Paths /\ p # <<>> /\ Fits(p, u[p]) BY DEF Shaped, IsDictionary
  <2>2. ~IsPrefix(p, SidekicksPath) BY <1>5, <2>1, PrefixOrder DEF Firm
  <2>3. p \in DOMAIN n /\ n[p] = u[p] BY <1>6, <1>8 DEF Grows
  <2>4. p \in DOMAIN s /\ s[p] = u[p] BY <1>5, <1>10, <2>2, <2>3, PrefixOrder
  <2> QED BY <1>11, <2>4 DEF Grows
<1>16. KeysAt(a, TemplatesPath) = KeysAt(u, TemplatesPath)
  <2>1. IsDictionary(a) /\ IsDictionary(u) BY <1>11 DEF Shaped
  <2>2. ASSUME NEW k \in KeysAt(u, TemplatesPath) PROVE k \in KeysAt(a, TemplatesPath)
    <3> DEFINE q == TemplatesPath \o <<k>>
    <3>1. k \in Keys /\ Has(u, q) BY <2>1, ShortPaths, KeysHas
    <3>2. q \in Paths /\ Len(q) = Len(TemplatesPath) + 1
      BY <3>1, ShortPaths DEF Paths
    <3> HIDE DEF q
    <3>3. ~IsPrefix(SidekicksPath, q)
      <4>1. Depth(TemplatesPath) = 1 /\ Depth(SidekicksPath) = 4
        BY ShortPaths, AppPaths
      <4>2. Depth(q) = 2 BY <3>2, <4>1 DEF Depth
      <4> QED BY <1>5, <3>2, <4>1, <4>2, Elements
    <3>4. Has(a, q) BY <1>14, <3>1, <3>2, <3>3
    <3> QED BY <2>1, <3>1, <3>4, ShortPaths, KeysHas DEF q
  <2>3. ASSUME NEW k \in KeysAt(a, TemplatesPath) PROVE k \in KeysAt(u, TemplatesPath)
    <3>1. PICK p \in DOMAIN a : Depth(p) >= 2 /\ At(p, 1) = "templates" /\ At(p, 2) = k
      BY <2>1, TemplateKeys
    <3>2. p \in Paths /\ p # <<>> BY <1>11 DEF Shaped, IsDictionary
    <3>3. CASE k # "app"
      <4>1. Besides(p) BY <3>1, <3>2, <3>3 DEF Besides
      <4>2. Agree(a, u, p) BY <1>13, <4>1
      <4>3. p \in DOMAIN u BY <3>2, <4>2, PrefixOrder DEF Agree
      <4> QED BY <2>1, <3>1, <4>3, TemplateKeys
    <3>4. CASE k = "app"
      <4>1. PICK r \in DOMAIN u : IsPrefix(AppPath, r) BY DEF Has
      <4>2. r \in Paths /\ AppPath # <<>> BY <2>1, ShortPaths, Depths DEF IsDictionary
      <4>3. /\ AppPath \in Paths /\ Depth(AppPath) = 2
            /\ At(AppPath, 1) = "templates" /\ At(AppPath, 2) = "app"
        BY ShortPaths
      <4>4. Depth(r) >= 2 /\ At(r, 1) = "templates" /\ At(r, 2) = "app"
        BY <4>1, <4>2, <4>3, Elements
      <4> QED BY <2>1, <3>4, <4>4, TemplateKeys
    <3> QED BY <3>3, <3>4
  <2> QED BY <2>2, <2>3
<1>17. IsArgument(VP) /\ VP \in Paths /\ VP # <<>> /\ Depth(VP) = 5 /\ Firm(VP)
       /\ ~IsPrefix(VP, SP) /\ "DISCOVER_PORTS" \in Discovered
  <2>1. "DISCOVER_PORTS" \in Discovered BY DEF Discovered
  <2>2. /\ "DISCOVER_PORTS" \in Keys /\ VP \in Paths /\ VP # <<>> /\ Depth(VP) = 5
        /\ At(VP, 1) = "templates" /\ At(VP, 2) = "app"
        /\ At(VP, 3) = "args" /\ At(VP, 4) = "environment"
    BY <2>1, DiscoverPaths
  <2>3. "app" \in Keys /\ "container_stop_sec" \in Keys BY DefaultKeys
  <2>4. SP \in Paths /\ SP # <<>> /\ Depth(SP) = 5 /\ At(SP, 4) = "service"
    BY <2>3, KeyPaths, Depths DEF SP
  <2>5. ~IsPrefix(VP, SP) BY <2>2, <2>4, ApartAt
  <2> QED BY <2>1, <2>2, <2>5, FirmPaths DEF IsArgument
<1>18. ASSUME ~Has(u, AnnouncedPath)
       PROVE  \A q \in DOMAIN E : ~IsPrefix(VP, q)
  BY <1>18, AnnouncedMoved
<1> HIDE DEF VP
<1>23. VP \in DOMAIN n => VP \in DOMAIN a /\ a[VP] = n[VP]
  <2>1. ~IsPrefix(SidekicksPath, VP) /\ ~IsPrefix(VP, SidekicksPath)
    BY <1>17, ArgumentApart
  <2>2. Agree(a, s, VP) BY <1>12, <1>17
  <2>3. Agree(s, n, VP) BY <1>10, <1>17, <2>1
  <2> QED BY <1>17, <2>2, <2>3, PrefixOrder DEF Agree
<1>24. ~Has(u, AnnouncedPath) /\ VP \in DOMAIN u => VP \in DOMAIN a /\ a[VP] = u[VP]
  <2> SUFFICES ASSUME ~Has(u, AnnouncedPath), VP \in DOMAIN u
               PROVE  VP \in DOMAIN a /\ a[VP] = u[VP]
    OBVIOUS
  <2>1. VP \in DOMAIN l /\ l[VP] = u[VP]
    BY <1>18, <1>20 DEF IsStrictPrefix
  <2>2. \A q \in DOMAIN D : ~IsStrictPrefix(VP, q)
    <3> SUFFICES ASSUME NEW q \in DOMAIN D, IsStrictPrefix(VP, q) PROVE FALSE
      OBVIOUS
    <3>1. PICK k \in Discovered : q = VariablePath(k) BY DiscoverStage
    <3>2. q \in Paths /\ Depth(q) = 5 BY <3>1, DiscoverPaths
    <3>3. IsPrefix(VP, q) /\ VP # q BY DEF IsStrictPrefix
    <3> QED BY <1>17, <3>2, <3>3, Elements
  <2>3. VP \in DOMAIN n /\ n[VP] = l[VP] BY <1>21, <2>1, <2>2
  <2> QED BY <1>23, <2>1, <2>3
<1>25. ~IsScheduled(u) /\ ~Has(u, AnnouncedPath) /\ ~Has(u, VP) =>
         VP \in DOMAIN a /\ a[VP] = GetExposedPorts(u)
  <2> SUFFICES ASSUME ~IsScheduled(u), ~Has(u, AnnouncedPath), ~Has(u, VP)
               PROVE  VP \in DOMAIN a /\ a[VP] = GetExposedPorts(u)
    OBVIOUS
  <2>1. VP \in DOMAIN D /\ D[VP] = GetExposedPorts(u)
    BY <1>17, DiscoverStage DEF VP
  <2>2. \A q \in DOMAIN l : q \in DOMAIN u \/ q \in DOMAIN E
    BY <1>2, MergeParts DEF l, Shaped
  <2>3. \A q \in DOMAIN l : ~IsPrefix(VP, q) BY <1>18, <2>2 DEF Has
  <2>4. \A q \in DOMAIN l : IsPrefix(q, VP) => l[q] = EmptyDict
    <3> SUFFICES ASSUME NEW q \in DOMAIN l, IsPrefix(q, VP), l[q] # EmptyDict PROVE FALSE
      OBVIOUS
    <3>1. q \in Paths /\ q # <<>> /\ Fits(q, l[q]) BY <1>6 DEF Shaped, IsDictionary
    <3>2. q = VP BY <1>17, <3>1 DEF Firm
    <3> QED BY <1>17, <2>3, <3>2, PrefixOrder
  <2>5. VP \in DOMAIN n /\ n[VP] = D[VP] BY <1>22, <2>1, <2>3, <2>4
  <2> QED BY <1>23, <2>1, <2>5
<1>26. AppFixed(a)
  <2>1. Sat(a, E) /\ Sat(a, D)
    <3>1. IsDictionary(E) /\ IsDictionary(D) BY <1>2 DEF Shaped
    <3>2. Extends(n, l) /\ Extends(a, s) BY <1>8, <1>11 DEF Grows, Extends
    <3>3. Sat(n, E) /\ Sat(n, D) BY <1>6, <1>8, <3>1, <3>2, ExtendsSat
    <3>4. Sat(s, E) /\ Sat(s, D)
      <4>1. \A q : IsArgument(q) => ~IsPrefix(SidekicksPath, q) BY ArgumentApart
      <4> QED BY <1>3, <1>10, <3>1, <3>3, <4>1
    <3> QED BY <3>1, <3>2, <3>4, ExtendsSat
  <2>2. Sat(a, GeneralEnvironment(a))
    <3>1. \A p : IsShared(p) => Besides(p)
      BY Depths DEF IsShared, Besides
    <3>2. \A p : IsShared(p) => (p \in DOMAIN a <=> p \in DOMAIN u)
      BY <1>13, <3>1, PrefixOrder DEF Agree, Besides
    <3>3. \A q : q \in DOMAIN GeneralEnvironment(a) <=>
            \E p \in DOMAIN a : IsShared(p) /\ q = Moved(p)
      BY <1>11, EnvironmentStage
    <3>4. \A q : q \in DOMAIN E <=> \E p \in DOMAIN u : IsShared(p) /\ q = Moved(p)
      BY EnvironmentStage
    <3>5. \A q : q \in DOMAIN E <=> q \in DOMAIN GeneralEnvironment(a)
      BY <3>2, <3>3, <3>4
    <3> QED BY <2>1, <3>5, SatDomain
  <2>3. Sat(a, Discover(a))
    <3>1. Besides(SchedulePath) /\ SchedulePath \in Paths
      BY ShortPaths, Depths DEF Besides
    <3>2. IsScheduled(a) <=> IsScheduled(u)
      BY <1>13, <3>1, PrefixOrder DEF Agree, IsScheduled
    <3>3. \A q : q \in DOMAIN D <=> ~IsScheduled(u) /\ \E k \in Discovered : q = VariablePath(k)
      BY DiscoverStage
    <3>4. \A q : q \in DOMAIN Discover(a) <=>
            ~IsScheduled(a) /\ \E k \in Discovered : q = VariablePath(k)
      BY DiscoverStage
    <3>5. \A q : q \in DOMAIN D <=> q \in DOMAIN Discover(a) BY <3>2, <3>3, <3>4
    <3> QED BY <2>1, <3>5, SatDomain
  <2>4. SidekicksPath \in DOMAIN a /\ a[SidekicksPath] = Sidekicks(u)
    <3>1. Agree(a, s, SidekicksPath) BY <1>3, <1>5, <1>12, ArgumentApart
    <3> QED BY <1>5, <1>10, <3>1, PrefixOrder DEF Agree
  <2>5. Sidekicks(a) = Sidekicks(u)
    <3>1. ASSUME NEW t \in KeysAt(u, TemplatesPath), t # "app"
          PROVE  a[TemplatePath(t, "enabled")] = u[TemplatePath(t, "enabled")]
      <4>1. TemplatePath(t, "enabled") \in DOMAIN u BY DEF Tasks
      <4>2. t \in Keys /\ "enabled" \in Keys BY KeysInKeys, DefaultKeys DEF Shaped
      <4>3. /\ TemplatePath(t, "enabled") \in Paths
            /\ Besides(TemplatePath(t, "enabled"))
        BY <3>1, <4>2, KeyPaths, Depths DEF Besides
      <4> QED BY <1>13, <4>1, <4>3, PrefixOrder DEF Agree
    <3> QED BY <1>16, <3>1 DEF Sidekicks
  <2>6. \A v : Sat(a, Leaf(SP, v))
    <3> TAKE v
    <3>1. \A q : q \in DOMAIN C <=> q \in DOMAIN Leaf(SP, v) BY <1>4, LeafParts
    <3> QED BY <1>12, <3>1, SatDomain
  <2> QED BY <2>2, <2>3, <2>4, <2>5, <2>6 DEF AppFixed, SP
<1> QED BY <1>11, <1>13, <1>14, <1>15, <1>16, <1>24, <1>25, <1>26 DEF VP

-----------------------------------------------------------------------------
(* The steps together.                                                     *)

EnabledPath == TemplatePath("app", "enabled")

\* The elements of the path to enabled.
LEMMA EnabledAt ==
  /\ EnabledPath \in Paths /\ EnabledPath # <<>> /\ Depth(EnabledPath) = 3
  /\ At(EnabledPath, 1) = "templates" /\ At(EnabledPath, 2) = "app"
  /\ At(EnabledPath, 3) = "enabled"
  /\ EnabledPath \notin {NamePath, ImagePath}
  /\ Atomic(EnabledPath)
<1>1. "app" \in Keys /\ "enabled" \in Keys BY DefaultKeys
<1>2. /\ EnabledPath \in Paths /\ Depth(EnabledPath) = 3
      /\ At(EnabledPath, 1) = "templates" /\ At(EnabledPath, 2) = "app"
      /\ At(EnabledPath, 3) = "enabled"
  BY <1>1, KeyPaths DEF EnabledPath
<1>3. Atomic(EnabledPath) BY <1>1, AtomicPaths DEF EnabledPath
<1>4. EnabledPath # NamePath /\ EnabledPath # ImagePath
  BY <1>2, NamedPaths, AppPaths
<1> QED BY <1>2, <1>3, <1>4, Depths

\* The user disabled the app template.
Disabled(x) == EnabledPath \in DOMAIN x /\ ~Truthy(x[EnabledPath])

\* An app template is there by default.
LEMMA AppByDefault ==
  ASSUME NEW d, Shaped(d), \A r \in DOMAIN DEFAULT_DEFAULTS : Has(d, r)
  PROVE  Has(d, AppPath) /\ "app" \in KeysAt(d, TemplatesPath)
<1> DEFINE V == VariablePath("DISCOVER_UPSTREAM_TTL")
<1>1. V \in DOMAIN DEFAULT_DEFAULTS BY General
<1>2. PICK p \in DOMAIN d : IsPrefix(V, p) BY <1>1 DEF Has
<1>3. "DISCOVER_UPSTREAM_TTL" \in Discovered BY DEF Discovered
<1>4. /\ V \in Paths /\ V # <<>> /\ Depth(V) = 5
      /\ At(V, 1) = "templates" /\ At(V, 2) = "app"
  BY <1>3, DiscoverPaths
<1> HIDE DEF V
<1>5. IsDictionary(d) /\ p \in Paths BY DEF Shaped, IsDictionary
<1>6. Depth(p) >= 2 /\ At(p, 1) = "templates" /\ At(p, 2) = "app"
  BY <1>2, <1>4, <1>5, Elements, Depths
<1>7. "app" \in KeysAt(d, TemplatesPath) BY <1>5, <1>6, TemplateKeys
<1>8. \A i : i \in 1 .. 2 <=> i = 1 \/ i = 2 OBVIOUS
<1>9. IsPrefix(AppPath, p) BY <1>5, <1>6, <1>8, ShortPaths, PrefixAt
<1> QED BY <1>7, <1>9 DEF Has

\* All the defaults of a deployment.
LEMMA DefaultStage ==
  ASSUME NEW x, Shaped(x), NEW w, w = WithDefaults(x)
  PROVE  /\ Shaped(w) /\ Tasks(w)
         /\ IsScheduled(w) <=> IsScheduled(x)
         /\ \A p \in Paths : Has(x, p) => Has(w, p)
         /\ \A p \in DOMAIN x :
              x[p] # EmptyDict /\ (p \notin {NamePath, ImagePath} \/ x[p] \notin FormatFields) =>
                p \in DOMAIN w /\ w[p] = x[p]
         /\ \A r \in DOMAIN DEFAULT_DEFAULTS : Has(w, r)
         /\ IsGitQuay(w) => \A r \in DOMAIN GIT_QUAY_DEFAULTS : Has(w, r)
         /\ \A q \in Paths :
              /\ q # <<>>
              /\ \A r : DefaultLeaf(r) => ~IsPrefix(q, r)
              /\ At(q, 1) # "templates" \/ Depth(q) >= 4
              => Agree(w, x, q)
         /\ AppEnabled(w) <=> ~Disabled(x)
         /\ PlainNames(x) =>
              /\ PlainNames(w)
              /\ IsGitQuay(w) => \A p \in {NamePath, ImagePath} :
                   p \in DOMAIN w => w[p] \notin FormatFields
<1> DEFINE g == GeneralDefaults(x)
<1>1. w = TemplateDefaults(g) BY DEF WithDefaults
<1>2. /\ Shaped(g)
      /\ \A p \in Paths : Has(x, p) => Has(g, p)
      /\ \A p \in DOMAIN x :
           x[p] # EmptyDict /\ (p \notin {NamePath, ImagePath} \/ x[p] \notin FormatFields) =>
             p \in DOMAIN g /\ g[p] = x[p]
      /\ \A r \in DOMAIN DEFAULT_DEFAULTS : Has(g, r)
      /\ IsGitQuay(g) => \A r \in DOMAIN GIT_QUAY_DEFAULTS : Has(g, r)
      /\ \A q \in Paths : (\A r : DefaultLeaf(r) => ~IsPrefix(q, r)) => Agree(g, x, q)
      /\ PlainNames(x) =>
           /\ PlainNames(g)
           /\ IsGitQuay(g) => \A p \in {NamePath, ImagePath} :
                p \in DOMAIN g => g[p] \notin FormatFields
  BY GeneralStage
<1> HIDE DEF g
<1>3. /\ Shaped(w) /\ Grows(w, g)
      /\ \A q \in Paths :
           q # <<>> /\ (At(q, 1) # "templates" \/ Depth(q) >= 4) => Agree(w, g, q)
      /\ \A t \in Keys :
           TemplatePath(t, "enabled") \notin DOMAIN g /\ TemplatePath(t, "enabled") \in DOMAIN w =>
             w[TemplatePath(t, "enabled")] = "True"
      /\ \A t \in KeysAt(w, TemplatesPath) :
           /\ TemplatePath(t, "enabled") \in DOMAIN w
           /\ Has(w, TemplatePath(t, "args"))
           /\ t \in KeysAt(g, TemplatesPath)
  BY <1>1, <1>2, TemplateStage
<1>4. Tasks(w) BY <1>3 DEF Tasks
<1>5. \A q \in Paths :
        /\ q # <<>>
        /\ \A r : DefaultLeaf(r) => ~IsPrefix(q, r)
        /\ At(q, 1) # "templates" \/ Depth(q) >= 4
        => Agree(w, x, q)
  BY <1>2, <1>3, AgreeTrans
<1>6. IsScheduled(w) <=> IsScheduled(x)
  <2>1. /\ SchedulePath \in Paths /\ SchedulePath # <<>> /\ Depth(SchedulePath) = 1
        /\ At(SchedulePath, 1) = "schedule"
    BY ShortPaths, Depths
  <2>2. Agree(w, x, SchedulePath) BY <1>5, <2>1, DefaultsElsewhere
  <2> QED BY <2>1, <2>2, PrefixOrder DEF Agree, IsScheduled
<1>7. \A p \in {NamePath, ImagePath, TypePath, GitPath("ref"), GitPath("commit")} :
        /\ p \in DOMAIN w <=> p \in DOMAIN g
        /\ p \in DOMAIN w /\ p \in DOMAIN g => w[p] = g[p]
  <2>1. "ref" \in Keys /\ "commit" \in Keys BY DefaultKeys
  <2>2. \A p \in {NamePath, ImagePath, TypePath, GitPath("ref"), GitPath("commit")} :
          p \in Paths /\ p # <<>> /\ (At(p, 1) # "templates" \/ Depth(p) >= 4)
    BY <2>1, NamedPaths, AppPaths, KeyPaths, Depths
  <2>3. \A p \in {NamePath, ImagePath, TypePath, GitPath("ref"), GitPath("commit")} :
          p \in Paths /\ Agree(w, g, p)
    BY <1>3, <2>2
  <2> QED BY <2>3, PrefixOrder DEF Agree
<1>8. IsGitQuay(w) <=> IsGitQuay(g)
  <2>1. Has(g, TypePath) BY <1>2, General
  <2>2. TypePath \in DOMAIN g BY <1>2, <2>1, NamedPaths, AtomicPaths, AtomicLeaf
  <2>3. TypePath \in DOMAIN w /\ w[TypePath] = g[TypePath] BY <1>7, <2>2
  <2> QED BY <2>3 DEF IsGitQuay
<1>9. AppEnabled(w) <=> ~Disabled(x)
  <2>1. CASE EnabledPath \in DOMAIN x
    <3>1. x[EnabledPath] # EmptyDict
      BY <2>1, EnabledAt, PrefixOrder DEF Atomic, Shaped
    <3>2. EnabledPath \in DOMAIN g /\ g[EnabledPath] = x[EnabledPath]
      BY <1>2, <2>1, <3>1, EnabledAt
    <3>3. EnabledPath \in DOMAIN w /\ w[EnabledPath] = x[EnabledPath]
      BY <1>3, <3>1, <3>2 DEF Grows
    <3> QED BY <2>1, <3>3 DEF AppEnabled, Disabled, EnabledPath
  <2>2. CASE EnabledPath \notin DOMAIN x
    <3>1. Agree(g, x, EnabledPath) BY <1>2, EnabledAt, DefaultsElsewhere
    <3>2. EnabledPath \notin DOMAIN g
      BY <2>2, <3>1, EnabledAt, PrefixOrder DEF Agree
    <3>3. \A r \in DOMAIN DEFAULT_DEFAULTS : Has(w, r)
      BY <1>2, <1>3, General DEF Grows, Shaped, IsDictionary
    <3>4. "app" \in KeysAt(w, TemplatesPath) BY <1>3, <3>3, AppByDefault
    <3>5. \A t \in KeysAt(w, TemplatesPath) : TemplatePath(t, "enabled") \in DOMAIN w
      BY <1>3
    <3>6. EnabledPath \in DOMAIN w BY <3>4, <3>5 DEF EnabledPath
    <3>7. ASSUME NEW t \in Keys, TemplatePath(t, "enabled") = EnabledPath
          PROVE  w[EnabledPath] = "True"
      BY <1>3, <3>2, <3>6, <3>7
    <3>8. w[EnabledPath] = "True" BY <3>7, DefaultKeys DEF EnabledPath
    <3>9. Truthy(w[EnabledPath]) BY <3>8, DefaultKeys DEF Truthy
    <3> QED BY <2>2, <3>6, <3>9 DEF AppEnabled, Disabled, EnabledPath
  <2> QED BY <2>1, <2>2
<1>10. PlainNames(x) =>
         /\ PlainNames(w)
         /\ IsGitQuay(w) => \A p \in {NamePath, ImagePath} :
              p \in DOMAIN w => w[p] \notin FormatFields
  BY <1>2, <1>7, <1>8 DEF PlainNames
<1>11. \A r \in DOMAIN DEFAULT_DEFAULTS : Has(w, r)
  BY <1>2, <1>3, General DEF Grows, Shaped, IsDictionary
<1>12. IsGitQuay(w) => \A r \in DOMAIN GIT_QUAY_DEFAULTS : Has(w, r)
  BY <1>2, <1>3, <1>8, Quay DEF Grows, Shaped, IsDictionary
<1>13. \A p \in DOMAIN x :
         x[p] # EmptyDict /\ (p \notin {NamePath, ImagePath} \/ x[p] \notin FormatFields) =>
           p \in DOMAIN w /\ w[p] = x[p]
  BY <1>2, <1>3 DEF Grows
<1>14. \A p \in Paths : Has(x, p) => Has(w, p) BY <1>2, <1>3 DEF Grows
<1> QED BY <1>3, <1>4, <1>5, <1>6, <1>9, <1>10, <1>11, <1>12, <1>13, <1>14

\* The templates of what is scheduled.
LEMMA ScheduleDetail ==
  ASSUME NEW w, Shaped(w), Tasks(w), IsScheduled(w), AppEnabled(w),
         TemplatePath("app", "name") \in DOMAIN w,
         NEW c, c = CheckAndApplySchedule(w)
  PROVE  /\ \A p \in DOMAIN c : At(p, 1) = "templates" =>
              Depth(p) >= 2 /\ At(p, 2) \in {"app", "timer"}
         /\ \A t \in {"app", "timer"} :
              /\ ServicePath(t, "schedule") \in DOMAIN c
              /\ c[ServicePath(t, "schedule")] = c[SchedulePath]
         /\ \A q \in Paths :
              Depth(q) >= 2 /\ At(q, 1) = "templates" /\ At(q, 2) = "app"
              /\ ~IsPrefix(q, ServicePath("app", "schedule"))
              /\ ~IsPrefix(ServicePath("app", "schedule"), q) => Agree(c, w, q)
         /\ TemplatePath("timer", "enabled") \in DOMAIN c
         /\ c[TemplatePath("timer", "enabled")] = "True"
         /\ TemplatePath("timer", "name") \in DOMAIN c
<1>1. PICK d : d = Merge(w, Leaf(SchedulePath, "None")) OBVIOUS
<1>2. PICK s : s = ScheduledTemplates(d) OBVIOUS
<1>3. /\ Shaped(d)
      /\ SchedulePath \in DOMAIN d /\ d[SchedulePath] # EmptyDict
      /\ IsScheduled(d)
      /\ \A q \in Paths : q # <<>> /\ At(q, 1) # "schedule" => Agree(d, w, q)
  BY <1>1, ScheduleFound
<1>4. c = OtherParts(d) ++ ScheduledTemplates(d) BY <1>1, <1>3, ScheduleSteps
<1>5. \A k \in {"name", "enabled"} :
        /\ TemplatePath("app", k) \in Paths /\ TemplatePath("app", k) # <<>>
        /\ At(TemplatePath("app", k), 1) = "templates"
  BY TimerPaths
<1>6. /\ TemplatePath("app", "name") \in DOMAIN d
      /\ d[TemplatePath("app", "enabled")] = w[TemplatePath("app", "enabled")]
  BY <1>3, <1>5, PrefixOrder DEF Agree, AppEnabled
<1>7. Agree(d, w, TemplatesPath) BY <1>3, ShortPaths, Depths
<1>8. Tasks(d) BY <1>3, <1>7, TasksAgree DEF Shaped
<1>9. /\ Shaped(c)
      /\ \A q : Untouched(q) /\ At(q, 1) # "templates" => Agree(c, d, q)
      /\ \A q \in Paths : q # <<>> /\ At(q, 1) = "templates" => Agree(c, s, q)
  BY <1>2, <1>3, <1>4, <1>6, <1>8, ScheduledStage
<1>10. /\ \A p \in DOMAIN s :
            Depth(p) >= 2 /\ At(p, 1) = "templates" /\ At(p, 2) \in {"app", "timer"}
       /\ \A t \in {"app", "timer"} :
            /\ ServicePath(t, "schedule") \in DOMAIN s
            /\ s[ServicePath(t, "schedule")] = d[SchedulePath]
       /\ \A q \in Paths :
            Depth(q) >= 2 /\ At(q, 1) = "templates" /\ At(q, 2) = "app"
            /\ ~IsPrefix(q, ServicePath("app", "schedule"))
            /\ ~IsPrefix(ServicePath("app", "schedule"), q) => Agree(s, d, q)
       /\ TemplatePath("timer", "enabled") \in DOMAIN s
       /\ s[TemplatePath("timer", "enabled")] = "True"
       /\ TemplatePath("timer", "name") \in DOMAIN s
  BY <1>2, <1>3, <1>6, BothStage DEF AppEnabled
<1>11. \A p \in Paths : p # <<>> /\ At(p, 1) = "templates" =>
         /\ p \in DOMAIN c <=> p \in DOMAIN s
         /\ p \in DOMAIN c /\ p \in DOMAIN s => c[p] = s[p]
  BY <1>9, PrefixOrder DEF Agree
<1>12. \A p \in DOMAIN c : p \in Paths /\ p # <<>> BY <1>9 DEF Shaped, IsDictionary
<1>13. SchedulePath \in DOMAIN c /\ c[SchedulePath] = d[SchedulePath]
  <2>1. Untouched(SchedulePath) /\ At(SchedulePath, 1) # "templates" /\ SchedulePath \in Paths
    BY ShortPaths, Depths DEF Untouched
  <2> QED BY <1>3, <1>9, <2>1, PrefixOrder DEF Agree
<1>14. \A t \in {"app", "timer"} :
         /\ ServicePath(t, "schedule") \in DOMAIN c
         /\ c[ServicePath(t, "schedule")] = c[SchedulePath]
  <2> TAKE t \in {"app", "timer"}
  <2>1. /\ ServicePath(t, "schedule") \in Paths /\ ServicePath(t, "schedule") # <<>>
        /\ At(ServicePath(t, "schedule"), 1) = "templates"
    BY TimerPaths
  <2> QED BY <1>10, <1>11, <1>13, <2>1
<1>15. /\ TemplatePath("timer", "enabled") \in DOMAIN c
       /\ c[TemplatePath("timer", "enabled")] = "True"
       /\ TemplatePath("timer", "name") \in DOMAIN c
  <2>1. \A k \in {"name", "enabled"} :
        /\ TemplatePath("timer", k) \in Paths /\ TemplatePath("timer", k) # <<>>
        /\ At(TemplatePath("timer", k), 1) = "templates"
    BY TimerPaths
  <2> QED BY <1>10, <1>11, <2>1
<1>16. \A q \in Paths :
         Depth(q) >= 2 /\ At(q, 1) = "templates" /\ At(q, 2) = "app"
         /\ ~IsPrefix(q, ServicePath("app", "schedule"))
         /\ ~IsPrefix(ServicePath("app", "schedule"), q) => Agree(c, w, q)
  <2> SUFFICES ASSUME NEW q \in Paths,
                      Depth(q) >= 2, At(q, 1) = "templates", At(q, 2) = "app",
                      ~IsPrefix(q, ServicePath("app", "schedule")),
                      ~IsPrefix(ServicePath("app", "schedule"), q)
               PROVE  Agree(c, w, q)
    OBVIOUS
  <2>1. q # <<>> BY Depths
  <2>2. Agree(c, s, q) /\ Agree(s, d, q) /\ Agree(d, w, q)
    BY <1>3, <1>9, <1>10, <2>1
  <2> QED BY <2>2, AgreeTrans
<1> QED BY <1>10, <1>11, <1>12, <1>14, <1>15, <1>16

\* From the scheduled deployment to the one with upstreams.
LEMMA RouteStage ==
  ASSUME NEW c, Shaped(c), NEW u, u = ApplyUpstreams(ApplyVersion(c))
  PROVE  /\ Shaped(u)
         /\ \A q \in Paths :
              /\ q # <<>> /\ At(q, 1) # "state" /\ ~IsPrefix(q, VersionPath)
              /\ At(q, 1) # "proxy" \/ (Depth(q) >= 2 /\ At(q, 2) # "upstreams")
              => Agree(u, c, q)
         /\ \A p \in Paths :
              p # <<>> /\ (At(p, 1) # "proxy" \/ Depth(p) <= 3) /\ Has(c, p) => Has(u, p)
         /\ GetExposedPorts(u) = KeysAt(u, UpstreamsPath)
         /\ KeysAt(u, UpstreamsPath) = GetExposedPorts(c)
         /\ \A k \in KeysAt(u, UpstreamsPath) :
              /\ UpstreamPath(k, "mode") \in DOMAIN u /\ UpstreamPath(k, "ttl") \in DOMAIN u
              /\ HealthPath(k, "timeout") \in DOMAIN u
         /\ \A p \in DOMAIN u : IsPort(p) => u[p] \in KeysAt(u, UpstreamsPath)
         /\ \A p \in DOMAIN u : ~UselessUri(u, p)
         /\ \A p \in DOMAIN c :
              /\ c[p] # EmptyDict /\ p # StatePath
              /\ ~(IsHealth(p) /\ p[Len(p)] = "uri")
              /\ p = VersionPath => Truthy(c[p])
              => p \in DOMAIN u /\ u[p] = c[p]
         /\ VersionPath \in DOMAIN c => VersionPath \in DOMAIN u
         /\ StatePath \in DOMAIN u /\ u[StatePath] = "NEW"
<1> DEFINE v == ApplyVersion(c)
<1>1. u = ApplyUpstreams(v) OBVIOUS
<1>2. /\ Shaped(v)
      /\ \A p \in Paths : Has(c, p) => Has(v, p)
      /\ \A q \in Paths : q # <<>> /\ At(q, 1) # "state" /\ ~IsPrefix(q, VersionPath) =>
           Agree(v, c, q)
      /\ VersionPath \in DOMAIN c => VersionPath \in DOMAIN v
      /\ VersionPath \in DOMAIN c /\ Truthy(c[VersionPath]) =>
           v[VersionPath] = c[VersionPath]
      /\ StatePath \in DOMAIN v /\ v[StatePath] = "NEW"
  BY VersionStage
<1> HIDE DEF v
<1>3. /\ Shaped(u)
      /\ \A p \in Paths :
           p # <<>> /\ (At(p, 1) # "proxy" \/ Depth(p) <= 3) /\ Has(v, p) => Has(u, p)
      /\ \A q \in Paths :
           q # <<>> /\ (At(q, 1) # "proxy" \/ (Depth(q) >= 2 /\ At(q, 2) # "upstreams")) =>
             Agree(u, v, q)
      /\ KeysAt(u, UpstreamsPath) = GetExposedPorts(v)
      /\ \A k \in KeysAt(u, UpstreamsPath) :
           /\ UpstreamPath(k, "mode") \in DOMAIN u /\ UpstreamPath(k, "ttl") \in DOMAIN u
           /\ HealthPath(k, "timeout") \in DOMAIN u
      /\ \A p \in DOMAIN v :
           v[p] # EmptyDict /\ ~(IsHealth(p) /\ p[Len(p)] = "uri") =>
             p \in DOMAIN u /\ u[p] = v[p]
      /\ \A p \in DOMAIN u : IsPort(p) => u[p] \in KeysAt(u, UpstreamsPath)
      /\ GetExposedPorts(u) = KeysAt(u, UpstreamsPath)
      /\ \A p \in DOMAIN u : ~UselessUri(u, p)
  BY <1>1, <1>2, UpstreamStage
<1>4. \A q \in Paths :
        /\ q # <<>> /\ At(q, 1) # "state" /\ ~IsPrefix(q, VersionPath)
        /\ At(q, 1) # "proxy" \/ (Depth(q) >= 2 /\ At(q, 2) # "upstreams")
        => Agree(u, c, q)
  BY <1>2, <1>3, AgreeTrans
<1>5. GetExposedPorts(v) = GetExposedPorts(c)
  <2>1. \A p \in Paths : p # <<>> /\ At(p, 1) = "proxy" =>
          Agree(v, c, p)
    <3>1. VersionPath \in Paths /\ VersionPath # <<>> /\ At(VersionPath, 1) = "deployment"
      BY NamedPaths, Depths
    <3>2. \A p \in Paths : p # <<>> /\ At(p, 1) = "proxy" => ~IsPrefix(p, VersionPath)
      BY <3>1, ApartAt
    <3> QED BY <1>2, <3>2
  <2>2. IsDictionary(v) /\ IsDictionary(c) BY <1>2 DEF Shaped
  <2>3. UpstreamsPath \in Paths /\ UpstreamsPath # <<>> /\ At(UpstreamsPath, 1) = "proxy"
    BY NamedPaths, Depths
  <2>4. KeysAt(v, UpstreamsPath) = KeysAt(c, UpstreamsPath)
    BY <2>1, <2>2, <2>3, AgreeKeys
  <2>5. \A p \in Paths : IsPort(p) => p # <<>> /\ At(p, 1) = "proxy" BY HealthAt, Depths
  <2>6. \A p : IsPort(p) => /\ p \in DOMAIN v <=> p \in DOMAIN c
                            /\ p \in DOMAIN v /\ p \in DOMAIN c => v[p] = c[p]
    <3>1. \A p \in DOMAIN v : p \in Paths BY <2>2 DEF IsDictionary
    <3>2. \A p \in DOMAIN c : p \in Paths BY <2>2 DEF IsDictionary
    <3> QED BY <2>1, <2>5, <3>1, <3>2, PrefixOrder DEF Agree
  <2>7. {v[p] : p \in {q \in DOMAIN v : IsPort(q)}} = {c[p] : p \in {q \in DOMAIN c : IsPort(q)}}
    BY <2>6
  <2> QED BY <2>4, <2>7 DEF GetExposedPorts
<1>6. \A p \in DOMAIN c :
        /\ c[p] # EmptyDict /\ p # StatePath
        /\ ~(IsHealth(p) /\ p[Len(p)] = "uri")
        /\ p = VersionPath => Truthy(c[p])
        => p \in DOMAIN u /\ u[p] = c[p]
  <2> SUFFICES ASSUME NEW p \in DOMAIN c, c[p] # EmptyDict, p # StatePath,
                      ~(IsHealth(p) /\ p[Len(p)] = "uri"),
                      p = VersionPath => Truthy(c[p])
               PROVE  p \in DOMAIN u /\ u[p] = c[p]
    OBVIOUS
  <2>1. p \in Paths /\ p # <<>> /\ Fits(p, c[p]) BY DEF Shaped, IsDictionary
  <2>2. p \in DOMAIN v /\ v[p] = c[p]
    <3>1. CASE p = VersionPath BY <1>2, <3>1
    <3>2. CASE p # VersionPath
      <4>1. ~IsPrefix(p, VersionPath) BY <2>1, <3>2, FirmPaths DEF Firm
      <4>2. At(p, 1) # "state"
        <5> SUFFICES ASSUME At(p, 1) = "state" PROVE FALSE
          OBVIOUS
        <5>1. Depth(p) = 1 BY <2>1, FitsOther
        <5>2. p = StatePath BY <2>1, <5>1, ShortPaths, SamePath
        <5> QED BY <5>2
      <4>3. Agree(v, c, p) BY <1>2, <2>1, <4>1, <4>2
      <4> QED BY <2>1, <4>3, PrefixOrder DEF Agree
    <3> QED BY <3>1, <3>2
  <2> QED BY <1>3, <2>2
<1>8. \A p \in Paths :
        p # <<>> /\ (At(p, 1) # "proxy" \/ Depth(p) <= 3) /\ Has(c, p) => Has(u, p)
  BY <1>2, <1>3
<1>9. StatePath \in DOMAIN u /\ u[StatePath] = "NEW"
  <2>1. StatePath \in Paths /\ StatePath # <<>> /\ At(StatePath, 1) # "proxy"
    BY ShortPaths, Depths
  <2>2. Agree(u, v, StatePath) BY <1>3, <2>1
  <2> QED BY <1>2, <2>1, <2>2, PrefixOrder DEF Agree
<1>10. VersionPath \in DOMAIN c => VersionPath \in DOMAIN u
  <2>1. VersionPath \in Paths /\ VersionPath # <<>> /\ At(VersionPath, 1) # "proxy"
    BY NamedPaths, Depths
  <2>2. Agree(u, v, VersionPath) BY <1>3, <2>1
  <2> QED BY <1>2, <2>1, <2>2, PrefixOrder DEF Agree
<1> QED BY <1>3, <1>4, <1>5, <1>6, <1>8, <1>9, <1>10
-----------------------------------------------------------------------------
(* apply_defaults.                                                         *)

Scheduling(x) == CheckAndApplySchedule(WithDefaults(x))
Routing(x) == ApplyUpstreams(ApplyVersion(Scheduling(x)))
\* A timer can be named.
Named(x) ==
  IsScheduled(WithDefaults(x)) => TemplatePath("app", "name") \in DOMAIN WithDefaults(x)

\* apply_defaults, as the last step after the others.
LEMMA ApplySteps ==
  ASSUME NEW x
  PROVE  /\ ApplyDefaults(x) = ApplyAppArguments(Routing(x))
         /\ Accepts(x) => Named(x)
BY DEF ApplyDefaults, Routing, Scheduling, Accepts, Named

\* Whether there is a schedule depends on its path only.
LEMMA SchedulesAgree ==
  ASSUME NEW d, NEW e, Agree(d, e, SchedulePath)
  PROVE  /\ IsScheduled(d) <=> IsScheduled(e)
         /\ SchedulePath \in DOMAIN d <=> SchedulePath \in DOMAIN e
         /\ SchedulePath \in DOMAIN e => d[SchedulePath] = e[SchedulePath]
<1>1. SchedulePath \in Paths /\ IsPrefix(SchedulePath, SchedulePath)
  BY ShortPaths, PrefixOrder
<1>2. /\ SchedulePath \in DOMAIN d <=> SchedulePath \in DOMAIN e
      /\ SchedulePath \in DOMAIN d /\ SchedulePath \in DOMAIN e =>
           d[SchedulePath] = e[SchedulePath]
  BY <1>1 DEF Agree
<1> QED BY <1>2 DEF IsScheduled

\* There is an app template if the templates have that key.
LEMMA AppKey ==
  ASSUME NEW d, IsDictionary(d)
  PROVE  Has(d, AppPath) <=> "app" \in KeysAt(d, TemplatesPath)
<1>1. AppPath = TemplatesPath \o <<"app">> BY DEF AppPath, TemplatesPath
<1>2. "app" \in Keys /\ TemplatesPath \in Paths BY DefaultKeys, ShortPaths
<1>3. \A k : k \in KeysAt(d, TemplatesPath) <=> k \in Keys /\ Has(d, TemplatesPath \o <<k>>)
  BY <1>2, KeysHas
<1> QED BY <1>1, <1>2, <1>3

\* An enabled app template is there.
LEMMA EnabledHas ==
  ASSUME NEW d, AppEnabled(d)
  PROVE  Has(d, AppPath)
<1>1. /\ EnabledPath \in Paths /\ AppPath \in Paths /\ Depth(EnabledPath) = 3
      /\ At(EnabledPath, 1) = "templates" /\ At(EnabledPath, 2) = "app"
      /\ Depth(AppPath) = 2 /\ At(AppPath, 1) = "templates" /\ At(AppPath, 2) = "app"
  BY EnabledAt, ShortPaths
<1>2. \A i : i \in 1 .. 2 <=> i = 1 \/ i = 2 OBVIOUS
<1>3. IsPrefix(AppPath, EnabledPath) BY <1>1, <1>2, PrefixAt
<1> QED BY <1>3 DEF Has, AppEnabled, EnabledPath

\* Whether the app template is enabled depends on the templates only.
LEMMA EnabledAgree ==
  ASSUME NEW d, NEW e, Agree(d, e, TemplatesPath)
  PROVE  AppEnabled(d) <=> AppEnabled(e)
<1>1. /\ EnabledPath \in Paths /\ TemplatesPath \in Paths /\ Depth(EnabledPath) = 3
      /\ At(EnabledPath, 1) = "templates" /\ Depth(TemplatesPath) = 1
      /\ At(TemplatesPath, 1) = "templates"
  BY EnabledAt, ShortPaths
<1>2. \A i : i \in 1 .. 1 <=> i = 1 OBVIOUS
<1>3. IsPrefix(TemplatesPath, EnabledPath) BY <1>1, <1>2, PrefixAt
<1>4. /\ EnabledPath \in DOMAIN d <=> EnabledPath \in DOMAIN e
      /\ EnabledPath \in DOMAIN d /\ EnabledPath \in DOMAIN e =>
           d[EnabledPath] = e[EnabledPath]
  BY <1>1, <1>3 DEF Agree
<1> QED BY <1>4 DEF AppEnabled, EnabledPath

\* Until the arguments of the app template.
LEMMA TemplatesStage ==
  ASSUME NEW x, Shaped(x), Named(x),
         NEW c, c = Scheduling(x), NEW u, u = Routing(x)
  PROVE  /\ Shaped(c) /\ Shaped(u) /\ Tasks(u)
         /\ IsScheduled(c) <=> IsScheduled(x)
         /\ IsScheduled(u) <=> IsScheduled(x)
         /\ Agree(u, c, TemplatesPath) /\ Agree(u, c, SchedulePath)
         /\ ~IsScheduled(x) => Has(u, AppPath)
         /\ IsScheduled(x) /\ ~Disabled(x) => AppEnabled(u)
         /\ IsScheduled(x) /\ Has(u, AppPath) => ~Disabled(x)
<1> DEFINE w == WithDefaults(x)
<1>1. /\ Shaped(w) /\ Tasks(w)
      /\ IsScheduled(w) <=> IsScheduled(x)
      /\ \A r \in DOMAIN DEFAULT_DEFAULTS : Has(w, r)
      /\ AppEnabled(w) <=> ~Disabled(x)
  BY DefaultStage
<1>2. IsScheduled(w) => TemplatePath("app", "name") \in DOMAIN w BY DEF Named
<1>3. c = CheckAndApplySchedule(w) BY DEF Scheduling
<1>4. u = ApplyUpstreams(ApplyVersion(c)) BY DEF Routing
<1>5. Has(w, AppPath) BY <1>1, AppByDefault
<1> HIDE DEF w
<1>6. /\ Shaped(c) /\ Tasks(c)
      /\ IsScheduled(c) <=> IsScheduled(w)
      /\ ~IsScheduled(w) => Grows(c, w)
      /\ IsScheduled(w) /\ ~AppEnabled(w) => KeysAt(c, TemplatesPath) = {}
      /\ IsScheduled(w) /\ AppEnabled(w) => AppEnabled(c)
  BY <1>1, <1>2, <1>3, ScheduleStage
<1>7. /\ TemplatesPath \in Paths /\ TemplatesPath # <<>> /\ At(TemplatesPath, 1) = "templates"
      /\ SchedulePath \in Paths /\ SchedulePath # <<>> /\ At(SchedulePath, 1) = "schedule"
      /\ VersionPath \in Paths /\ VersionPath # <<>> /\ At(VersionPath, 1) = "deployment"
      /\ AppPath \in Paths
  BY ShortPaths, NamedPaths DEF TemplatesPath, SchedulePath, VersionPath
<1>8. ~IsPrefix(TemplatesPath, VersionPath) /\ ~IsPrefix(SchedulePath, VersionPath)
  BY <1>7, ApartAt
<1>9. /\ Shaped(u) /\ Agree(u, c, TemplatesPath) /\ Agree(u, c, SchedulePath)
  BY <1>4, <1>6, <1>7, <1>8, RouteStage
<1>10. IsDictionary(u) /\ IsDictionary(c) BY <1>6, <1>9 DEF Shaped
<1>11. Tasks(u) BY <1>6, <1>9, <1>10, TasksAgree
<1>12. KeysAt(u, TemplatesPath) = KeysAt(c, TemplatesPath)
  BY <1>7, <1>9, <1>10, AgreeKeys
<1>13. /\ Has(u, AppPath) <=> "app" \in KeysAt(u, TemplatesPath)
       /\ Has(c, AppPath) <=> "app" \in KeysAt(c, TemplatesPath)
  BY <1>10, AppKey
<1>14. ASSUME ~IsScheduled(x) PROVE Has(u, AppPath)
  BY <1>1, <1>5, <1>6, <1>7, <1>12, <1>13, <1>14 DEF Grows
<1>15. IsScheduled(x) /\ ~Disabled(x) => AppEnabled(u)
  BY <1>1, <1>6, <1>9, EnabledAgree
<1>16. IsScheduled(x) /\ Has(u, AppPath) => ~Disabled(x)
  BY <1>1, <1>6, <1>12, <1>13
<1>17. IsScheduled(u) <=> IsScheduled(c) BY <1>9, SchedulesAgree
<1> QED BY <1>1, <1>6, <1>9, <1>11, <1>14, <1>15, <1>16, <1>17

\* What apply_defaults makes: of the schema, with what the tasks index.
LEMMA ApplyStage ==
  ASSUME NEW x, Shaped(x), Named(x), NEW a, a = ApplyDefaults(x)
  PROVE  /\ Shaped(a) /\ Tasks(a)
         /\ IsScheduled(a) <=> IsScheduled(x)
         /\ ~IsScheduled(x) => Has(a, AppPath)
         /\ IsScheduled(x) /\ ~Disabled(x) => AppEnabled(a)
         /\ IsScheduled(x) /\ Has(a, AppPath) => ~Disabled(x)
<1> DEFINE u == Routing(x)
<1>1. /\ Shaped(u) /\ Tasks(u)
      /\ IsScheduled(u) <=> IsScheduled(x)
      /\ ~IsScheduled(x) => Has(u, AppPath)
      /\ IsScheduled(x) /\ ~Disabled(x) => AppEnabled(u)
      /\ IsScheduled(x) /\ Has(u, AppPath) => ~Disabled(x)
  BY TemplatesStage
<1>2. a = ApplyAppArguments(u) BY ApplySteps
<1> HIDE DEF u
<1>3. CASE ~Has(u, AppPath)
  <2>1. a = u BY <1>2, <1>3 DEF ApplyAppArguments
  <2> QED BY <1>1, <2>1
<1>4. CASE Has(u, AppPath)
  <2>1. /\ Shaped(a)
        /\ \A q : Besides(q) => Agree(a, u, q)
        /\ \A p \in Paths : ~IsPrefix(SidekicksPath, p) /\ Has(u, p) => Has(a, p)
        /\ KeysAt(a, TemplatesPath) = KeysAt(u, TemplatesPath)
    BY <1>1, <1>2, <1>4, AppStage
  <2>2. /\ "enabled" \in Keys /\ "args" \in Keys /\ "enabled" # "args"
        /\ \A t \in Keys :
             /\ TemplatePath(t, "enabled") \in Paths /\ TemplatePath(t, "args") \in Paths
             /\ Depth(TemplatePath(t, "enabled")) = 3 /\ Depth(TemplatePath(t, "args")) = 3
             /\ At(TemplatePath(t, "enabled"), 3) = "enabled"
    <3>1. "enabled" \in Keys /\ "args" \in Keys BY DefaultKeys
    <3> QED BY <3>1, KeyPaths
  <2>3. /\ SchedulePath \in Paths /\ SchedulePath # <<>> /\ At(SchedulePath, 1) = "schedule"
        /\ SidekicksPath \in Paths /\ Depth(SidekicksPath) = 4
        /\ \A t : TemplatePath(t, "enabled") # <<>>
    BY ShortPaths, AppPaths DEF SchedulePath, TemplatePath
  <2>4. Agree(a, u, SchedulePath) BY <2>1, <2>3 DEF Besides
  <2>5. ASSUME NEW t \in Keys PROVE Agree(a, u, TemplatePath(t, "enabled"))
    BY <2>1, <2>2, <2>3 DEF Besides
  <2>6. ASSUME NEW t \in Keys PROVE ~IsPrefix(SidekicksPath, TemplatePath(t, "args"))
    BY <2>2, <2>3, PrefixAt
  <2>7. ASSUME NEW t \in Keys
        PROVE  /\ TemplatePath(t, "enabled") \in DOMAIN a <=>
                    TemplatePath(t, "enabled") \in DOMAIN u
               /\ TemplatePath(t, "enabled") \in DOMAIN u =>
                    a[TemplatePath(t, "enabled")] = u[TemplatePath(t, "enabled")]
    BY <2>2, <2>5, PrefixOrder DEF Agree
  <2>8. IsDictionary(a) /\ IsDictionary(u) BY <1>1, <2>1 DEF Shaped
  <2>9. KeysAt(u, TemplatesPath) \subseteq Keys BY <2>8, KeysInKeys
  <2>10. Tasks(a) BY <1>1, <2>1, <2>2, <2>6, <2>7, <2>9 DEF Tasks
  <2>11. IsScheduled(a) <=> IsScheduled(u) BY <2>4, SchedulesAgree
  <2>12. Has(a, AppPath) BY <1>4, <2>1, <2>8, AppKey
  <2>13. AppEnabled(u) => AppEnabled(a)
    <3>1. "app" \in Keys BY DefaultKeys
    <3> QED BY <2>7, <3>1 DEF AppEnabled
  <2> QED BY <1>1, <1>4, <2>1, <2>10, <2>11, <2>12, <2>13
<1> QED BY <1>3, <1>4

\* clone_deployment drops the version and nothing else.
LEMMA CloneStage ==
  ASSUME NEW d, Shaped(d), NEW x, x = CloneDeployment(d)
  PROVE  /\ Shaped(x)
         /\ \A p : p \in DOMAIN x <=> p \in DOMAIN d /\ p # VersionPath
         /\ \A p \in DOMAIN x : x[p] = d[p]
         /\ IsScheduled(x) <=> IsScheduled(d)
         /\ Disabled(x) <=> Disabled(d)
<1>1. x = Only(d, DOMAIN d \ {VersionPath}) BY DEF CloneDeployment
<1>2. Shaped(x) BY <1>1, OnlyShaped
<1>3. /\ \A p : p \in DOMAIN x <=> p \in DOMAIN d /\ p # VersionPath
      /\ \A p \in DOMAIN x : x[p] = d[p]
  BY <1>1, OnlyParts
<1>4. SchedulePath # VersionPath /\ EnabledPath # VersionPath
  BY NamedPaths, ShortPaths, EnabledAt
<1> QED BY <1>2, <1>3, <1>4 DEF IsScheduled, Disabled

-----------------------------------------------------------------------------
(* The tasks find what they index.                                         *)

TInv ==
  /\ phase \in {"posted", "stored", "refused", "cloned", "recovered"}
  /\ Shaped(deployment)
  /\ IsScheduled(deployment) <=> IsScheduled(request)
  /\ IsScheduled(deployment) /\ Disabled(deployment) => Disabled(request)

\* In every state the deployment is of the schema, and scheduled if the request is.
THEOREM StaysShaped == Spec => []TInv
<1>1. Init => TInv BY RequestsAssumption DEF Init, TInv
<1>2. ASSUME TInv, [Next]_vars PROVE TInv'
  <2>1. ASSUME deployment' = ApplyDefaults(deployment), Accepts(deployment),
               phase' \in {"stored", "recovered"}, request' = request
        PROVE  TInv'
    <3>1. Shaped(deployment) /\ Named(deployment)
      BY <1>2, <2>1, ApplySteps DEF TInv
    <3>2. /\ Shaped(deployment')
          /\ IsScheduled(deployment') <=> IsScheduled(deployment)
          /\ IsScheduled(deployment) /\ ~Disabled(deployment) => AppEnabled(deployment')
      BY <2>1, <3>1, ApplyStage
    <3>3. AppEnabled(deployment') => ~Disabled(deployment')
      BY DEF AppEnabled, Disabled, EnabledPath
    <3> QED BY <1>2, <2>1, <3>2, <3>3 DEF TInv
  <2>2. CASE Recover
    <3>1. deployment' = CloneDeployment(deployment) /\ Shaped(deployment)
      BY <1>2, <2>2 DEF Recover, TInv
    <3>2. /\ Shaped(deployment')
          /\ IsScheduled(deployment') <=> IsScheduled(deployment)
          /\ Disabled(deployment') <=> Disabled(deployment)
      BY <3>1, CloneStage
    <3> QED BY <1>2, <2>2, <3>2 DEF Recover, TInv
  <2>3. CASE Refuse BY <1>2, <2>3 DEF Refuse, TInv
  <2>4. CASE UNCHANGED vars BY <1>2, <2>4 DEF vars, TInv
  <2>5. CASE Create BY <2>1, <2>5 DEF Create
  <2>6. CASE Recreate BY <2>1, <2>6 DEF Recreate
  <2> QED BY <1>2, <2>2, <2>3, <2>4, <2>5, <2>6 DEF Next
<1> QED BY <1>1, <1>2, PTL DEF Spec

\* The tasks of the pipeline find the app template, and enabled and args of each
\* template, in a deployment that create or a recovery has completed.
THEOREM TasksFind == Spec => []TasksFindTemplates
<1> DEFINE I == TInv /\ TasksFindTemplates
<1>1. Init => I BY RequestsAssumption DEF Init, TInv, TasksFindTemplates, Applied
<1>2. ASSUME I, [Next]_vars, TInv' PROVE I'
  <2> SUFFICES TasksFindTemplates' BY <1>2
  <2>1. ASSUME deployment' = ApplyDefaults(deployment), Accepts(deployment),
               request' = request
        PROVE  TasksFindTemplates'
    <3>1. Shaped(deployment) /\ Named(deployment)
      BY <1>2, <2>1, ApplySteps DEF TInv
    <3>2. /\ Tasks(deployment')
          /\ ~IsScheduled(deployment) => Has(deployment', AppPath)
          /\ IsScheduled(deployment) /\ ~Disabled(deployment) => AppEnabled(deployment')
      BY <2>1, <3>1, ApplyStage
    <3>3. AppEnabled(deployment') => Has(deployment', AppPath) BY EnabledHas
    <3>4. \/ Has(deployment', AppPath)
          \/ IsScheduled(request) /\ Disabled(request)
      BY <1>2, <3>2, <3>3 DEF TInv
    <3>5. Disabled(request) => ~Truthy(request[TemplatePath("app", "enabled")])
      BY DEF Disabled, EnabledPath
    <3> QED BY <2>1, <3>2, <3>4, <3>5 DEF TasksFindTemplates, Tasks
  <2>2. CASE Recover BY <2>2 DEF Recover, TasksFindTemplates, Applied
  <2>3. CASE Refuse BY <2>3 DEF Refuse, TasksFindTemplates, Applied
  <2>4. CASE UNCHANGED vars BY <1>2, <2>4 DEF vars, TasksFindTemplates, Applied
  <2>5. CASE Create BY <2>1, <2>5 DEF Create
  <2>6. CASE Recreate BY <2>1, <2>6 DEF Recreate
  <2> QED BY <1>2, <2>2, <2>3, <2>4, <2>5, <2>6 DEF Next
<1> QED BY <1>1, <1>2, StaysShaped, PTL DEF Spec

-----------------------------------------------------------------------------
(* The exposed ports.                                                      *)

\* The same hosts, listeners and upstreams.
Proxied(d, e) ==
  \A q \in Paths : At(q, 1) = "proxy" /\ Depth(q) >= 3 => Agree(d, e, q)

\* Dictionaries that agree at q have the same value there.
LEMMA SameAt ==
  ASSUME NEW d, NEW e, NEW q \in Paths, Agree(d, e, q)
  PROVE  /\ q \in DOMAIN d <=> q \in DOMAIN e
         /\ q \in DOMAIN d => d[q] = e[q]
BY PrefixOrder DEF Agree

\* Exposed ports depend on the proxy only.
LEMMA PortsSame ==
  ASSUME NEW d, NEW e, Shaped(d), Shaped(e), Proxied(d, e)
  PROVE  /\ GetExposedPorts(d) = GetExposedPorts(e)
         /\ KeysAt(d, UpstreamsPath) = KeysAt(e, UpstreamsPath)
<1>1. /\ IsDictionary(d) /\ IsDictionary(e)
      /\ DOMAIN d \subseteq Paths /\ DOMAIN e \subseteq Paths
  BY DEF Shaped, IsDictionary
<1>2. ASSUME NEW q \in Paths, At(q, 1) = "proxy", Depth(q) >= 3
      PROVE  /\ q \in DOMAIN d <=> q \in DOMAIN e
             /\ q \in DOMAIN d => d[q] = e[q]
  BY <1>2, SameAt DEF Proxied
<1>3. \A k : k \in KeysAt(d, UpstreamsPath) <=> k \in KeysAt(e, UpstreamsPath)
  <2>1. \A k : k \in KeysAt(d, UpstreamsPath) <=>
           \E p \in DOMAIN d : /\ Depth(p) >= 3 /\ At(p, 1) = "proxy"
                               /\ At(p, 2) = "upstreams" /\ At(p, 3) = k
    BY <1>1, UpstreamKeys
  <2>2. \A k : k \in KeysAt(e, UpstreamsPath) <=>
           \E p \in DOMAIN e : /\ Depth(p) >= 3 /\ At(p, 1) = "proxy"
                               /\ At(p, 2) = "upstreams" /\ At(p, 3) = k
    BY <1>1, UpstreamKeys
  <2> QED BY <1>1, <1>2, <2>1, <2>2
<1>4. \A q \in Paths : IsPort(q) => Depth(q) = 4 /\ At(q, 1) = "proxy" BY HealthAt
<1>5. ASSUME NEW q \in Paths, IsPort(q)
      PROVE  /\ q \in DOMAIN d <=> q \in DOMAIN e
             /\ q \in DOMAIN d => d[q] = e[q]
  <2>1. Depth(q) >= 3 /\ At(q, 1) = "proxy" BY <1>4, <1>5
  <2> QED BY <2>1, <1>2
<1>6. KeysAt(d, UpstreamsPath) = KeysAt(e, UpstreamsPath) BY <1>3
<1>7. \A v : v \in GetExposedPorts(d) <=>
        (\E q \in DOMAIN d : IsPort(q) /\ v = d[q]) \/ v \in KeysAt(d, UpstreamsPath)
  BY DEF GetExposedPorts
<1>8. \A v : v \in GetExposedPorts(e) <=>
        (\E q \in DOMAIN e : IsPort(q) /\ v = e[q]) \/ v \in KeysAt(e, UpstreamsPath)
  BY DEF GetExposedPorts
<1>9. \A v : v \in GetExposedPorts(d) <=> v \in GetExposedPorts(e)
  BY <1>1, <1>5, <1>6, <1>7, <1>8
<1> QED BY <1>6, <1>9

PortsPath == VariablePath("DISCOVER_PORTS")

\* The elements of the path to DISCOVER_PORTS.
LEMMA PortsPathAt ==
  /\ PortsPath \in Paths /\ PortsPath # <<>> /\ Depth(PortsPath) = 5
  /\ At(PortsPath, 1) = "templates" /\ At(PortsPath, 2) = "app"
  /\ At(PortsPath, 3) = "args" /\ At(PortsPath, 4) = "environment"
  /\ At(PortsPath, 5) # "DISCOVER_UPSTREAM_TTL"
<1>1. "DISCOVER_PORTS" \in Discovered BY DEF Discovered
<1>2. \A k \in Discovered : k = "DISCOVER_PORTS" =>
    /\ VariablePath(k) \in Paths /\ VariablePath(k) # <<>>
    /\ Depth(VariablePath(k)) = 5
    /\ At(VariablePath(k), 1) = "templates" /\ At(VariablePath(k), 2) = "app"
    /\ At(VariablePath(k), 3) = "args" /\ At(VariablePath(k), 4) = "environment"
    /\ At(VariablePath(k), 5) # "DISCOVER_UPSTREAM_TTL"
  BY DiscoverPaths
<1> QED BY <1>1, <1>2 DEF PortsPath

\* The user does not tell the application what to announce: nobody does, or
\* what it announces are its ports.
Quiet(d) ==
  /\ ~Has(d, AnnouncedPath)
  /\ Has(d, PortsPath) => PortsPath \in DOMAIN d /\ d[PortsPath] = GetExposedPorts(d)

\* Unless there is a schedule, nothing on the way touches these.
LEMMA PlainStages ==
  ASSUME NEW x, Shaped(x), Named(x), ~IsScheduled(x), NEW c, c = Scheduling(x)
  PROVE  /\ Shaped(c) /\ Proxied(c, x)
         /\ Agree(c, x, AnnouncedPath) /\ Agree(c, x, PortsPath)
<1> DEFINE w == WithDefaults(x)
<1>1. /\ Shaped(w) /\ Tasks(w)
      /\ IsScheduled(w) <=> IsScheduled(x)
      /\ \A q \in Paths :
           /\ q # <<>>
           /\ \A r : DefaultLeaf(r) => ~IsPrefix(q, r)
           /\ At(q, 1) # "templates" \/ Depth(q) >= 4
           => Agree(w, x, q)
  BY DefaultStage
<1>2. IsScheduled(w) => TemplatePath("app", "name") \in DOMAIN w BY DEF Named
<1>3. c = CheckAndApplySchedule(w) BY DEF Scheduling
<1> HIDE DEF w
<1>4. /\ Shaped(c)
      /\ \A q \in Paths : q # <<>> /\ At(q, 1) # "schedule" => Agree(c, w, q)
  BY <1>1, <1>2, <1>3, ScheduleStage
<1>5. ASSUME NEW q \in Paths, q # <<>>, At(q, 1) # "schedule",
             \A r : DefaultLeaf(r) => ~IsPrefix(q, r),
             At(q, 1) # "templates" \/ Depth(q) >= 4
      PROVE  Agree(c, x, q)
  BY <1>1, <1>4, <1>5, AgreeTrans
<1>6. ASSUME NEW q \in Paths, At(q, 1) = "proxy", Depth(q) >= 3
      PROVE  Agree(c, x, q)
  <2>1. q # <<>> BY <1>6, Depths
  <2>2. \A r : DefaultLeaf(r) => ~IsPrefix(q, r) BY <1>6, Depths, DefaultsElsewhere
  <2> QED BY <1>5, <1>6, <2>1, <2>2
<1>7. Agree(c, x, AnnouncedPath)
  <2>1. \A r : DefaultLeaf(r) => ~IsPrefix(AnnouncedPath, r)
    BY AnnouncedAt, DefaultsElsewhere
  <2> QED BY <1>5, <2>1, AnnouncedAt
<1>8. Agree(c, x, PortsPath)
  <2>1. \A r : DefaultLeaf(r) => ~IsPrefix(PortsPath, r)
    BY PortsPathAt, DefaultsElsewhere
  <2> QED BY <1>5, <2>1, PortsPathAt
<1> QED BY <1>4, <1>6, <1>7, <1>8 DEF Proxied

\* apply_defaults exposes the upstreams, and announces them if quiet.
LEMMA PortsStage ==
  ASSUME NEW x, Shaped(x), Named(x), NEW a, a = ApplyDefaults(x)
  PROVE  /\ GetExposedPorts(a) = KeysAt(a, UpstreamsPath)
         /\ \A p \in DOMAIN a : IsPort(p) => a[p] \in KeysAt(a, UpstreamsPath)
         /\ ~IsScheduled(x) /\ Quiet(x) =>
              /\ ~Has(a, AnnouncedPath)
              /\ PortsPath \in DOMAIN a /\ a[PortsPath] = KeysAt(a, UpstreamsPath)
<1> DEFINE c == Scheduling(x)
           u == Routing(x)
<1>1. /\ Shaped(c) /\ Shaped(u) /\ Tasks(u)
      /\ IsScheduled(u) <=> IsScheduled(x)
      /\ ~IsScheduled(x) => Has(u, AppPath)
  BY TemplatesStage
<1>2. a = ApplyAppArguments(u) /\ u = ApplyUpstreams(ApplyVersion(c))
  BY ApplySteps DEF Routing
<1>3. ~IsScheduled(x) => /\ Proxied(c, x) /\ Agree(c, x, AnnouncedPath)
                         /\ Agree(c, x, PortsPath)
  BY PlainStages
<1> HIDE DEF c, u
<1>4. /\ GetExposedPorts(u) = KeysAt(u, UpstreamsPath)
      /\ KeysAt(u, UpstreamsPath) = GetExposedPorts(c)
      /\ \A p \in DOMAIN u : IsPort(p) => u[p] \in KeysAt(u, UpstreamsPath)
      /\ \A q \in Paths :
           /\ q # <<>> /\ At(q, 1) # "state" /\ ~IsPrefix(q, VersionPath)
           /\ At(q, 1) # "proxy" \/ (Depth(q) >= 2 /\ At(q, 2) # "upstreams")
           => Agree(u, c, q)
    BY <1>1, <1>2, RouteStage
<1>5. Shaped(a)
  BY ApplyStage
<1>6. Has(u, AppPath) => \A q : Besides(q) => Agree(a, u, q)
  BY <1>1, <1>2, AppStage
<1>7. ~Has(u, AppPath) => a = u BY <1>2 DEF ApplyAppArguments
<1>8. Proxied(a, u)
  <2>1. ASSUME NEW q \in Paths, At(q, 1) = "proxy", Depth(q) >= 3
        PROVE  Agree(a, u, q)
    <3>1. q # <<>> BY <2>1, Depths
    <3>2. Besides(q) BY <2>1, <3>1 DEF Besides
    <3>3. Agree(u, u, q) BY DEF Agree
    <3> QED BY <1>6, <1>7, <3>2, <3>3
  <2> QED BY <2>1 DEF Proxied
<1>9. /\ GetExposedPorts(a) = GetExposedPorts(u)
      /\ KeysAt(a, UpstreamsPath) = KeysAt(u, UpstreamsPath)
  BY <1>1, <1>5, <1>8, PortsSame
<1>10. ASSUME NEW p \in DOMAIN a, IsPort(p) PROVE a[p] \in KeysAt(a, UpstreamsPath)
  <2>1. p \in Paths BY <1>5 DEF Shaped, IsDictionary
  <2>2. Depth(p) >= 3 /\ At(p, 1) = "proxy" BY <1>10, <2>1, HealthAt
  <2>3. Agree(a, u, p) BY <1>8, <2>1, <2>2 DEF Proxied
  <2>4. p \in DOMAIN u /\ a[p] = u[p] BY <2>1, <2>3, SameAt
  <2> QED BY <1>4, <1>9, <1>10, <2>4
<1>11. ASSUME ~IsScheduled(x), Quiet(x)
       PROVE  /\ ~Has(a, AnnouncedPath)
              /\ PortsPath \in DOMAIN a /\ a[PortsPath] = KeysAt(a, UpstreamsPath)
  <2>1. GetExposedPorts(c) = GetExposedPorts(x) BY <1>1, <1>3, <1>11, PortsSame
  <2>2. Agree(u, x, AnnouncedPath) /\ Agree(u, x, PortsPath)
    <3>1. VersionPath \in Paths /\ VersionPath # <<>> /\ At(VersionPath, 1) = "deployment"
      BY NamedPaths DEF VersionPath
    <3>2. ~IsPrefix(AnnouncedPath, VersionPath) /\ ~IsPrefix(PortsPath, VersionPath)
      BY <3>1, AnnouncedAt, PortsPathAt, ApartAt
    <3>3. Agree(u, c, AnnouncedPath) BY <1>4, <3>2, AnnouncedAt
    <3>4. Agree(u, c, PortsPath) BY <1>4, <3>2, PortsPathAt
    <3> QED BY <1>3, <1>11, <3>3, <3>4, AgreeTrans
  <2>3. DOMAIN u \subseteq Paths /\ DOMAIN x \subseteq Paths /\ DOMAIN a \subseteq Paths
    BY <1>1, <1>5 DEF Shaped, IsDictionary
  <2>4. /\ Has(u, AnnouncedPath) <=> Has(x, AnnouncedPath)
        /\ Has(u, PortsPath) <=> Has(x, PortsPath)
    BY <2>2, <2>3, AgreeHas, AnnouncedAt, PortsPathAt, PrefixOrder
  <2>5. /\ PortsPath \in DOMAIN u <=> PortsPath \in DOMAIN x
        /\ PortsPath \in DOMAIN u => u[PortsPath] = x[PortsPath]
    BY <2>2, PortsPathAt, SameAt
  <2>6. /\ ~Has(u, AnnouncedPath) /\ PortsPath \in DOMAIN u =>
             PortsPath \in DOMAIN a /\ a[PortsPath] = u[PortsPath]
        /\ ~IsScheduled(u) /\ ~Has(u, AnnouncedPath) /\ ~Has(u, PortsPath) =>
             PortsPath \in DOMAIN a /\ a[PortsPath] = GetExposedPorts(u)
    BY <1>1, <1>2, <1>11, AppStage DEF PortsPath
  <2>7. PortsPath \in DOMAIN a /\ a[PortsPath] = GetExposedPorts(u)
    BY <1>1, <1>4, <1>11, <2>1, <2>4, <2>5, <2>6 DEF Quiet
  <2>8. Agree(a, u, AnnouncedPath)
    BY <1>1, <1>6, <1>11, AnnouncedAt DEF Besides
  <2>9. Has(a, AnnouncedPath) <=> Has(u, AnnouncedPath)
    BY <2>3, <2>8, AgreeHas, AnnouncedAt, PrefixOrder
  <2> QED BY <1>4, <1>9, <1>11, <2>4, <2>7, <2>9 DEF Quiet
<1> QED BY <1>4, <1>9, <1>10, <1>11

\* A clone announces no more than what it was cloned from.
LEMMA CloneQuiet ==
  ASSUME NEW d, Shaped(d), Quiet(d), NEW x, x = CloneDeployment(d)
  PROVE  Quiet(x)
<1>1. /\ Shaped(x)
      /\ \A p : p \in DOMAIN x <=> p \in DOMAIN d /\ p # VersionPath
      /\ \A p \in DOMAIN x : x[p] = d[p]
  BY CloneStage
<1>2. VersionPath \in Paths /\ VersionPath # <<>> /\ At(VersionPath, 1) = "deployment"
  BY NamedPaths DEF VersionPath
<1>3. Proxied(x, d)
  <2>1. ASSUME NEW q \in Paths, At(q, 1) = "proxy", Depth(q) >= 3
        PROVE  Agree(x, d, q)
    <3>1. q # <<>> BY <2>1, Depths
    <3>2. ~IsPrefix(q, VersionPath) BY <1>2, <2>1, <3>1, ApartAt
    <3> QED BY <1>1, <3>2 DEF Agree
  <2> QED BY <2>1 DEF Proxied
<1>4. GetExposedPorts(x) = GetExposedPorts(d) BY <1>1, <1>3, PortsSame
<1>5. \A p : Has(x, p) => Has(d, p) BY <1>1 DEF Has
<1>6. PortsPath # VersionPath BY <1>2, PortsPathAt
<1> QED BY <1>1, <1>4, <1>5, <1>6 DEF Quiet

\* The proxy routes to upstreams of the deployment only, and the application
\* announces these, unless the user tells it otherwise.
THEOREM PortsAgreed == Spec => []PortsAgree
<1> DEFINE I == /\ PortsAgree
                /\ ~IsScheduled(deployment) /\ ~Announces(request) => Quiet(deployment)
<1>1. Init => I
  <2>1. AnnouncedPath = <<"environment", "DISCOVER_PORTS">> BY DEF AnnouncedPath
  <2>2. ~Announces(request) => Quiet(request) BY <2>1 DEF Announces, Quiet, PortsPath
  <2> QED BY <2>2 DEF Init, PortsAgree, Applied
<1>2. ASSUME I, TInv, [Next]_vars PROVE I'
  <2>1. ASSUME deployment' = ApplyDefaults(deployment), Accepts(deployment),
               request' = request
        PROVE  I'
    <3>1. Shaped(deployment) /\ Named(deployment)
      BY <1>2, <2>1, ApplySteps DEF TInv
    <3>2. /\ GetExposedPorts(deployment') = KeysAt(deployment', UpstreamsPath)
          /\ \A p \in DOMAIN deployment' :
               IsPort(p) => deployment'[p] \in KeysAt(deployment', UpstreamsPath)
          /\ ~IsScheduled(deployment) /\ Quiet(deployment) =>
               /\ ~Has(deployment', AnnouncedPath)
               /\ PortsPath \in DOMAIN deployment'
               /\ deployment'[PortsPath] = KeysAt(deployment', UpstreamsPath)
      BY <2>1, <3>1, PortsStage
    <3>3. IsScheduled(deployment') <=> IsScheduled(deployment)
      BY <2>1, <3>1, ApplyStage
    <3>4. ASSUME ~IsScheduled(deployment'), ~Announces(request)
          PROVE  /\ Quiet(deployment')
                 /\ deployment'[PortsPath] = KeysAt(deployment', UpstreamsPath)
      BY <1>2, <3>2, <3>3, <3>4 DEF Quiet
    <3>5. PortsAgree'
      BY <2>1, <3>2, <3>4 DEF PortsAgree, PortsPath
    <3> QED BY <2>1, <3>4, <3>5
  <2>2. CASE Recover
    <3>1. deployment' = CloneDeployment(deployment) /\ Shaped(deployment)
      BY <1>2, <2>2 DEF Recover, TInv
    <3>2. IsScheduled(deployment') <=> IsScheduled(deployment) BY <3>1, CloneStage
    <3>3. Quiet(deployment) => Quiet(deployment') BY <3>1, CloneQuiet
    <3>4. PortsAgree' BY <2>2 DEF Recover, PortsAgree, Applied
    <3> QED BY <1>2, <2>2, <3>2, <3>3, <3>4 DEF Recover
  <2>3. CASE Refuse BY <1>2, <2>3 DEF Refuse, PortsAgree, Applied
  <2>4. CASE UNCHANGED vars BY <1>2, <2>4 DEF vars, PortsAgree, Applied
  <2>5. CASE Create BY <2>1, <2>5 DEF Create
  <2>6. CASE Recreate BY <2>1, <2>6 DEF Recreate
  <2> QED BY <1>2, <2>2, <2>3, <2>4, <2>5, <2>6 DEF Next
<1> QED BY <1>1, <1>2, StaysShaped, PTL DEF Spec

-----------------------------------------------------------------------------
(* Defaults and settings.                                                  *)

\* What the arguments of the app template leave alone.
LEMMA FinalStage ==
  ASSUME NEW x, Shaped(x), Named(x), NEW u, u = Routing(x), NEW a, a = ApplyDefaults(x)
  PROVE  /\ \A q : Besides(q) => Agree(a, u, q)
         /\ Proxied(a, u) /\ KeysAt(a, UpstreamsPath) = KeysAt(u, UpstreamsPath)
         /\ \A p \in Paths : ~IsPrefix(SidekicksPath, p) /\ Has(u, p) => Has(a, p)
         /\ \A p \in DOMAIN u :
              u[p] # EmptyDict /\ ~IsPrefix(SidekicksPath, p) =>
                p \in DOMAIN a /\ a[p] = u[p]
         /\ KeysAt(a, TemplatesPath) = KeysAt(u, TemplatesPath)
         /\ Has(a, AppPath) => AppFixed(a)
<1>1. Shaped(u) /\ Tasks(u) BY TemplatesStage
<1>2. a = ApplyAppArguments(u) BY ApplySteps
<1>3. Shaped(a) BY ApplyStage
<1>4. CASE ~Has(u, AppPath)
  <2>1. a = u BY <1>2, <1>4 DEF ApplyAppArguments
  <2>2. \A q : Agree(a, u, q) BY <2>1 DEF Agree
  <2> QED BY <1>4, <2>1, <2>2 DEF Proxied
<1>5. CASE Has(u, AppPath)
  <2>1. /\ \A q : Besides(q) => Agree(a, u, q)
        /\ \A p \in Paths : ~IsPrefix(SidekicksPath, p) /\ Has(u, p) => Has(a, p)
        /\ \A p \in DOMAIN u :
             u[p] # EmptyDict /\ ~IsPrefix(SidekicksPath, p) =>
               p \in DOMAIN a /\ a[p] = u[p]
        /\ KeysAt(a, TemplatesPath) = KeysAt(u, TemplatesPath)
        /\ AppFixed(a)
    BY <1>1, <1>2, <1>5, AppStage
  <2>2. ASSUME NEW q \in Paths, At(q, 1) = "proxy", Depth(q) >= 3
        PROVE  Agree(a, u, q)
    <3>1. q # <<>> BY <2>2, Depths
    <3>2. Besides(q) BY <2>2, <3>1 DEF Besides
    <3> QED BY <2>1, <3>2
  <2>3. Proxied(a, u) BY <2>2 DEF Proxied
  <2>4. KeysAt(a, UpstreamsPath) = KeysAt(u, UpstreamsPath)
    BY <1>1, <1>3, <2>3, PortsSame
  <2> QED BY <2>1, <2>3, <2>4
<1> QED BY <1>4, <1>5

\* What Overridden says of request, of any request.
Replaced(x, p) ==
  \/ /\ IsScheduled(x)
     /\ \/ At(p, 1) \in {"proxy", "templates"}
        \/ IsPrefix(<<"deployment", "check">>, p)
  \/ IsHealth(p) /\ p[Len(p)] = "uri"
  \/ p = VersionPath /\ ~Truthy(x[p])
  \/ p \in {NamePath, ImagePath} /\ x[p] \in FormatFields
  \/ IsPrefix(SidekicksPath, p)

\* What is beneath the check.
LEMMA CheckAt ==
  ASSUME NEW p \in Paths, Depth(p) >= 2, At(p, 1) = "deployment", At(p, 2) = "check"
  PROVE  IsPrefix(<<"deployment", "check">>, p)
<1> DEFINE q == <<"deployment", "check">>
<1>1. "deployment" \in Keys /\ "check" \in Keys BY KeysAssumption DEF NamedKeys
<1>2. q \in Paths /\ Depth(q) = 2 /\ At(q, 1) = "deployment" /\ At(q, 2) = "check"
  BY <1>1 DEF Paths, Depth, At
<1> HIDE DEF q
<1>3. \A i : i \in 1 .. 2 <=> i = 1 \/ i = 2 OBVIOUS
<1>4. IsPrefix(q, p) BY <1>2, <1>3, PrefixAt
<1> QED BY <1>4 DEF q

\* apply_defaults keeps every setting that it does not replace,
LEMMA SettingsStage ==
  ASSUME NEW x, Shaped(x), Named(x), StatePath \notin DOMAIN x,
         NEW p \in DOMAIN x, x[p] # EmptyDict, ~Replaced(x, p),
         NEW a, a = ApplyDefaults(x)
  PROVE  p \in DOMAIN a /\ a[p] = x[p]
<1> DEFINE w == WithDefaults(x)
           c == Scheduling(x)
           u == Routing(x)
<1>1. p \in Paths /\ p # <<>> /\ Fits(p, x[p]) /\ p # StatePath
  BY DEF Shaped, IsDictionary
<1>2. p \notin {NamePath, ImagePath} \/ x[p] \notin FormatFields BY DEF Replaced
<1>3. /\ Shaped(w) /\ Tasks(w)
      /\ IsScheduled(w) <=> IsScheduled(x)
      /\ p \in DOMAIN w /\ w[p] = x[p]
  BY <1>2, DefaultStage
<1>4. IsScheduled(w) => TemplatePath("app", "name") \in DOMAIN w BY DEF Named
<1>5. c = CheckAndApplySchedule(w) BY DEF Scheduling
<1>6. u = ApplyUpstreams(ApplyVersion(c)) BY DEF Routing
<1>7. \A q \in DOMAIN u :
        u[q] # EmptyDict /\ ~IsPrefix(SidekicksPath, q) =>
          q \in DOMAIN a /\ a[q] = u[q]
  BY FinalStage
<1> HIDE DEF w, c, u
<1>8. /\ Shaped(c)
      /\ SchedulePath \in DOMAIN c
      /\ SchedulePath \in DOMAIN w => c[SchedulePath] = w[SchedulePath]
      /\ ~IsScheduled(w) => Grows(c, w)
      /\ \A q : Untouched(q) /\ At(q, 1) \notin {"templates", "schedule"} =>
              Agree(c, w, q)
  BY <1>3, <1>4, <1>5, ScheduleStage
<1>9. p \in DOMAIN c /\ c[p] = w[p]
  <2>1. CASE ~IsScheduled(x) BY <1>3, <1>8, <2>1 DEF Grows
  <2>2. CASE IsScheduled(x) /\ At(p, 1) = "schedule"
    <3>1. Depth(p) = 1 BY <1>1, <2>2, FitsOther
    <3>2. \A i : i \in 1 .. 1 <=> i = 1 OBVIOUS
    <3>3. p = SchedulePath BY <1>1, <2>2, <3>1, <3>2, ShortPaths, SamePath
    <3> QED BY <1>3, <1>8, <3>3
  <2>3. CASE IsScheduled(x) /\ At(p, 1) # "schedule"
    <3>1. At(p, 1) \notin {"proxy", "templates"} BY <2>3 DEF Replaced
    <3>2. At(p, 1) = "deployment" => Depth(p) \in {2, 3} /\ At(p, 2) # "check"
      <4>1. ASSUME At(p, 1) = "deployment" PROVE Depth(p) \in {2, 3}
        BY <1>1, <4>1, FitsDeployment
      <4>2. ASSUME At(p, 1) = "deployment" PROVE At(p, 2) # "check"
        BY <1>1, <2>3, <4>1, <4>2, CheckAt DEF Replaced
      <4> QED BY <4>1, <4>2
    <3>3. Untouched(p) BY <1>1, <3>1, <3>2 DEF Untouched
    <3>4. Agree(c, w, p) BY <1>8, <2>3, <3>1, <3>3
    <3> QED BY <1>1, <1>3, <3>4, SameAt
  <2> QED BY <2>1, <2>2, <2>3
<1>10. p = VersionPath => Truthy(c[p]) BY <1>3, <1>9 DEF Replaced
<1>11. ~(IsHealth(p) /\ p[Len(p)] = "uri") /\ ~IsPrefix(SidekicksPath, p) BY DEF Replaced
<1>12. \A q \in DOMAIN c :
         /\ c[q] # EmptyDict /\ q # StatePath
         /\ ~(IsHealth(q) /\ q[Len(q)] = "uri")
         /\ q = VersionPath => Truthy(c[q])
         => q \in DOMAIN u /\ u[q] = c[q]
  BY <1>6, <1>8, RouteStage
<1>13. p \in DOMAIN u /\ u[p] = c[p] BY <1>1, <1>3, <1>9, <1>10, <1>11, <1>12
<1> QED BY <1>3, <1>7, <1>9, <1>11, <1>13

\* The general defaults are no sidekicks, and not in the proxy's dictionaries.
LEMMA GeneralAt ==
  \A r \in DOMAIN DEFAULT_DEFAULTS :
    /\ r \in Paths /\ r # <<>> /\ ~IsPrefix(SidekicksPath, r)
    /\ At(r, 1) # "proxy" \/ Depth(r) <= 3
<1> SUFFICES ASSUME NEW r \in DOMAIN DEFAULT_DEFAULTS
             PROVE  /\ r \in Paths /\ r # <<>> /\ ~IsPrefix(SidekicksPath, r)
                    /\ At(r, 1) # "proxy" \/ Depth(r) <= 3
  OBVIOUS
<1>1. r \in Paths /\ r # <<>> /\ DefaultLeaf(r)
  BY General, DefaultLeaves DEF Shaped, IsDictionary
<1>2. At(r, 1) # "proxy" \/ Depth(r) <= 3 BY <1>1 DEF DefaultLeaf
<1>3. ASSUME IsPrefix(SidekicksPath, r) PROVE FALSE
  <2>1. /\ SidekicksPath \in Paths /\ SidekicksPath # <<>> /\ Depth(SidekicksPath) = 4
        /\ At(SidekicksPath, 1) = "templates" /\ At(SidekicksPath, 4) = "sidekicks"
    BY AppPaths DEF SidekicksPath
  <2>2. /\ 4 <= Depth(r) /\ At(r, 1) = "templates" /\ At(r, 4) = "sidekicks"
    BY <1>1, <1>3, <2>1, Elements
  <2>3. /\ "ref" \in Keys /\ "commit" \in Keys /\ "port" \in Keys /\ "timeout" \in Keys
        /\ "DISCOVER_UPSTREAM_TTL" \in Keys
    BY DefaultKeys
  <2>4. r \notin {GitPath("ref"), GitPath("commit"), TypePath, VersionPath, ModePath}
    BY <2>2, <2>3, NamedPaths, KeyPaths
  <2>5. r \notin {CheckPath("port"), CheckPath("timeout"), StopPath}
    BY <2>2, <2>3, NamedPaths, KeyPaths
  <2>6. r \notin {HostsPath, ListenersPath, UpstreamsPath, SharedPath}
    BY <2>2, NamedPaths, ShortPaths
  <2>7. r # VariablePath("DISCOVER_UPSTREAM_TTL")
    BY <2>2, <2>3, KeyPaths
  <2> QED BY <2>4, <2>5, <2>6, <2>7, General
<1> QED BY <1>1, <1>2, <1>3

\* and fills in the defaults.
LEMMA FillStage ==
  ASSUME NEW x, Shaped(x), Named(x), NEW a, a = ApplyDefaults(x)
  PROVE  /\ ~IsScheduled(x) => \A r \in DOMAIN DEFAULT_DEFAULTS : Has(a, r)
         /\ \A k \in KeysAt(a, UpstreamsPath) :
              /\ UpstreamPath(k, "mode") \in DOMAIN a /\ UpstreamPath(k, "ttl") \in DOMAIN a
              /\ HealthPath(k, "timeout") \in DOMAIN a
<1> DEFINE w == WithDefaults(x)
           c == Scheduling(x)
           u == Routing(x)
<1>1. /\ Shaped(w) /\ Tasks(w)
      /\ IsScheduled(w) <=> IsScheduled(x)
      /\ \A r \in DOMAIN DEFAULT_DEFAULTS : Has(w, r)
  BY DefaultStage
<1>2. IsScheduled(w) => TemplatePath("app", "name") \in DOMAIN w BY DEF Named
<1>3. c = CheckAndApplySchedule(w) BY DEF Scheduling
<1>4. u = ApplyUpstreams(ApplyVersion(c)) BY DEF Routing
<1>5. /\ \A p \in Paths : ~IsPrefix(SidekicksPath, p) /\ Has(u, p) => Has(a, p)
      /\ Proxied(a, u) /\ KeysAt(a, UpstreamsPath) = KeysAt(u, UpstreamsPath)
  BY FinalStage
<1>6. Shaped(u) BY TemplatesStage
<1> HIDE DEF w, c, u
<1>7. Shaped(c) /\ (~IsScheduled(w) => Grows(c, w))
  BY <1>1, <1>2, <1>3, ScheduleStage
<1>8. /\ \A p \in Paths :
           p # <<>> /\ (At(p, 1) # "proxy" \/ Depth(p) <= 3) /\ Has(c, p) => Has(u, p)
      /\ \A k \in KeysAt(u, UpstreamsPath) :
           /\ UpstreamPath(k, "mode") \in DOMAIN u /\ UpstreamPath(k, "ttl") \in DOMAIN u
           /\ HealthPath(k, "timeout") \in DOMAIN u
  BY <1>4, <1>7, RouteStage
<1>9. ASSUME ~IsScheduled(x), NEW r \in DOMAIN DEFAULT_DEFAULTS PROVE Has(a, r)
  <2>1. /\ r \in Paths /\ r # <<>> /\ ~IsPrefix(SidekicksPath, r)
        /\ At(r, 1) # "proxy" \/ Depth(r) <= 3
    BY GeneralAt
  <2>2. Has(c, r) BY <1>1, <1>7, <1>9, <2>1 DEF Grows
  <2> QED BY <1>5, <1>8, <2>1, <2>2
<1>10. ASSUME NEW k \in KeysAt(a, UpstreamsPath)
       PROVE  /\ UpstreamPath(k, "mode") \in DOMAIN a /\ UpstreamPath(k, "ttl") \in DOMAIN a
              /\ HealthPath(k, "timeout") \in DOMAIN a
  <2>1. k \in KeysAt(u, UpstreamsPath) /\ k \in Keys
    BY <1>5, <1>6, KeysInKeys DEF Shaped
  <2>2. /\ UpstreamPath(k, "mode") \in DOMAIN u /\ UpstreamPath(k, "ttl") \in DOMAIN u
        /\ HealthPath(k, "timeout") \in DOMAIN u
    BY <1>8, <2>1
  <2>3. \A q \in Paths : At(q, 1) = "proxy" /\ Depth(q) >= 3 /\ q \in DOMAIN u => q \in DOMAIN a
    BY <1>5, SameAt DEF Proxied
  <2> QED BY <2>1, <2>2, <2>3, UpstreamPaths
<1> QED BY <1>9, <1>10

\* What a user sets is what is stored, and every default that is left alone is
\* there, after create and after any recovery.
THEOREM DefaultsBelow == Spec => []DefaultsBelowSettings
<1> DEFINE I == DefaultsBelowSettings /\ (phase = "posted" => deployment = request)
<1>1. Init => I
  BY DEF Init, DefaultsBelowSettings, UserSettingsWin, DefaultsFill, Applied
<1>2. ASSUME I, TInv, request \in Requests, [Next]_vars PROVE I'
  <2>1. ASSUME deployment' = ApplyDefaults(deployment), Accepts(deployment),
               request' = request
        PROVE  DefaultsFill'
    <3>1. Shaped(deployment) /\ Named(deployment)
      BY <1>2, <2>1, ApplySteps DEF TInv
    <3>2. /\ ~IsScheduled(deployment) =>
               \A r \in DOMAIN DEFAULT_DEFAULTS : Has(deployment', r)
          /\ \A k \in KeysAt(deployment', UpstreamsPath) :
               /\ UpstreamPath(k, "mode") \in DOMAIN deployment'
               /\ UpstreamPath(k, "ttl") \in DOMAIN deployment'
               /\ HealthPath(k, "timeout") \in DOMAIN deployment'
      BY <2>1, <3>1, FillStage
    <3>3. Shaped(deployment') BY <2>1, <3>1, ApplyStage
    <3>4. KeysAt(deployment', UpstreamsPath) \in SUBSET Keys
      BY <3>3, KeysInKeys DEF Shaped
    <3> DEFINE f == ForEach(UpstreamsPath, KeysAt(deployment', UpstreamsPath), UPSTREAM_DEFAULTS)
    <3>5. \A q \in DOMAIN f : q \in DOMAIN deployment'
      <4>1. \A q : q \in DOMAIN f <=>
              \E k \in KeysAt(deployment', UpstreamsPath) :
                \/ q = UpstreamPath(k, "mode")
                \/ q = UpstreamPath(k, "ttl")
                \/ q = HealthPath(k, "timeout")
        BY <3>4, EachUpstream
      <4> QED BY <3>2, <4>1
    <3>6. \A q \in DOMAIN deployment' : Has(deployment', q)
      BY <3>3, PrefixOrder DEF Has, Shaped, IsDictionary
    <3>7. \A q \in DOMAIN f : Has(deployment', q) BY <3>5, <3>6
    <3>8. IsScheduled(deployment) <=> IsScheduled(request) BY <1>2 DEF TInv
    <3> QED BY <2>1, <3>2, <3>7, <3>8 DEF DefaultsFill, Filled
  <2>2. CASE Create
    <3>1. deployment = request BY <1>2, <2>2 DEF Create
    <3>2. Shaped(request) /\ Named(request) /\ StatePath \notin DOMAIN request
      BY <1>2, <2>2, <3>1, ApplySteps, RequestsAssumption DEF Create
    <3>3. deployment' = ApplyDefaults(request) BY <2>2, <3>1 DEF Create
    <3>4. \A p : Overridden(p) <=> Replaced(request, p)
      BY DEF Overridden, Replaced, FormatFields, At
    <3>5. ASSUME NEW p \in DOMAIN request, request[p] # EmptyDict, ~Replaced(request, p)
          PROVE  p \in DOMAIN deployment' /\ deployment'[p] = request[p]
      BY <3>2, <3>3, <3>5, SettingsStage
    <3>6. \A p \in DOMAIN request :
            request[p] # EmptyDict /\ ~Replaced(request, p) =>
              p \in DOMAIN deployment' /\ deployment'[p] = request[p]
      BY <3>5
    <3>7. request' = request BY <2>2 DEF Create
    <3>8. \A p : Overridden(p)' <=> Overridden(p) BY <3>7 DEF Overridden
    <3>9. UserSettingsWin' BY <3>4, <3>6, <3>7, <3>8 DEF UserSettingsWin
    <3>10. DefaultsFill' BY <2>1, <2>2 DEF Create
    <3> QED BY <2>2, <3>9, <3>10 DEF Create, DefaultsBelowSettings
  <2>3. CASE Recreate
    <3>1. DefaultsFill' BY <2>1, <2>3 DEF Recreate
    <3> QED BY <2>3, <3>1 DEF Recreate, DefaultsBelowSettings, UserSettingsWin
  <2>4. CASE Recover
    BY <2>4 DEF Recover, DefaultsBelowSettings, UserSettingsWin, DefaultsFill, Applied
  <2>5. CASE Refuse
    BY <2>5 DEF Refuse, DefaultsBelowSettings, UserSettingsWin, DefaultsFill, Applied
  <2>6. CASE UNCHANGED vars
    <3>1. UserSettingsWin'
      BY <1>2, <2>6 DEF vars, DefaultsBelowSettings, UserSettingsWin, Overridden
    <3>2. DefaultsFill' BY <1>2, <2>6 DEF vars, DefaultsBelowSettings, DefaultsFill, Filled, Applied
    <3> QED BY <1>2, <2>6, <3>1, <3>2 DEF vars, DefaultsBelowSettings
  <2> QED BY <1>2, <2>2, <2>3, <2>4, <2>5, <2>6 DEF Next
<1>3. Init => request \in Requests BY DEF Init
<1>4. ASSUME request \in Requests, [Next]_vars PROVE (request \in Requests)'
  BY <1>4 DEF Next, Refuse, Create, Recover, Recreate, vars
<1> QED BY <1>1, <1>2, <1>3, <1>4, StaysShaped, PTL DEF Spec

-----------------------------------------------------------------------------
(* Recovery.  What create stores is a fixed point of apply_defaults, but   *)
(* for the version, which clone_deployment drops; and, if it is scheduled, *)
(* for the template of a yoda-register, which the defaults of git-quay add *)
(* and the schedule drops again.                                           *)

YodaPath == TemplatePath("yoda_register", "name")

\* Its defaults are there.
Complete(S) ==
  /\ \A r \in DOMAIN DEFAULT_DEFAULTS : Has(S, r)
  /\ IsGitQuay(S) =>
       /\ \A r \in DOMAIN GIT_QUAY_DEFAULTS :
            Has(S, r) \/ (IsScheduled(S) /\ r = YodaPath)
       /\ \A p \in {NamePath, ImagePath} : p \in DOMAIN S => S[p] \notin FormatFields

\* If it is scheduled, it is as the schedule makes it.
Wired(S) ==
  /\ \A q \in {HostsPath, ListenersPath, UpstreamsPath} :
       q \in DOMAIN S /\ S[q] = EmptyDict
  /\ CheckPath("port") \in DOMAIN S /\ S[CheckPath("port")] = "None"
  /\ CheckPath("path") \in DOMAIN S /\ S[CheckPath("path")] = ""
Timed(S) ==
  /\ AppEnabled(S) /\ TemplatePath("app", "name") \in DOMAIN S
  /\ \A p \in DOMAIN S : At(p, 1) = "templates" =>
       Depth(p) >= 2 /\ At(p, 2) \in {"app", "timer"}
  /\ \A t \in {"app", "timer"} :
       /\ ServicePath(t, "schedule") \in DOMAIN S
       /\ S[ServicePath(t, "schedule")] = S[SchedulePath]
  /\ TemplatePath("timer", "enabled") \in DOMAIN S
  /\ S[TemplatePath("timer", "enabled")] = "True"
  /\ TemplatePath("timer", "name") \in DOMAIN S

\* Its upstreams are its exposed ports.
Routed(S) ==
  /\ GetExposedPorts(S) = KeysAt(S, UpstreamsPath)
  /\ \A k \in KeysAt(S, UpstreamsPath) :
       /\ UpstreamPath(k, "mode") \in DOMAIN S /\ UpstreamPath(k, "ttl") \in DOMAIN S
       /\ HealthPath(k, "timeout") \in DOMAIN S
  /\ \A p \in DOMAIN S : ~UselessUri(S, p)

Fixed(S) ==
  /\ Shaped(S) /\ Tasks(S)
  /\ Complete(S)
  /\ SchedulePath \in DOMAIN S
  /\ IsScheduled(S) => Wired(S) /\ Timed(S)
  /\ StatePath \in DOMAIN S /\ S[StatePath] = "NEW"
  /\ VersionPath \in DOMAIN S
  /\ Routed(S)
  /\ AppFixed(S)
  /\ NamePath \in DOMAIN S /\ S[StopPath] \in Intervals

\* Defaults that are there or not in the way of anything.
LEMMA MergeFresh ==
  ASSUME NEW s, NEW d, Shaped(s), Shaped(d),
         \A r \in DOMAIN d : Has(s, r) \/ \A p \in DOMAIN s : ~IsPrefix(p, r),
         NEW m, m = Merge(s, d)
  PROVE  /\ Shaped(m)
         /\ \A p : p \in DOMAIN m <=> p \in DOMAIN s \/ (p \in DOMAIN d /\ ~Has(s, p))
         /\ \A p \in DOMAIN s : m[p] = s[p]
<1>1. /\ IsDictionary(s) /\ IsDictionary(d) /\ DOMAIN s \subseteq Paths
      /\ DOMAIN d \subseteq Paths
  BY DEF Shaped, IsDictionary
<1>2. /\ \A p : p \in DOMAIN m <=> p \in Kept(s, d) \/ p \in Added(s, d)
      /\ Kept(s, d) \subseteq DOMAIN s /\ Added(s, d) \subseteq DOMAIN d
      /\ \A p \in DOMAIN m :
           \/ p \in DOMAIN s /\ m[p] = s[p]
           \/ p \in DOMAIN d /\ p \notin DOMAIN s /\ m[p] = d[p]
  BY <1>1, MergeParts
<1>3. ASSUME NEW p \in DOMAIN s PROVE p \in Kept(s, d)
  <2>1. ASSUME NEW r \in DOMAIN d, IsStrictPrefix(p, r) PROVE FALSE
    <3>1. IsPrefix(p, r) /\ p # r BY <2>1 DEF IsStrictPrefix
    <3>2. PICK q \in DOMAIN s : IsPrefix(r, q) BY <3>1 DEF Has
    <3>3. p = q BY <1>1, <3>1, <3>2, PrefixOrder DEF IsDictionary
    <3> QED BY <1>1, <3>1, <3>2, <3>3, PrefixOrder
  <2> QED BY <2>1 DEF Kept
<1>4. ASSUME NEW r \in DOMAIN d PROVE r \in Added(s, d) <=> ~Has(s, r)
  <2>1. ASSUME ~Has(s, r) PROVE r \in Added(s, d)
    BY <2>1 DEF Added, Has
  <2>2. ASSUME Has(s, r) PROVE r \notin Added(s, d)
    BY <2>2 DEF Added, Has
  <2> QED BY <2>1, <2>2
<1>5. Shaped(m) BY MergeShaped
<1> QED BY <1>2, <1>3, <1>4, <1>5

\* A dictionary is merged into one of its leaves.
LEMMA MergeInto ==
  ASSUME NEW e, IsDictionary(e), NEW p \in DOMAIN e, e[p] # EmptyDict
  PROVE  Merge(Leaf(p, e[p]), e) = e
<1> DEFINE l == Leaf(p, e[p])
           m == Merge(l, e)
<1>1. DOMAIN e \subseteq Paths BY DEF IsDictionary
<1>2. IsDictionary(l) BY <1>1, LeafDictionary
<1>3. /\ \A q : q \in DOMAIN l <=> q = p
      /\ l[p] = e[p]
  BY LeafParts
<1>4. /\ \A q : q \in DOMAIN m <=> q \in Kept(l, e) \/ q \in Added(l, e)
      /\ Kept(l, e) \subseteq DOMAIN l /\ Added(l, e) \subseteq DOMAIN e
      /\ \A q \in DOMAIN m :
           \/ q \in DOMAIN l /\ m[q] = l[q]
           \/ q \in DOMAIN e /\ q \notin DOMAIN l /\ m[q] = e[q]
      /\ IsFunction(m)
  BY <1>2, MergeParts
<1> HIDE DEF l, m
<1>5. p \in Kept(l, e) BY <1>3 DEF Kept
<1>6. ASSUME NEW q \in DOMAIN e, q # p PROVE q \in Added(l, e)
  <2>1. ~IsPrefix(q, p) /\ ~IsPrefix(p, q) BY <1>6 DEF IsDictionary
  <2> QED BY <1>3, <2>1 DEF Added
<1>7. \A q : q \in DOMAIN m <=> q \in DOMAIN e BY <1>3, <1>4, <1>5, <1>6
<1>8. \A q \in DOMAIN m : m[q] = e[q] BY <1>3, <1>4
<1>9. IsFunction(e) BY DEF IsDictionary
<1>10. m = e BY <1>4, <1>7, <1>8, <1>9 DEF IsFunction
<1> QED BY <1>10 DEF m, l

\* Beneath the template of a yoda-register.
Aside(p) == Depth(p) >= 2 /\ At(p, 1) = "templates" /\ At(p, 2) = "yoda_register"
Covered(S, p) ==
  p \in Paths /\ p # VersionPath /\ (IsScheduled(S) => ~Aside(p))

\* The deployment on its way is S but for the version and, if it is scheduled,
\* for the template of a yoda-register.
Near(e, S) ==
  /\ Shaped(e)
  /\ \A p : Covered(S, p) => /\ p \in DOMAIN e <=> p \in DOMAIN S
                             /\ p \in DOMAIN S => e[p] = S[p]
  /\ IsScheduled(S) => \A p \in DOMAIN e : Aside(p) => Depth(p) >= 3

\* A fixed deployment has nothing beneath a yoda-register if it is scheduled.
LEMMA FixedCovered ==
  ASSUME NEW S, Fixed(S), NEW q \in DOMAIN S, q # VersionPath
  PROVE  Covered(S, q)
<1>1. q \in Paths BY DEF Fixed, Shaped, IsDictionary
<1>2. IsScheduled(S) /\ At(q, 1) = "templates" => At(q, 2) \in {"app", "timer"}
  BY DEF Fixed, Timed
<1> QED BY <1>1, <1>2 DEF Covered, Aside

\* What is near has the leaves of S
LEMMA NearAt ==
  ASSUME NEW S, Fixed(S), NEW e, Near(e, S), NEW q \in DOMAIN S, q # VersionPath
  PROVE  q \in DOMAIN e /\ e[q] = S[q]
BY FixedCovered DEF Near

\* and the paths with leaves.
LEMMA NearHas ==
  ASSUME NEW S, Fixed(S), NEW e, Near(e, S),
         NEW r \in Paths, ~IsPrefix(r, VersionPath), Has(S, r)
  PROVE  Has(e, r)
<1>1. PICK q \in DOMAIN S : IsPrefix(r, q) BY DEF Has
<1>2. q # VersionPath BY <1>1
<1>3. q \in DOMAIN e BY <1>2, NearAt
<1> QED BY <1>1, <1>3 DEF Has

\* Merging defaults that S has keeps it near.
LEMMA NearMerge ==
  ASSUME NEW S, NEW s, Near(s, S), NEW d, Shaped(d),
         \A r \in DOMAIN d : Has(s, r) \/ \A p \in DOMAIN s : ~IsPrefix(p, r),
         \A r \in DOMAIN d : Has(s, r) \/ r = VersionPath
                             \/ (IsScheduled(S) /\ Aside(r) /\ Depth(r) >= 3),
         NEW m, m = Merge(s, d)
  PROVE  /\ Near(m, S)
         /\ VersionPath \in DOMAIN m <=>
              VersionPath \in DOMAIN s \/ (VersionPath \in DOMAIN d /\ ~Has(s, VersionPath))
<1>1. Shaped(s) BY DEF Near
<1>2. /\ Shaped(m)
      /\ \A p : p \in DOMAIN m <=> p \in DOMAIN s \/ (p \in DOMAIN d /\ ~Has(s, p))
      /\ \A p \in DOMAIN s : m[p] = s[p]
  BY <1>1, MergeFresh
<1>3. ASSUME NEW p, Covered(S, p)
      PROVE  /\ p \in DOMAIN m <=> p \in DOMAIN S
             /\ p \in DOMAIN S => m[p] = S[p]
  <2>1. p \in DOMAIN d /\ ~Has(s, p) => FALSE BY <1>3 DEF Covered
  <2>2. p \in DOMAIN m <=> p \in DOMAIN s BY <1>2, <2>1
  <2> QED BY <1>2, <1>3, <2>2 DEF Near
<1>4. ASSUME IsScheduled(S), NEW p \in DOMAIN m, Aside(p) PROVE Depth(p) >= 3
  <2>1. CASE p \in DOMAIN s BY <1>4, <2>1 DEF Near
  <2>2. CASE p \in DOMAIN d /\ ~Has(s, p)
    <3>1. p # VersionPath BY <1>4, NamedPaths DEF Aside
    <3> QED BY <2>2, <3>1
  <2> QED BY <1>2, <2>1, <2>2
<1> QED BY <1>2, <1>3, <1>4 DEF Near

\* The elements of the path to the name of a yoda-register.
LEMMA YodaAt ==
  /\ YodaPath \in Paths /\ YodaPath # <<>> /\ Depth(YodaPath) = 3
  /\ At(YodaPath, 1) = "templates" /\ At(YodaPath, 2) = "yoda_register"
<1>1. "yoda_register" \in Keys /\ "name" \in Keys BY DefaultKeys
<1>2. \A t, k \in Keys :
        /\ TemplatePath(t, k) \in Paths /\ Depth(TemplatePath(t, k)) = 3
        /\ At(TemplatePath(t, k), 1) = "templates" /\ At(TemplatePath(t, k), 2) = t
  BY KeyPaths
<1> QED BY <1>1, <1>2 DEF YodaPath, TemplatePath

\* Of the defaults, only the version's is at the version.
LEMMA DefaultsApart ==
  ASSUME NEW r, DefaultLeaf(r), r # VersionPath
  PROVE  ~IsPrefix(r, VersionPath)
<1>1. /\ VersionPath \in Paths /\ Depth(VersionPath) = 2
      /\ At(VersionPath, 1) = "deployment"
  BY NamedPaths
<1>2. r \in Paths /\ Depth(r) \in Nat BY Depths DEF DefaultLeaf
<1>3. SUFFICES ASSUME IsPrefix(r, VersionPath) PROVE FALSE OBVIOUS
<1>4. CASE r = <<>> BY <1>1, <1>2, <1>4, PrefixAt, Depths DEF DefaultLeaf, Depth, At
<1>5. CASE r # <<>>
  <2>1. Depth(r) <= 2 /\ At(r, 1) = "deployment" /\ (Depth(r) = 2 => r = VersionPath)
    BY <1>1, <1>2, <1>3, <1>5, Elements
  <2> QED BY <1>2, <2>1 DEF DefaultLeaf
<1> QED BY <1>4, <1>5

\* What is near has the same type.
LEMMA NearGitQuay ==
  ASSUME NEW S, Fixed(S), NEW e, Near(e, S)
  PROVE  IsGitQuay(e) <=> IsGitQuay(S)
<1>1. TypePath \in DOMAIN DEFAULT_DEFAULTS BY General
<1>2. Has(S, TypePath) /\ Shaped(S) BY <1>1 DEF Fixed, Complete
<1>3. TypePath \in DOMAIN S BY <1>2, AtomicLeaf, AtomicPaths, NamedPaths
<1>4. TypePath # VersionPath BY NamedPaths
<1>5. e[TypePath] = S[TypePath] BY <1>3, <1>4, NearAt
<1> QED BY <1>5 DEF IsGitQuay

\* The clone, with the defaults of its type,
LEMMA NearType ==
  ASSUME NEW S, Fixed(S), NEW x, x = CloneDeployment(S),
         NEW t, t = TypeDefaults(Merge(x, Leaf(TypePath, "git-quay")))
  PROVE  Near(t, S) /\ VersionPath \notin DOMAIN t
<1>1. Shaped(S) /\ Complete(S) /\ (IsScheduled(S) => Timed(S)) BY DEF Fixed
<1>2. /\ Shaped(x)
      /\ \A p : p \in DOMAIN x <=> p \in DOMAIN S /\ p # VersionPath
      /\ \A p \in DOMAIN x : x[p] = S[p]
  BY <1>1, CloneStage
<1>3. ASSUME IsScheduled(S), NEW p \in DOMAIN S
      PROVE  ~Aside(p) /\ (At(p, 1) = "templates" => Depth(p) >= 2)
  BY <1>1, <1>3 DEF Timed, Aside
<1>4. Near(x, S) BY <1>2, <1>3 DEF Near, Covered
<1>5. TypePath \in Paths /\ TypePath \in DOMAIN x
  <2>1. TypePath \in DOMAIN DEFAULT_DEFAULTS BY General
  <2>2. Has(S, TypePath) BY <1>1, <2>1 DEF Complete
  <2>3. TypePath \in DOMAIN S BY <1>1, <2>2, AtomicLeaf, AtomicPaths, NamedPaths
  <2>4. TypePath # VersionPath /\ TypePath \in Paths BY NamedPaths
  <2> QED BY <1>2, <2>3, <2>4
<1>6. Merge(x, Leaf(TypePath, "git-quay")) = x
  <2>1. IsDictionary(Leaf(TypePath, "git-quay")) BY <1>5, LeafDictionary
  <2>2. \A q \in DOMAIN Leaf(TypePath, "git-quay") : q = TypePath BY LeafParts
  <2>3. Has(x, TypePath) BY <1>5, PrefixOrder DEF Has
  <2>4. Sat(x, Leaf(TypePath, "git-quay")) BY <2>2, <2>3 DEF Sat
  <2>5. IsDictionary(x) BY <1>2 DEF Shaped
  <2> QED BY <2>1, <2>4, <2>5, MergeSame
<1>7. t = TypeDefaults(x) BY <1>6
<1>8. CASE ~IsGitQuay(x) BY <1>2, <1>4, <1>7, <1>8 DEF TypeDefaults
<1>9. CASE IsGitQuay(x)
  <2>1. t = Merge(x, GIT_QUAY_DEFAULTS) BY <1>7, <1>9 DEF TypeDefaults
  <2>2. IsGitQuay(S) BY <1>4, <1>9, NearGitQuay
  <2>3. ASSUME NEW r \in DOMAIN GIT_QUAY_DEFAULTS
        PROVE  Has(x, r) \/ (IsScheduled(S) /\ r = YodaPath)
    <3>1. DefaultLeaf(r) /\ r \in Paths BY DefaultLeaves DEF DefaultLeaf
    <3>2. r # VersionPath
      <4>1. VersionPath \notin {NamePath, TypePath, ImagePath, EnvironmentPath}
        BY NamedPaths, AppPaths
      <4>2. At(VersionPath, 1) = "deployment" BY NamedPaths
      <4>3. "app" \in Keys /\ "yoda_register" \in Keys /\ "name" \in Keys BY DefaultKeys
      <4>4. /\ At(TemplatePath("app", "name"), 1) = "templates"
            /\ At(TemplatePath("yoda_register", "name"), 1) = "templates"
        BY <4>3, KeyPaths
      <4> QED BY <4>1, <4>2, <4>4, Quay
    <3>3. ~IsPrefix(r, VersionPath) BY <3>1, <3>2, DefaultsApart
    <3>4. Has(S, r) => Has(x, r) BY <1>4, <3>1, <3>3, NearHas
    <3> QED BY <1>1, <2>2, <3>4 DEF Complete
  <2>4. ASSUME IsScheduled(S), NEW p \in DOMAIN x PROVE ~IsPrefix(p, YodaPath)
    <3>1. p \in DOMAIN S /\ p \in Paths /\ p # <<>>
      BY <1>2 DEF Shaped, IsDictionary
    <3>2. ASSUME IsPrefix(p, YodaPath) PROVE FALSE
      <4>1. /\ At(p, 1) = "templates" /\ (2 <= Depth(p) => At(p, 2) = "yoda_register")
        BY <3>1, <3>2, YodaAt, Elements
      <4>2. Depth(p) \in Nat BY <3>1, Depths
      <4> QED BY <1>3, <2>4, <3>1, <4>1, <4>2 DEF Aside
    <3> QED BY <3>2
  <2>5. \A r \in DOMAIN GIT_QUAY_DEFAULTS : Has(x, r) \/ \A p \in DOMAIN x : ~IsPrefix(p, r)
    BY <2>3, <2>4
  <2>6. Aside(YodaPath) /\ Depth(YodaPath) >= 3 BY YodaAt DEF Aside
  <2>7. \A r \in DOMAIN GIT_QUAY_DEFAULTS :
          Has(x, r) \/ r = VersionPath \/ (IsScheduled(S) /\ Aside(r) /\ Depth(r) >= 3)
    BY <2>3, <2>6
  <2>8. Shaped(GIT_QUAY_DEFAULTS) BY Quay
  <2>9. /\ Near(t, S)
        /\ VersionPath \in DOMAIN t <=>
             \/ VersionPath \in DOMAIN x
             \/ VersionPath \in DOMAIN GIT_QUAY_DEFAULTS /\ ~Has(x, VersionPath)
    BY <1>4, <2>1, <2>5, <2>7, <2>8, NearMerge
  <2>10. VersionPath \notin DOMAIN GIT_QUAY_DEFAULTS
    <3>1. VersionPath # YodaPath /\ At(VersionPath, 1) = "deployment" BY NamedPaths, YodaAt
    <3>2. \A r \in DOMAIN GIT_QUAY_DEFAULTS : Has(x, r) \/ r = YodaPath BY <2>3
    <3>3. ASSUME Has(x, VersionPath) PROVE FALSE
      <4>1. VersionPath \in DOMAIN x
        BY <1>2, <3>3, AtomicLeaf, AtomicPaths, NamedPaths
      <4> QED BY <1>2, <4>1
    <3> QED BY <3>1, <3>2, <3>3
  <2> QED BY <1>2, <2>9, <2>10
<1> QED BY <1>8, <1>9

\* and with the general ones.
LEMMA NearGeneral ==
  ASSUME NEW S, Fixed(S), NEW x, x = CloneDeployment(S), NEW g, g = GeneralDefaults(x)
  PROVE  Near(g, S) /\ VersionPath \in DOMAIN g
<1> DEFINE t == TypeDefaults(Merge(x, Leaf(TypePath, "git-quay")))
           d == Merge(t, DEFAULT_DEFAULTS)
<1>1. Near(t, S) /\ VersionPath \notin DOMAIN t BY NearType
<1>2. g = IF IsGitQuay(d) THEN GitQuayDefaults(d) ELSE d BY DEF GeneralDefaults
<1> HIDE DEF t
<1>3. Shaped(t) /\ Shaped(S) /\ Complete(S) BY <1>1 DEF Near, Fixed
<1>4. ASSUME NEW r \in DOMAIN DEFAULT_DEFAULTS PROVE Has(t, r) \/ r = VersionPath
  <2>1. DefaultLeaf(r) /\ r \in Paths BY DefaultLeaves DEF DefaultLeaf
  <2>2. r # VersionPath => ~IsPrefix(r, VersionPath) BY <2>1, DefaultsApart
  <2>3. Has(S, r) BY <1>3 DEF Complete
  <2> QED BY <1>1, <2>1, <2>2, <2>3, NearHas
<1>5. TypePath \in DOMAIN t
  <2>1. TypePath \in DOMAIN DEFAULT_DEFAULTS /\ TypePath # VersionPath
    BY General, NamedPaths
  <2> QED BY <1>3, <1>4, <2>1, AtomicLeaf, AtomicPaths, NamedPaths
<1>6. ASSUME NEW p \in DOMAIN t, IsPrefix(p, VersionPath) PROVE FALSE
  <2>1. p \in Paths /\ p # <<>> BY <1>3 DEF Shaped, IsDictionary
  <2>2. /\ Depth(p) \in Nat /\ 1 <= Depth(p) /\ Depth(p) <= 2
        /\ At(p, 1) = "deployment" /\ (Depth(p) = 2 => p = VersionPath)
    BY <1>6, <2>1, NamedPaths, Elements
  <2>3. Depth(p) = 1 BY <1>1, <2>2
  <2>4. \A i : i \in 1 .. 1 <=> i = 1 OBVIOUS
  <2>5. IsPrefix(p, TypePath) BY <2>1, <2>2, <2>3, <2>4, NamedPaths, PrefixAt
  <2>6. p = TypePath BY <1>3, <1>5, <2>5 DEF Shaped, IsDictionary
  <2> QED BY <2>3, <2>6, NamedPaths
<1>7. ~Has(t, VersionPath)
  BY <1>1, <1>3, AtomicLeaf, AtomicPaths, NamedPaths
<1>8. VersionPath \in DOMAIN DEFAULT_DEFAULTS /\ Shaped(DEFAULT_DEFAULTS) BY General
<1>9. \A r \in DOMAIN DEFAULT_DEFAULTS : Has(t, r) \/ \A p \in DOMAIN t : ~IsPrefix(p, r)
  BY <1>4, <1>6
<1>10. \A r \in DOMAIN DEFAULT_DEFAULTS :
         Has(t, r) \/ r = VersionPath \/ (IsScheduled(S) /\ Aside(r) /\ Depth(r) >= 3)
  BY <1>4
<1>11. /\ Near(d, S)
       /\ VersionPath \in DOMAIN d <=>
            \/ VersionPath \in DOMAIN t
            \/ VersionPath \in DOMAIN DEFAULT_DEFAULTS /\ ~Has(t, VersionPath)
  BY <1>1, <1>8, <1>9, <1>10, NearMerge
<1>12. VersionPath \in DOMAIN d BY <1>7, <1>8, <1>11
<1> HIDE DEF d
<1>13. CASE ~IsGitQuay(d) BY <1>2, <1>11, <1>12, <1>13
<1>14. CASE IsGitQuay(d)
  <2>1. g = GitQuayDefaults(d) BY <1>2, <1>14
  <2>2. Shaped(d) BY <1>11 DEF Near
  <2>3. ASSUME NEW r \in {GitPath("ref"), GitPath("commit")} PROVE d[r] # EmptyDict
    <3>1. "ref" \in Keys /\ "commit" \in Keys BY DefaultKeys
    <3>2. r \in Paths /\ Atomic(r) /\ At(r, 1) = "git" BY <3>1, KeyPaths, AtomicPaths
    <3>3. r \in DOMAIN DEFAULT_DEFAULTS /\ DefaultLeaf(r) /\ r # VersionPath
      BY <3>2, General, DefaultLeaves, NamedPaths
    <3>4. Has(S, r) /\ ~IsPrefix(r, VersionPath) BY <1>3, <3>3, DefaultsApart DEF Complete
    <3>5. Has(d, r) BY <1>11, <3>2, <3>4, NearHas
    <3> QED BY <2>2, <3>2, <3>5, AtomicLeaf
  <2>4. /\ Shaped(GitQuayDefaults(d))
        /\ \A p : p \in DOMAIN GitQuayDefaults(d) <=> p \in DOMAIN d
        /\ \A p \in DOMAIN d :
             p \notin {NamePath, ImagePath} => GitQuayDefaults(d)[p] = d[p]
        /\ \A p \in DOMAIN d :
             d[p] \notin FormatFields => GitQuayDefaults(d)[p] = d[p]
    BY <2>2, <2>3, FormatStage
  <2>5. IsGitQuay(S) BY <1>11, <1>14, NearGitQuay
  <2>6. \A p \in {NamePath, ImagePath} : p \in DOMAIN S => S[p] \notin FormatFields
    BY <1>3, <2>5 DEF Complete
  <2>7. ASSUME NEW p, Covered(S, p)
        PROVE  /\ p \in DOMAIN g <=> p \in DOMAIN S
               /\ p \in DOMAIN S => g[p] = S[p]
    <3>1. /\ p \in DOMAIN d <=> p \in DOMAIN S
          /\ p \in DOMAIN S => d[p] = S[p]
      BY <1>11, <2>7 DEF Near
    <3> QED BY <2>1, <2>4, <2>6, <3>1
  <2>8. Near(g, S) BY <1>11, <2>1, <2>4, <2>7 DEF Near
  <2> QED BY <1>12, <2>1, <2>4, <2>8
<1> QED BY <1>13, <1>14

\* The defaults of its templates
LEMMA NearTemplates ==
  ASSUME NEW S, Fixed(S), NEW x, x = CloneDeployment(S), NEW w, w = WithDefaults(x)
  PROVE  Near(w, S) /\ VersionPath \in DOMAIN w
<1> DEFINE g == GeneralDefaults(x)
           keys == KeysAt(g, TemplatesPath)
           f == ForEach(TemplatesPath, keys, TEMPLATE_DEFAULTS)
<1>1. Near(g, S) /\ VersionPath \in DOMAIN g BY NearGeneral
<1>2. w = Merge(g, f) BY DEF WithDefaults, TemplateDefaults
<1> HIDE DEF g
<1>3. Shaped(g) /\ Shaped(S) /\ Tasks(S) /\ (IsScheduled(S) => Timed(S)) BY <1>1 DEF Near, Fixed
<1>4. keys \in SUBSET Keys BY <1>3, KeysInKeys DEF Shaped
<1>5. \A t : t \in keys <=>
        \E p \in DOMAIN g : Depth(p) >= 2 /\ At(p, 1) = "templates" /\ At(p, 2) = t
  BY <1>3, TemplateKeys DEF Shaped
<1>6. \A t : t \in KeysAt(S, TemplatesPath) <=>
        \E p \in DOMAIN S : Depth(p) >= 2 /\ At(p, 1) = "templates" /\ At(p, 2) = t
  BY <1>3, TemplateKeys DEF Shaped
<1> HIDE DEF keys
<1>7. /\ Shaped(f)
      /\ \A q : q \in DOMAIN f <=>
           \E t \in keys : q \in {TemplatePath(t, "enabled"), TemplatePath(t, "args")}
  BY <1>4, EachTemplate
<1> HIDE DEF f
<1>8. ASSUME NEW t \in keys, NEW q \in {TemplatePath(t, "enabled"), TemplatePath(t, "args")}
      PROVE  q \in Paths /\ q # <<>> /\ Depth(q) = 3 /\ At(q, 1) = "templates" /\ At(q, 2) = t
  <2>1. "enabled" \in Keys /\ "args" \in Keys /\ t \in Keys BY <1>4, DefaultKeys
  <2>2. TemplatePath(t, "enabled") # <<>> /\ TemplatePath(t, "args") # <<>> BY DEF TemplatePath
  <2> QED BY <2>1, <2>2, KeyPaths
<1>9. ASSUME NEW t \in keys, NEW q \in {TemplatePath(t, "enabled"), TemplatePath(t, "args")},
             ~(IsScheduled(S) /\ t = "yoda_register")
      PROVE  Has(g, q)
  <2>1. PICK p \in DOMAIN g : Depth(p) >= 2 /\ At(p, 1) = "templates" /\ At(p, 2) = t
    BY <1>5
  <2>2. p \in Paths BY <1>3 DEF Shaped, IsDictionary
  <2>3. Covered(S, p)
    <3>1. p # VersionPath BY <2>1, NamedPaths
    <3> QED BY <1>9, <2>1, <2>2, <3>1 DEF Covered, Aside
  <2>4. p \in DOMAIN S BY <1>1, <2>3 DEF Near
  <2>5. t \in KeysAt(S, TemplatesPath) BY <1>6, <2>1, <2>4
  <2>6. TemplatePath(t, "enabled") \in DOMAIN S /\ Has(S, TemplatePath(t, "args"))
    BY <1>3, <2>5 DEF Tasks
  <2>7. q \in Paths /\ q # <<>> /\ At(q, 1) = "templates" BY <1>8
  <2>8. Has(S, q) BY <2>6, <2>7, PrefixOrder DEF Has
  <2>9. ~IsPrefix(q, VersionPath)
    <3>1. VersionPath \in Paths /\ VersionPath # <<>> /\ At(VersionPath, 1) = "deployment"
      BY NamedPaths DEF VersionPath
    <3> QED BY <2>7, <3>1, ApartAt
  <2> QED BY <1>1, <2>7, <2>8, <2>9, NearHas
<1>10. ASSUME NEW t \in keys, NEW q \in {TemplatePath(t, "enabled"), TemplatePath(t, "args")},
              IsScheduled(S), t = "yoda_register", NEW p \in DOMAIN g, IsPrefix(p, q)
       PROVE  p = q
  <2>1. q \in Paths /\ q # <<>> /\ Depth(q) = 3 /\ At(q, 1) = "templates" /\ At(q, 2) = t
    BY <1>8
  <2>2. p \in Paths /\ p # <<>> BY <1>3 DEF Shaped, IsDictionary
  <2>3. /\ Depth(p) \in Nat /\ 1 <= Depth(p) /\ Depth(p) <= 3
        /\ At(p, 1) = "templates" /\ (2 <= Depth(p) => At(p, 2) = "yoda_register")
        /\ Depth(p) = 3 => p = q
    BY <1>10, <2>1, <2>2, Elements
  <2>4. Depth(p) # 1
    <3>1. SUFFICES ASSUME Depth(p) = 1 PROVE FALSE OBVIOUS
    <3>2. p # VersionPath BY <2>3, NamedPaths
    <3>3. Covered(S, p) BY <2>2, <3>1, <3>2 DEF Covered, Aside
    <3>4. p \in DOMAIN S BY <1>1, <3>3 DEF Near
    <3> QED BY <1>3, <1>10, <2>3, <3>1, <3>4 DEF Timed
  <2>5. Depth(p) # 2 BY <1>1, <1>10, <2>3 DEF Near, Aside
  <2> QED BY <2>3, <2>4, <2>5
<1>11. ASSUME NEW q \in DOMAIN f
       PROVE  /\ Has(g, q) \/ \A p \in DOMAIN g : ~IsPrefix(p, q)
              /\ Has(g, q) \/ q = VersionPath \/ (IsScheduled(S) /\ Aside(q) /\ Depth(q) >= 3)
  <2>1. PICK t \in keys : q \in {TemplatePath(t, "enabled"), TemplatePath(t, "args")}
    BY <1>7
  <2>2. q \in Paths /\ Depth(q) = 3 /\ At(q, 1) = "templates" /\ At(q, 2) = t BY <1>8, <2>1
  <2>3. CASE ~(IsScheduled(S) /\ t = "yoda_register")
    <3>1. Has(g, q) BY <1>9, <2>1, <2>3
    <3> QED BY <3>1
  <2>4. CASE IsScheduled(S) /\ t = "yoda_register"
    <3>1. \A p \in DOMAIN g : IsPrefix(p, q) => p = q BY <1>10, <2>1, <2>4
    <3>2. q \in DOMAIN g => Has(g, q) BY <2>2, PrefixOrder DEF Has
    <3>3. Aside(q) BY <2>2, <2>4 DEF Aside
    <3> QED BY <2>2, <2>4, <3>1, <3>2, <3>3
  <2> QED BY <2>3, <2>4
<1>12. /\ Near(w, S)
       /\ VersionPath \in DOMAIN w <=>
            VersionPath \in DOMAIN g \/ (VersionPath \in DOMAIN f /\ ~Has(g, VersionPath))
  BY <1>1, <1>2, <1>7, <1>11, NearMerge
<1> QED BY <1>1, <1>12

\* The schedule finds proxy and check as it leaves them,
LEMMA UnwiredSame ==
  ASSUME NEW w, IsDictionary(w), Wired(w)
  PROVE  Unchecked(Unwired(w)) = w
<1>1. HostsPath \in Paths /\ ListenersPath \in Paths /\ UpstreamsPath \in Paths
  BY NamedPaths
<1>2. CheckPath("port") \in Paths /\ CheckPath("path") \in Paths
  <2>1. "port" \in Keys /\ "path" \in Keys BY DefaultKeys
  <2> QED BY <2>1, KeyPaths
<1>3. /\ Put(w, HostsPath, EmptyDict) = w
      /\ Put(w, ListenersPath, EmptyDict) = w
      /\ Put(w, UpstreamsPath, EmptyDict) = w
  BY <1>1, PutSame DEF Wired
<1>4. Put(w, CheckPath("port"), "None") = w
  <2>1. \A p \in Paths : \A v : p \in DOMAIN w /\ w[p] = v => Put(w, p, v) = w BY PutSame
  <2> QED BY <1>2, <2>1 DEF Wired
<1>5. Put(w, CheckPath("path"), "") = w
  <2>1. \A p \in Paths : \A v : p \in DOMAIN w /\ w[p] = v => Put(w, p, v) = w BY PutSame
  <2> QED BY <1>2, <2>1 DEF Wired
<1> QED BY <1>3, <1>4, <1>5 DEF Unwired, Unchecked

\* and both templates.
LEMMA ScheduledSame ==
  ASSUME NEW w, Shaped(w), IsScheduled(w), NEW t \in {"app", "timer"},
         ServicePath(t, "schedule") \in DOMAIN w,
         w[ServicePath(t, "schedule")] = w[SchedulePath],
         NEW e, e = Template(w, t)
  PROVE  /\ Merge(Leaf(ServicePath(t, "schedule"), w[SchedulePath]), e) = e
         /\ Shaped(e)
         /\ \A p : p \in DOMAIN e <=>
              p \in DOMAIN w /\ Depth(p) >= 2 /\ At(p, 1) = "templates" /\ At(p, 2) = t
         /\ \A p \in DOMAIN e : e[p] = w[p]
<1>1. t \in Keys BY TimerPaths
<1>2. /\ Shaped(e)
      /\ \A p : p \in DOMAIN e <=>
           p \in DOMAIN w /\ Depth(p) >= 2 /\ At(p, 1) = "templates" /\ At(p, 2) = t
      /\ \A q \in Paths : Depth(q) >= 2 /\ At(q, 1) = "templates" /\ At(q, 2) = t =>
           Agree(e, w, q)
  BY <1>1, TemplateParts
<1>3. \A p \in DOMAIN e : e[p] = w[p]
  BY <1>2, SameAt DEF Shaped, IsDictionary
<1> DEFINE s == ServicePath(t, "schedule")
<1>4. s \in Paths /\ Depth(s) = 5 /\ At(s, 1) = "templates" /\ At(s, 2) = t
  BY TimerPaths
<1>5. s \in DOMAIN w /\ w[s] = w[SchedulePath] OBVIOUS
<1> HIDE DEF s
<1>6. s \in DOMAIN e /\ e[s] = w[SchedulePath] BY <1>2, <1>3, <1>4, <1>5
<1>7. e[s] # EmptyDict BY <1>6 DEF IsScheduled, Truthy
<1>8. Merge(Leaf(s, e[s]), e) = e BY <1>2, <1>6, <1>7, MergeInto DEF Shaped
<1>9. Merge(Leaf(s, w[SchedulePath]), e) = e BY <1>6, <1>8
<1> QED BY <1>2, <1>3, <1>9 DEF s

\* The timer is found as it is made.
LEMMA TimerSame ==
  ASSUME NEW w, Shaped(w), IsScheduled(w),
         ServicePath("timer", "schedule") \in DOMAIN w,
         w[ServicePath("timer", "schedule")] = w[SchedulePath],
         TemplatePath("timer", "name") \in DOMAIN w,
         TemplatePath("timer", "enabled") \in DOMAIN w,
         w[TemplatePath("timer", "enabled")] = "True"
  PROVE  Put(Timer(w), TemplatePath("timer", "enabled"), "True") = Template(w, "timer")
<1> DEFINE e == Template(w, "timer")
           np == TemplatePath("timer", "name")
           ap == TemplatePath("timer", "args")
           ep == TemplatePath("timer", "enabled")
           sp == ServicePath("timer", "schedule")
           v == w[TemplatePath("app", "name")]
           n == Leaf(np, v) ++ Leaf(ap, EmptyDict)
<1>1. \A t \in {"app", "timer"} : \A f :
        /\ ServicePath(t, "schedule") \in DOMAIN w
        /\ w[ServicePath(t, "schedule")] = w[SchedulePath]
        /\ f = Template(w, t)
        => /\ Merge(Leaf(ServicePath(t, "schedule"), w[SchedulePath]), f) = f
           /\ Shaped(f)
           /\ \A p : p \in DOMAIN f <=>
                p \in DOMAIN w /\ Depth(p) >= 2 /\ At(p, 1) = "templates" /\ At(p, 2) = t
           /\ \A p \in DOMAIN f : f[p] = w[p]
  BY ScheduledSame
<1>2. /\ Merge(Leaf(sp, w[SchedulePath]), e) = e
      /\ Shaped(e)
      /\ \A p : p \in DOMAIN e <=>
           p \in DOMAIN w /\ Depth(p) >= 2 /\ At(p, 1) = "templates" /\ At(p, 2) = "timer"
      /\ \A p \in DOMAIN e : e[p] = w[p]
  BY <1>1
<1>3. /\ np \in Paths /\ ap \in Paths /\ ep \in Paths /\ sp \in Paths
      /\ ~IsPrefix(np, ap) /\ ~IsPrefix(ap, np)
      /\ Depth(np) = 3 /\ At(np, 1) = "templates" /\ At(np, 2) = "timer"
      /\ Depth(ep) = 3 /\ At(ep, 1) = "templates" /\ At(ep, 2) = "timer"
      /\ Depth(sp) = 5 /\ At(sp, 1) = "templates" /\ At(sp, 2) = "timer"
      /\ At(sp, 3) = "args"
      /\ Depth(ap) = 3 /\ At(ap, 1) = "templates" /\ At(ap, 2) = "timer"
      /\ At(ap, 3) = "args"
  BY TimerPaths, ApartAt
<1>4. sp \in DOMAIN w /\ np \in DOMAIN w /\ ep \in DOMAIN w /\ w[ep] = "True" OBVIOUS
<1>5. Scheduled(w, "timer", e) = Merge(Leaf(sp, w[SchedulePath]), e) BY DEF Scheduled
<1>6. Timer(w) = Scheduled(w, "timer", Merge(e, n)) BY DEF Timer
<1> HIDE DEF e, np, ap, ep, sp, v
<1>7. IsDictionary(n)
  <2>1. IsDictionary(Leaf(np, v)) /\ IsDictionary(Leaf(ap, EmptyDict))
    BY <1>3, LeafDictionary
  <2>2. /\ \A p : p \in DOMAIN Leaf(np, v) <=> p = np
        /\ \A p : p \in DOMAIN Leaf(ap, EmptyDict) <=> p = ap
    BY LeafParts
  <2>3. \A p : p \in DOMAIN n <=> p = np \/ p = ap BY <2>2, JoinParts
  <2>4. IsFunction(n) BY JoinParts
  <2> HIDE DEF n
  <2> QED BY <1>3, <2>3, <2>4 DEF IsDictionary
<1>8. \A p \in DOMAIN n : p = np \/ p = ap
  <2>1. /\ \A p : p \in DOMAIN Leaf(np, v) <=> p = np
        /\ \A p : p \in DOMAIN Leaf(ap, EmptyDict) <=> p = ap
    BY LeafParts
  <2> QED BY <2>1, JoinParts
<1> HIDE DEF n
<1>9. Has(e, np) BY <1>2, <1>3, <1>4, PrefixOrder DEF Has
<1>10. Has(e, ap)
  <2>1. \A i : i \in 1 .. 3 <=> i = 1 \/ i = 2 \/ i = 3 OBVIOUS
  <2>2. IsPrefix(ap, sp) BY <1>3, <2>1, PrefixAt
  <2> QED BY <1>2, <1>3, <1>4, <2>2 DEF Has
<1>11. IsDictionary(e) BY <1>2 DEF Shaped
<1>12. Merge(e, n) = e
  <2>1. Sat(e, n) BY <1>8, <1>9, <1>10 DEF Sat
  <2> QED BY <1>7, <1>11, <2>1, MergeSame
<1>13. Timer(w) = e BY <1>2, <1>5, <1>6, <1>12
<1>14. ep \in DOMAIN e /\ e[ep] = "True" BY <1>2, <1>3, <1>4
<1>15. \A v1 : ep \in DOMAIN e /\ e[ep] = v1 => Put(e, ep, v1) = e
  BY <1>3, <1>11, PutSame
<1>16. Put(Timer(w), ep, "True") = e BY <1>13, <1>14, <1>15
<1> QED BY <1>16 DEF ep, e

\* The deployment is S but for the version.
Like(d, S) ==
  /\ Shaped(d)
  /\ \A p : p \in DOMAIN d <=> p \in DOMAIN S
  /\ \A p \in DOMAIN d : p # VersionPath => d[p] = S[p]

\* The schedule step drops the yoda-register again, and changes nothing else.
LEMMA KeptSchedule ==
  ASSUME NEW S, Fixed(S), NEW w, Near(w, S), VersionPath \in DOMAIN w, Tasks(w),
         NEW c, c = CheckAndApplySchedule(w)
  PROVE  Like(c, S)
<1>1. /\ Shaped(S) /\ SchedulePath \in DOMAIN S /\ (IsScheduled(S) => Wired(S) /\ Timed(S))
      /\ VersionPath \in DOMAIN S
  BY DEF Fixed
<1>2. Shaped(w) BY DEF Near
<1>3. \A q \in DOMAIN S : q # VersionPath => q \in DOMAIN w /\ w[q] = S[q] BY NearAt
<1>4. SchedulePath # VersionPath /\ SchedulePath \in Paths BY NamedPaths, ShortPaths
<1>5. SchedulePath \in DOMAIN w /\ w[SchedulePath] = S[SchedulePath] BY <1>1, <1>3, <1>4
<1>6. IsScheduled(w) <=> IsScheduled(S) BY <1>1, <1>5 DEF IsScheduled
<1>7. IsDictionary(w) /\ IsDictionary(S) BY <1>1, <1>2 DEF Shaped
<1>8. Merge(w, Leaf(SchedulePath, "None")) = w
  <2>1. IsDictionary(Leaf(SchedulePath, "None")) BY <1>4, LeafDictionary
  <2>2. \A q \in DOMAIN Leaf(SchedulePath, "None") : q = SchedulePath BY LeafParts
  <2>3. Has(w, SchedulePath) BY <1>4, <1>5, PrefixOrder DEF Has
  <2>4. Sat(w, Leaf(SchedulePath, "None")) BY <2>2, <2>3 DEF Sat
  <2> QED BY <1>7, <2>1, <2>4, MergeSame
<1> DEFINE rest == {p \in Paths : ~IsPrefix(TemplatesPath, p)}
<1>9. c = IF IsScheduled(w)
            THEN Only(Unchecked(Unwired(w)), rest) ++ ScheduledTemplates(w) ELSE w
  BY <1>8 DEF CheckAndApplySchedule
<1>10. CASE ~IsScheduled(S)
  <2>1. c = w BY <1>6, <1>9, <1>10
  <2>2. DOMAIN w \subseteq Paths /\ DOMAIN S \subseteq Paths BY <1>7 DEF IsDictionary
  <2>3. \A p \in Paths : p # VersionPath =>
          /\ p \in DOMAIN w <=> p \in DOMAIN S
          /\ p \in DOMAIN S => w[p] = S[p]
    BY <1>10 DEF Near, Covered
  <2> QED BY <1>1, <1>2, <2>1, <2>2, <2>3 DEF Like
<1>11. CASE IsScheduled(S)
  <2> DEFINE app == Template(w, "app")
             timer == Template(w, "timer")
             base == Only(w, rest)
  <2>1. Wired(S) /\ Timed(S) BY <1>1, <1>11
  <2>2. Wired(w)
    <3>1. "port" \in Keys /\ "path" \in Keys BY DefaultKeys
    <3>2. /\ At(HostsPath, 1) = "proxy" /\ At(ListenersPath, 1) = "proxy"
          /\ At(UpstreamsPath, 1) = "proxy" /\ At(VersionPath, 1) = "deployment"
          /\ Depth(VersionPath) = 2
      BY NamedPaths
    <3>3. \A k \in Keys : Depth(CheckPath(k)) = 3 BY KeyPaths
    <3>4. /\ CheckPath("port") # VersionPath /\ CheckPath("path") # VersionPath
          /\ \A q \in {HostsPath, ListenersPath, UpstreamsPath} : q # VersionPath
      BY <3>1, <3>2, <3>3
    <3> QED BY <1>3, <2>1, <3>4 DEF Wired
  <2>3. Unchecked(Unwired(w)) = w BY <1>7, <2>2, UnwiredSame
  <2>4. /\ \A t \in {"app", "timer"} :
             /\ ServicePath(t, "schedule") \in DOMAIN w
             /\ w[ServicePath(t, "schedule")] = w[SchedulePath]
        /\ AppEnabled(w) /\ TemplatePath("app", "name") \in DOMAIN w
        /\ TemplatePath("timer", "name") \in DOMAIN w
        /\ TemplatePath("timer", "enabled") \in DOMAIN w
        /\ w[TemplatePath("timer", "enabled")] = "True"
    <3>1. At(VersionPath, 1) = "deployment" BY NamedPaths
    <3>2. \A t \in {"app", "timer"} : ServicePath(t, "schedule") # VersionPath
      BY <3>1, TimerPaths
    <3>3. \A k \in {"name", "enabled"} :
            TemplatePath("app", k) # VersionPath /\ TemplatePath("timer", k) # VersionPath
      BY <3>1, TimerPaths
    <3>4. /\ TemplatePath("app", "name") # VersionPath
          /\ TemplatePath("app", "enabled") # VersionPath
          /\ TemplatePath("timer", "name") # VersionPath
          /\ TemplatePath("timer", "enabled") # VersionPath
      BY <3>3
    <3>5. \A t \in {"app", "timer"} :
             /\ ServicePath(t, "schedule") \in DOMAIN S
             /\ S[ServicePath(t, "schedule")] = S[SchedulePath]
      BY <2>1 DEF Timed
    <3>6. \A t \in {"app", "timer"} :
             /\ ServicePath(t, "schedule") \in DOMAIN w
             /\ w[ServicePath(t, "schedule")] = w[SchedulePath]
      BY <1>3, <1>5, <3>2, <3>5
    <3>7. /\ TemplatePath("app", "enabled") \in DOMAIN S
          /\ Truthy(S[TemplatePath("app", "enabled")])
          /\ TemplatePath("app", "name") \in DOMAIN S
          /\ TemplatePath("timer", "name") \in DOMAIN S
          /\ TemplatePath("timer", "enabled") \in DOMAIN S
          /\ S[TemplatePath("timer", "enabled")] = "True"
      BY <2>1 DEF Timed, AppEnabled
    <3>8. AppEnabled(w) BY <1>3, <3>4, <3>7 DEF AppEnabled
    <3> QED BY <1>3, <3>4, <3>6, <3>7, <3>8
  <2>5. \A t \in {"app", "timer"} : \A f :
          f = Template(w, t) =>
            /\ Merge(Leaf(ServicePath(t, "schedule"), w[SchedulePath]), f) = f
            /\ \A p : p \in DOMAIN f <=>
                 p \in DOMAIN w /\ Depth(p) >= 2 /\ At(p, 1) = "templates" /\ At(p, 2) = t
            /\ \A p \in DOMAIN f : f[p] = w[p]
    BY <1>2, <1>6, <1>11, <2>4, ScheduledSame
  <2>6. /\ \A p : p \in DOMAIN app <=>
             p \in DOMAIN w /\ Depth(p) >= 2 /\ At(p, 1) = "templates" /\ At(p, 2) = "app"
        /\ \A p \in DOMAIN app : app[p] = w[p]
        /\ \A p : p \in DOMAIN timer <=>
             p \in DOMAIN w /\ Depth(p) >= 2 /\ At(p, 1) = "templates" /\ At(p, 2) = "timer"
        /\ \A p \in DOMAIN timer : timer[p] = w[p]
    BY <2>5
  <2>7. Scheduled(w, "app", app) = app
    <3>1. Merge(Leaf(ServicePath("app", "schedule"), w[SchedulePath]), app) = app
      BY <2>5
    <3> QED BY <3>1 DEF Scheduled
  <2>8. Put(Timer(w), TemplatePath("timer", "enabled"), "True") = timer
    <3>1. /\ ServicePath("timer", "schedule") \in DOMAIN w
          /\ w[ServicePath("timer", "schedule")] = w[SchedulePath]
      BY <2>4
    <3> QED BY <1>2, <1>6, <1>11, <2>4, <3>1, TimerSame
  <2>9. ScheduledTemplates(w) = app ++ timer
    BY <2>4, <2>7, <2>8 DEF ScheduledTemplates, AppEnabled
  <2>10. c = base ++ (app ++ timer) BY <1>6, <1>9, <1>11, <2>3, <2>9
  <2> HIDE DEF app, timer
  <2>11. /\ \A p : p \in DOMAIN base <=> p \in DOMAIN w /\ p \in rest
         /\ \A p \in DOMAIN base : base[p] = w[p]
    BY OnlyParts
  <2> HIDE DEF base
  <2>12. /\ \A p : p \in DOMAIN c <=> p \in DOMAIN base \/ p \in DOMAIN app \/ p \in DOMAIN timer
         /\ \A p \in DOMAIN c : c[p] = w[p]
    BY <2>6, <2>10, <2>11, JoinParts
  <2>13. \A p \in Paths : p \in rest <=> (p = <<>> \/ At(p, 1) # "templates")
    <3>1. TemplatesPath \in Paths /\ Depth(TemplatesPath) = 1 /\ At(TemplatesPath, 1) = "templates"
      BY ShortPaths
    <3>2. \A i : i \in 1 .. 1 <=> i = 1 OBVIOUS
    <3>3. ASSUME NEW p \in Paths
          PROVE  IsPrefix(TemplatesPath, p) <=> 1 <= Depth(p) /\ At(p, 1) = "templates"
      BY <3>1, <3>2, PrefixAt
    <3> QED BY <3>3, Depths
  <2> HIDE DEF rest
  <2>14. ASSUME NEW p \in DOMAIN S PROVE p \in DOMAIN c
    <3>1. p \in Paths /\ p # <<>> BY <1>1 DEF Shaped, IsDictionary
    <3>2. p \in DOMAIN w BY <1>3
    <3>3. At(p, 1) = "templates" => Depth(p) >= 2 /\ At(p, 2) \in {"app", "timer"}
      BY <2>1 DEF Timed
    <3> QED BY <2>6, <2>11, <2>12, <2>13, <3>1, <3>2, <3>3
  <2>15. ASSUME NEW p \in DOMAIN c PROVE p \in DOMAIN S
    <3>1. p \in DOMAIN w BY <2>6, <2>11, <2>12
    <3>2. p \in Paths /\ p # <<>> BY <1>2, <3>1 DEF Shaped, IsDictionary
    <3>3. ~Aside(p) BY <2>6, <2>11, <2>12, <2>13, <3>2 DEF Aside
    <3> QED BY <1>1, <3>1, <3>2, <3>3 DEF Near, Covered
  <2>16. Shaped(c)
    BY <1>2, <2>4, ScheduleStage
  <2>17. \A p \in DOMAIN c : p # VersionPath => c[p] = S[p]
    BY <1>3, <2>12, <2>15
  <2> QED BY <2>14, <2>15, <2>16, <2>17 DEF Like
<1> QED BY <1>10, <1>11

\* The version is not a matter of likeness.
LEMMA KeptVersion ==
  ASSUME NEW S, Fixed(S), NEW c, Like(c, S), NEW v, v = ApplyVersion(c)
  PROVE  Like(v, S)
<1>1. /\ Shaped(S) /\ StatePath \in DOMAIN S /\ S[StatePath] = "NEW"
      /\ VersionPath \in DOMAIN S
  BY DEF Fixed
<1>2. /\ Shaped(c) /\ VersionPath \in DOMAIN c /\ StatePath \in DOMAIN c
      /\ \A p \in DOMAIN c : p \in Paths /\ p # <<>> /\ Fits(p, c[p])
      /\ \A p, q \in DOMAIN c : IsPrefix(p, q) => p = q
  BY <1>1 DEF Like, Shaped, IsDictionary
<1>3. /\ Shaped(v)
      /\ \A q \in Paths : q # <<>> /\ At(q, 1) # "state" /\ ~IsPrefix(q, VersionPath) =>
           Agree(v, c, q)
      /\ VersionPath \in DOMAIN c => VersionPath \in DOMAIN v
      /\ \A p \in DOMAIN v : p # StatePath => p \in DOMAIN c
      /\ StatePath \in DOMAIN v /\ v[StatePath] = "NEW"
  BY <1>2, VersionStage
<1>4. ASSUME NEW p \in DOMAIN c, p # VersionPath
      PROVE  p \in DOMAIN v /\ v[p] = S[p]
  <2>1. p \in Paths /\ p # <<>> /\ Fits(p, c[p]) /\ c[p] = S[p] BY <1>2, <1>4 DEF Like
  <2>2. CASE At(p, 1) = "state"
    <3>1. Depth(p) = 1 BY <2>1, <2>2, FitsOther
    <3>2. \A i : i \in 1 .. 1 <=> i = 1 OBVIOUS
    <3>3. p = StatePath BY <2>1, <2>2, <3>1, <3>2, ShortPaths, SamePath
    <3> QED BY <1>1, <1>3, <3>3
  <2>3. CASE At(p, 1) # "state"
    <3>1. ~IsPrefix(p, VersionPath) BY <1>2, <1>4
    <3>2. Agree(v, c, p) BY <1>3, <2>1, <2>3, <3>1
    <3> QED BY <2>1, <3>2, SameAt
  <2> QED BY <2>2, <2>3
<1>5. \A p : p \in DOMAIN v <=> p \in DOMAIN c BY <1>2, <1>3, <1>4
<1>6. \A p : p \in DOMAIN v <=> p \in DOMAIN S BY <1>5 DEF Like
<1> QED BY <1>3, <1>4, <1>5, <1>6 DEF Like

\* What is like S has the same proxy, schedule and paths.
LEMMA LikeProxied ==
  ASSUME NEW S, Shaped(S), NEW d, Like(d, S)
  PROVE  /\ Proxied(d, S)
         /\ IsScheduled(d) <=> IsScheduled(S)
         /\ \A p : Has(d, p) <=> Has(S, p)
         /\ \A p : Above(d, p) <=> Above(S, p)
<1>1. /\ VersionPath \in Paths /\ VersionPath # <<>> /\ At(VersionPath, 1) = "deployment"
      /\ At(SchedulePath, 1) = "schedule"
  BY NamedPaths, ShortPaths DEF VersionPath
<1>2. /\ \A p : p \in DOMAIN d <=> p \in DOMAIN S
      /\ \A p \in DOMAIN d : p # VersionPath => d[p] = S[p]
  BY DEF Like
<1>3. Proxied(d, S)
  <2>1. ASSUME NEW q \in Paths, At(q, 1) = "proxy", Depth(q) >= 3
        PROVE  Agree(d, S, q)
    <3>1. q # <<>> BY <2>1, Depths
    <3>2. ~IsPrefix(q, VersionPath) BY <1>1, <2>1, <3>1, ApartAt
    <3> QED BY <1>2, <3>2 DEF Agree
  <2> QED BY <2>1 DEF Proxied
<1>4. SchedulePath # VersionPath BY <1>1
<1>5. IsScheduled(d) <=> IsScheduled(S) BY <1>2, <1>4 DEF IsScheduled
<1>6. \A p : Has(d, p) <=> Has(S, p) BY <1>2 DEF Has
<1>7. ASSUME NEW p \in DOMAIN S PROVE d[p] # EmptyDict <=> S[p] # EmptyDict
  <2>1. CASE p = VersionPath
    <3>1. Shaped(d) /\ p \in DOMAIN d BY <1>2 DEF Like
    <3>2. Has(S, p) /\ Has(d, p) BY <1>1, <1>2, <2>1, PrefixOrder DEF Has
    <3> QED BY <1>1, <2>1, <3>1, <3>2, AtomicLeaf, AtomicPaths
  <2>2. CASE p # VersionPath BY <1>2, <2>2
  <2> QED BY <2>1, <2>2
<1>8. \A p : Above(d, p) <=> Above(S, p) BY <1>2, <1>7 DEF Above
<1> QED BY <1>3, <1>5, <1>6, <1>8

\* The upstreams are found as they are made,
LEMMA KeptUpstreams ==
  ASSUME NEW S, Fixed(S), NEW v, Like(v, S)
  PROVE  ApplyUpstreams(v) = v
<1> DEFINE ports == GetExposedPorts(v)
           f == ForEach(UpstreamsPath, ports, UPSTREAM_DEFAULTS)
<1>1. Shaped(S) /\ Routed(S) /\ Shaped(v) BY DEF Fixed, Like
<1>2. Proxied(v, S) BY <1>1, LikeProxied
<1>3. ports = GetExposedPorts(S) /\ KeysAt(v, UpstreamsPath) = KeysAt(S, UpstreamsPath)
  BY <1>1, <1>2, PortsSame
<1>4. ports = KeysAt(S, UpstreamsPath) BY <1>1, <1>3 DEF Routed
<1>5. ports \in SUBSET Keys BY <1>1, <1>4, KeysInKeys DEF Shaped
<1>6. ApplyUpstreams(v) =
        Only(Merge(v, f), {p \in DOMAIN Merge(v, f) : ~UselessUri(Merge(v, f), p)})
  BY DEF ApplyUpstreams
<1> HIDE DEF ports
<1>7. /\ Shaped(f)
      /\ \A q : q \in DOMAIN f <=>
           \E u \in ports : \/ q = UpstreamPath(u, "mode")
                           \/ q = UpstreamPath(u, "ttl")
                           \/ q = HealthPath(u, "timeout")
  BY <1>5, EachUpstream
<1> HIDE DEF f
<1>8. \A k \in ports :
        /\ UpstreamPath(k, "mode") \in DOMAIN S /\ UpstreamPath(k, "ttl") \in DOMAIN S
        /\ HealthPath(k, "timeout") \in DOMAIN S
  BY <1>1, <1>4 DEF Routed
<1>9. \A q \in DOMAIN f : q \in DOMAIN v
  <2>1. \A q \in DOMAIN f : q \in DOMAIN S BY <1>7, <1>8
  <2> QED BY <2>1 DEF Like
<1>10. Sat(v, f)
  <2>1. \A q \in DOMAIN v : Has(v, q)
    BY <1>1, PrefixOrder DEF Has, Shaped, IsDictionary
  <2> QED BY <1>9, <2>1 DEF Sat
<1>11. Merge(v, f) = v BY <1>1, <1>7, <1>10, MergeSame DEF Shaped
<1>12. ASSUME NEW p \in DOMAIN v PROVE ~UselessUri(v, p)
  <2>1. SUFFICES ASSUME UselessUri(v, p) PROVE FALSE OBVIOUS
  <2>2. p \in Paths /\ p \in DOMAIN S BY <1>1 DEF Shaped, IsDictionary, Like
  <2>3. /\ Depth(p) >= 4 /\ At(p, 1) = "proxy" /\ At(p, 2) = "upstreams"
    BY <2>1, <2>2, HealthAt
  <2>4. At(p, 3) \in KeysAt(S, UpstreamsPath) /\ At(p, 3) \in Keys
    <3>1. Depth(p) \in Nat BY <2>2, Depths
    <3>2. Depth(p) >= 3 BY <2>3, <3>1
    <3>3. At(p, 3) \in KeysAt(S, UpstreamsPath)
      BY <1>1, <2>2, <2>3, <3>2, UpstreamKeys DEF Shaped
    <3> QED BY <1>1, <3>3, KeysInKeys DEF Shaped
  <2> DEFINE m == UpstreamPath(At(p, 3), "mode")
  <2>5. m \in DOMAIN S /\ m \in Paths /\ At(m, 1) = "proxy"
    BY <1>4, <1>8, <2>4, UpstreamPaths
  <2>6. m = UpstreamPath(p[3], "mode") BY DEF At
  <2> HIDE DEF m
  <2>7. p # VersionPath /\ m # VersionPath BY <2>3, <2>5, NamedPaths
  <2>8. v[p] = S[p] /\ v[m] = S[m] BY <2>2, <2>5, <2>7 DEF Like
  <2>9. UselessUri(S, p) BY <2>1, <2>6, <2>8 DEF UselessUri
  <2> QED BY <1>1, <2>2, <2>9 DEF Routed
<1>13. ApplyUpstreams(v) = Only(v, {p \in DOMAIN v : ~UselessUri(v, p)}) BY <1>6, <1>11
<1>14. {p \in DOMAIN v : ~UselessUri(v, p)} = DOMAIN v BY <1>12
<1>15. Only(v, DOMAIN v) = v BY <1>1 DEF Only, Shaped, IsDictionary, IsFunction
<1> QED BY <1>13, <1>14, <1>15

\* (whether defaults are there depends on the paths only)
LEMMA SatLike ==
  ASSUME NEW d, NEW S, NEW e, NEW f,
         \A p : Has(d, p) <=> Has(S, p), \A p : Above(d, p) <=> Above(S, p),
         \A q : q \in DOMAIN e <=> q \in DOMAIN f, Sat(S, f)
  PROVE  Sat(d, e)
BY DEF Sat

\* and so are the arguments.
LEMMA KeptArguments ==
  ASSUME NEW S, Fixed(S), NEW u, Like(u, S)
  PROVE  AppFixed(u)
<1>1. /\ Shaped(S) /\ Tasks(S) /\ AppFixed(S) /\ Shaped(u)
  BY DEF Fixed, Like
<1>2. /\ IsScheduled(u) <=> IsScheduled(S)
      /\ \A p : Has(u, p) <=> Has(S, p)
      /\ \A p : Above(u, p) <=> Above(S, p)
  BY <1>1, LikeProxied
<1>3. /\ \A p : p \in DOMAIN u <=> p \in DOMAIN S
      /\ \A p \in DOMAIN u : p # VersionPath => u[p] = S[p]
  BY DEF Like
<1>4. Sat(u, GeneralEnvironment(u))
  <2> DEFINE e == GeneralEnvironment(u)
             f == GeneralEnvironment(S)
  <2>1. \A q : q \in DOMAIN e <=> \E p \in DOMAIN u : IsShared(p) /\ q = Moved(p)
    BY <1>1, EnvironmentStage
  <2>2. \A q : q \in DOMAIN f <=> \E p \in DOMAIN S : IsShared(p) /\ q = Moved(p)
    BY <1>1, EnvironmentStage
  <2>3. Sat(S, f) BY <1>1 DEF AppFixed
  <2> HIDE DEF e, f
  <2>4. \A q : q \in DOMAIN e <=> q \in DOMAIN f BY <1>3, <2>1, <2>2
  <2>5. Sat(u, e) BY <1>2, <2>3, <2>4, SatLike
  <2> QED BY <2>5 DEF e
<1>5. Sat(u, Discover(u))
  <2> DEFINE e == Discover(u)
             f == Discover(S)
  <2>1. /\ IsScheduled(u) => \A q : q \notin DOMAIN e
        /\ ~IsScheduled(u) => \A q : q \in DOMAIN e <=> \E k \in Discovered : q = VariablePath(k)
    BY DiscoverStage
  <2>2. /\ IsScheduled(S) => \A q : q \notin DOMAIN f
        /\ ~IsScheduled(S) => \A q : q \in DOMAIN f <=> \E k \in Discovered : q = VariablePath(k)
    BY DiscoverStage
  <2>3. Sat(S, f) BY <1>1 DEF AppFixed
  <2> HIDE DEF e, f
  <2>4. \A q : q \in DOMAIN e <=> q \in DOMAIN f BY <1>2, <2>1, <2>2
  <2>5. Sat(u, e) BY <1>2, <2>3, <2>4, SatLike
  <2> QED BY <2>5 DEF e
<1>6. Sidekicks(u) = Sidekicks(S)
  <2>1. IsDictionary(u) /\ IsDictionary(S) BY <1>1 DEF Shaped
  <2>2. \A k : k \in KeysAt(u, TemplatesPath) <=> k \in KeysAt(S, TemplatesPath)
    <3>1. \A k : k \in KeysAt(u, TemplatesPath) <=>
            \E p \in DOMAIN u : Depth(p) >= 2 /\ At(p, 1) = "templates" /\ At(p, 2) = k
      BY <2>1, TemplateKeys
    <3>2. \A k : k \in KeysAt(S, TemplatesPath) <=>
            \E p \in DOMAIN S : Depth(p) >= 2 /\ At(p, 1) = "templates" /\ At(p, 2) = k
      BY <2>1, TemplateKeys
    <3> QED BY <1>3, <3>1, <3>2
  <2>3. KeysAt(u, TemplatesPath) = KeysAt(S, TemplatesPath) BY <2>2
  <2>4. ASSUME NEW t \in KeysAt(S, TemplatesPath)
        PROVE  u[TemplatePath(t, "enabled")] = S[TemplatePath(t, "enabled")]
    <3>1. TemplatePath(t, "enabled") \in DOMAIN S BY <1>1, <2>4 DEF Tasks
    <3>2. t \in Keys /\ "enabled" \in Keys BY <2>1, <2>4, KeysInKeys, DefaultKeys
    <3>3. At(TemplatePath(t, "enabled"), 1) = "templates" BY <3>2, KeyPaths
    <3>4. TemplatePath(t, "enabled") # VersionPath BY <3>3, NamedPaths
    <3> QED BY <1>3, <3>1, <3>4
  <2>5. \A t : t \in Sidekicks(u) <=> t \in Sidekicks(S) BY <2>3, <2>4 DEF Sidekicks
  <2> QED BY <2>5
<1>7. SidekicksPath \in DOMAIN u /\ u[SidekicksPath] = Sidekicks(u)
  <2>1. SidekicksPath # VersionPath BY NamedPaths, AppPaths
  <2>2. SidekicksPath \in DOMAIN S /\ S[SidekicksPath] = Sidekicks(S) BY <1>1 DEF AppFixed
  <2> QED BY <1>3, <1>6, <2>1, <2>2
<1>8. ASSUME NEW v PROVE Sat(u, Leaf(ServicePath("app", "container_stop_sec"), v))
  <2> DEFINE e == Leaf(ServicePath("app", "container_stop_sec"), v)
  <2>1. Sat(S, e) BY <1>1 DEF AppFixed
  <2> HIDE DEF e
  <2>2. \A q : q \in DOMAIN e <=> q \in DOMAIN e OBVIOUS
  <2>3. Sat(u, e) BY <1>2, <2>1, <2>2, SatLike
  <2> QED BY <2>3 DEF e
<1> QED BY <1>4, <1>5, <1>7, <1>8 DEF AppFixed

\* A recovery makes of what is fixed the same again, and refuses it only if an
\* upstream is no port.
LEMMA RecoverStage ==
  ASSUME NEW S, Fixed(S), NEW x, x = CloneDeployment(S), NEW a, a = ApplyDefaults(x)
  PROVE  /\ Like(a, S)
         /\ Accepts(x) \/ "web" \in KeysAt(S, UpstreamsPath)
<1> DEFINE w == WithDefaults(x)
           c == Scheduling(x)
           v == ApplyVersion(c)
           u == ApplyUpstreams(v)
<1>1. Shaped(S) BY DEF Fixed
<1>2. Shaped(x) BY <1>1, CloneStage
<1>3. Near(w, S) /\ VersionPath \in DOMAIN w BY NearTemplates
<1>4. Tasks(w) BY <1>2, DefaultStage
<1>5. c = CheckAndApplySchedule(w) BY DEF Scheduling
<1>6. a = ApplyAppArguments(u) BY ApplySteps DEF Routing
<1>7. Accepts(x) <=>
        /\ NamePath \in DOMAIN w
        /\ IsScheduled(w) => TemplatePath("app", "name") \in DOMAIN w
        /\ "web" \notin KeysAt(c, UpstreamsPath)
        /\ Has(c, AppPath) => c[StopPath] \in Intervals
  BY DEF Accepts, Scheduling
<1> HIDE DEF w, c
<1>8. Like(c, S) BY <1>3, <1>4, <1>5, KeptSchedule
<1>9. Like(v, S) BY <1>8, KeptVersion
<1> HIDE DEF v
<1>10. u = v BY <1>9, KeptUpstreams
<1>11. AppFixed(v) /\ Shaped(v) BY <1>9, KeptArguments DEF Like
<1>12. a = v BY <1>6, <1>10, <1>11, AppSame
<1>13. NamePath \in DOMAIN w
  <2>1. NamePath \in DOMAIN S BY DEF Fixed
  <2>2. NamePath # VersionPath BY NamedPaths
  <2> QED BY <1>3, <2>1, <2>2, NearAt
<1>14. IsScheduled(w) => TemplatePath("app", "name") \in DOMAIN w
  <2>1. SUFFICES ASSUME IsScheduled(w) PROVE TemplatePath("app", "name") \in DOMAIN w
    OBVIOUS
  <2>2. SchedulePath \in DOMAIN S /\ SchedulePath # VersionPath
    BY NamedPaths, ShortPaths DEF Fixed
  <2>3. w[SchedulePath] = S[SchedulePath] BY <1>3, <2>2, NearAt
  <2>4. IsScheduled(S) BY <2>1, <2>2, <2>3 DEF IsScheduled
  <2>5. TemplatePath("app", "name") \in DOMAIN S BY <2>4 DEF Fixed, Timed
  <2>6. \A k \in {"name", "args", "enabled"} : At(TemplatePath("app", k), 1) = "templates"
    BY TimerPaths
  <2>7. TemplatePath("app", "name") # VersionPath BY <2>6, NamedPaths
  <2> QED BY <1>3, <2>5, <2>7, NearAt
<1>15. KeysAt(c, UpstreamsPath) = KeysAt(S, UpstreamsPath)
  <2>1. Proxied(c, S) /\ Shaped(c) BY <1>1, <1>8, LikeProxied DEF Like
  <2> QED BY <1>1, <2>1, PortsSame
<1>16. c[StopPath] \in Intervals
  <2>1. StopPath \in DOMAIN DEFAULT_DEFAULTS /\ StopPath \in Paths /\ StopPath # VersionPath
    BY General, NamedPaths
  <2>2. Has(S, StopPath) /\ S[StopPath] \in Intervals BY <2>1 DEF Fixed, Complete
  <2>3. StopPath \in DOMAIN S BY <1>1, <2>1, <2>2, AtomicLeaf, AtomicPaths
  <2>4. StopPath \in DOMAIN c /\ c[StopPath] = S[StopPath] BY <1>8, <2>1, <2>3 DEF Like
  <2> QED BY <2>2, <2>4
<1>17. Accepts(x) \/ "web" \in KeysAt(S, UpstreamsPath)
  BY <1>7, <1>13, <1>14, <1>15, <1>16
<1> QED BY <1>9, <1>12, <1>17

-----------------------------------------------------------------------------
(* What create stores is fixed.                                            *)

\* Settings that no later step touches.
Calm(q) ==
  /\ q \in Paths /\ q # <<>> /\ At(q, 1) # "state"
  /\ ~IsPrefix(q, VersionPath)
  /\ At(q, 1) # "proxy" \/ (Depth(q) >= 2 /\ At(q, 2) # "upstreams")

\* From the schedule step to the end, calm settings stay.
LEMMA CalmStage ==
  ASSUME NEW x, Shaped(x), Named(x), NEW c, c = Scheduling(x), NEW a, a = ApplyDefaults(x)
  PROVE  /\ \A q : Calm(q) /\ Besides(q) => Agree(a, c, q)
         /\ \A q \in DOMAIN c :
              Calm(q) /\ c[q] # EmptyDict /\ ~IsPrefix(SidekicksPath, q) =>
                q \in DOMAIN a /\ a[q] = c[q]
         /\ \A q \in Paths :
              /\ q # <<>> /\ (At(q, 1) # "proxy" \/ Depth(q) <= 3)
              /\ ~IsPrefix(SidekicksPath, q) /\ Has(c, q)
              => Has(a, q)
<1> DEFINE u == Routing(x)
<1>1. Shaped(c) /\ Shaped(u) BY TemplatesStage
<1>2. u = ApplyUpstreams(ApplyVersion(c)) BY DEF Routing
<1>3. /\ \A q : Besides(q) => Agree(a, u, q)
      /\ \A p \in Paths : ~IsPrefix(SidekicksPath, p) /\ Has(u, p) => Has(a, p)
      /\ \A p \in DOMAIN u :
           u[p] # EmptyDict /\ ~IsPrefix(SidekicksPath, p) =>
             p \in DOMAIN a /\ a[p] = u[p]
  BY FinalStage
<1> HIDE DEF u
<1>4. /\ \A q \in Paths :
           /\ q # <<>> /\ At(q, 1) # "state" /\ ~IsPrefix(q, VersionPath)
           /\ At(q, 1) # "proxy" \/ (Depth(q) >= 2 /\ At(q, 2) # "upstreams")
           => Agree(u, c, q)
      /\ \A p \in Paths :
           p # <<>> /\ (At(p, 1) # "proxy" \/ Depth(p) <= 3) /\ Has(c, p) => Has(u, p)
  BY <1>1, <1>2, RouteStage
<1>5. \A q : Calm(q) => Agree(u, c, q) BY <1>4 DEF Calm
<1>6. ASSUME NEW q, Calm(q), Besides(q) PROVE Agree(a, c, q)
  <2>1. Agree(a, u, q) BY <1>3, <1>6
  <2>2. Agree(u, c, q) BY <1>5, <1>6
  <2> QED BY <2>1, <2>2, AgreeTrans
<1>7. ASSUME NEW q \in DOMAIN c, Calm(q), c[q] # EmptyDict, ~IsPrefix(SidekicksPath, q)
      PROVE  q \in DOMAIN a /\ a[q] = c[q]
  <2>1. Agree(u, c, q) /\ q \in Paths BY <1>5, <1>7 DEF Calm
  <2>2. q \in DOMAIN u /\ u[q] = c[q] BY <2>1, SameAt
  <2> QED BY <1>3, <1>7, <2>2
<1>8. ASSUME NEW q \in Paths, q # <<>>, At(q, 1) # "proxy" \/ Depth(q) <= 3,
             ~IsPrefix(SidekicksPath, q), Has(c, q)
      PROVE  Has(a, q)
  <2>1. Has(u, q) BY <1>4, <1>8
  <2> QED BY <1>3, <1>8, <2>1
<1> QED BY <1>6, <1>7, <1>8

\* Paths that differ from the version's.
LEMMA CalmAt ==
  ASSUME NEW q \in Paths, q # <<>>,
         \/ At(q, 1) \notin {"state", "deployment", "proxy"}
         \/ At(q, 1) = "deployment" /\ Depth(q) >= 2 /\ At(q, 2) # "version"
         \/ At(q, 1) = "proxy" /\ Depth(q) >= 2 /\ At(q, 2) # "upstreams"
  PROVE  Calm(q)
<1>1. /\ VersionPath \in Paths /\ VersionPath # <<>> /\ At(VersionPath, 1) = "deployment"
      /\ Depth(VersionPath) = 2 /\ At(VersionPath, 2) = "version"
  BY NamedPaths DEF VersionPath
<1>2. ~IsPrefix(q, VersionPath) BY <1>1, ApartAt
<1> QED BY <1>2 DEF Calm

\* A deployment without a schedule keeps its defaults through the schedule step;
\* one with a schedule keeps those outside of templates, proxy and check, and of
\* the app template those that are not the schedule's.
LEMMA ScheduleHas ==
  ASSUME NEW w, Shaped(w), Tasks(w), IsScheduled(w), AppEnabled(w),
         TemplatePath("app", "name") \in DOMAIN w,
         NEW c, c = CheckAndApplySchedule(w)
  PROVE  /\ \A q : Untouched(q) /\ At(q, 1) \notin {"templates", "schedule"} =>
              Agree(c, w, q)
         /\ \A q \in Paths :
              /\ At(q, 1) = "templates" /\ At(q, 2) = "app"
              /\ \/ Depth(q) = 3 /\ At(q, 3) # "args"
                 \/ Depth(q) \in {4, 5} /\ At(q, 4) # "service"
              => Agree(c, w, q)
<1>1. \A q : Untouched(q) /\ At(q, 1) \notin {"templates", "schedule"} => Agree(c, w, q)
  BY ScheduleStage
<1>2. \A q \in Paths :
        Depth(q) >= 2 /\ At(q, 1) = "templates" /\ At(q, 2) = "app"
        /\ ~IsPrefix(q, ServicePath("app", "schedule"))
        /\ ~IsPrefix(ServicePath("app", "schedule"), q) => Agree(c, w, q)
  BY ScheduleDetail
<1> DEFINE s == ServicePath("app", "schedule")
<1>3. /\ s \in Paths /\ s # <<>> /\ Depth(s) = 5
      /\ At(s, 3) = "args" /\ At(s, 4) = "service"
  BY TimerPaths
<1> HIDE DEF s
<1>4. ASSUME NEW q \in Paths, At(q, 1) = "templates", At(q, 2) = "app",
             \/ Depth(q) = 3 /\ At(q, 3) # "args"
             \/ Depth(q) \in {4, 5} /\ At(q, 4) # "service"
      PROVE  Agree(c, w, q)
  <2>1. q # <<>> BY <1>4, Depths
  <2>2. ~IsPrefix(q, s) /\ ~IsPrefix(s, q) BY <1>3, <1>4, <2>1, ApartAt
  <2> QED BY <1>2, <1>4, <2>2 DEF s
<1> QED BY <1>1, <1>4

\* The defaults are there after the schedule step too.
LEMMA ScheduledDefaults ==
  ASSUME NEW x, Shaped(x), Named(x), IsScheduled(x), ~Disabled(x),
         NEW w, w = WithDefaults(x), NEW c, c = Scheduling(x)
  PROVE  /\ \A r \in DOMAIN DEFAULT_DEFAULTS : Has(c, r)
         /\ IsGitQuay(w) => \A r \in DOMAIN GIT_QUAY_DEFAULTS : Has(c, r) \/ r = YodaPath
         /\ \A q : Untouched(q) /\ At(q, 1) \notin {"templates", "schedule"} =>
              Agree(c, w, q)
         /\ \A q \in Paths :
              /\ At(q, 1) = "templates" /\ At(q, 2) = "app"
              /\ \/ Depth(q) = 3 /\ At(q, 3) # "args"
                 \/ Depth(q) \in {4, 5} /\ At(q, 4) # "service"
              => Agree(c, w, q)
<1>1. /\ Shaped(w) /\ Tasks(w) /\ (IsScheduled(w) <=> IsScheduled(x))
      /\ \A r \in DOMAIN DEFAULT_DEFAULTS : Has(w, r)
      /\ IsGitQuay(w) => \A r \in DOMAIN GIT_QUAY_DEFAULTS : Has(w, r)
      /\ AppEnabled(w) <=> ~Disabled(x)
  BY DefaultStage
<1>2. TemplatePath("app", "name") \in DOMAIN w BY <1>1 DEF Named
<1>3. c = CheckAndApplySchedule(w) BY DEF Scheduling
<1>4. /\ \A q : Untouched(q) /\ At(q, 1) \notin {"templates", "schedule"} =>
           Agree(c, w, q)
      /\ \A q \in Paths :
           /\ At(q, 1) = "templates" /\ At(q, 2) = "app"
           /\ \/ Depth(q) = 3 /\ At(q, 3) # "args"
              \/ Depth(q) \in {4, 5} /\ At(q, 4) # "service"
           => Agree(c, w, q)
  BY <1>1, <1>2, <1>3, ScheduleHas
<1>5. /\ Shaped(c)
      /\ \A q \in {HostsPath, ListenersPath, UpstreamsPath} : q \in DOMAIN c
      /\ CheckPath("port") \in DOMAIN c
  BY <1>1, <1>2, <1>3, ScheduleStage
<1>6. \A q \in DOMAIN c : Has(c, q) BY <1>5, PrefixOrder DEF Has, Shaped, IsDictionary
<1>7. ASSUME NEW r \in Paths, Has(w, r), Agree(c, w, r) PROVE Has(c, r)
  BY <1>1, <1>5, <1>7, AgreeHas, PrefixOrder DEF Shaped, IsDictionary
<1>8. /\ "ref" \in Keys /\ "commit" \in Keys /\ "port" \in Keys /\ "timeout" \in Keys
      /\ "DISCOVER_UPSTREAM_TTL" \in Keys /\ "app" \in Keys /\ "name" \in Keys
  BY DefaultKeys
<1>9. ASSUME NEW r,
             \/ r \in {GitPath("ref"), GitPath("commit"), TypePath, VersionPath, ModePath}
             \/ r \in {CheckPath("timeout"), StopPath, SharedPath, NamePath}
      PROVE  r \in Paths /\ Agree(c, w, r)
  <2>1. CASE r \in {GitPath("ref"), GitPath("commit")}
    <3>1. r \in Paths /\ Depth(r) = 2 /\ At(r, 1) = "git" BY <1>8, <2>1, KeyPaths
    <3>2. Untouched(r) BY <3>1, Depths DEF Untouched
    <3> QED BY <1>4, <3>1, <3>2
  <2>2. CASE r \in {TypePath, VersionPath, ModePath, StopPath, NamePath}
    <3>1. r \in Paths /\ Depth(r) >= 2 /\ At(r, 1) = "deployment" /\ At(r, 2) # "check"
      BY <2>2, NamedPaths
    <3>2. Untouched(r) BY <3>1, Depths DEF Untouched
    <3> QED BY <1>4, <3>1, <3>2
  <2>3. CASE r = CheckPath("timeout")
    <3>1. r \in Paths /\ Depth(r) = 3 /\ At(r, 1) = "deployment" /\ At(r, 3) = "timeout"
      BY <1>8, <2>3, KeyPaths
    <3>2. Untouched(r) BY <3>1, Depths DEF Untouched
    <3> QED BY <1>4, <3>1, <3>2
  <2>4. CASE r = SharedPath
    <3>1. r \in Paths /\ Depth(r) = 1 /\ At(r, 1) = "environment" BY <2>4, ShortPaths
    <3>2. Untouched(r) BY <3>1, Depths DEF Untouched
    <3> QED BY <1>4, <3>1, <3>2
  <2> QED BY <1>9, <2>1, <2>2, <2>3, <2>4
<1>10. ASSUME NEW r \in {ImagePath, EnvironmentPath, TemplatePath("app", "name"),
                         VariablePath("DISCOVER_UPSTREAM_TTL")}
       PROVE  r \in Paths /\ Agree(c, w, r)
  <2>1. CASE r \in {ImagePath, EnvironmentPath}
    <3>1. /\ r \in Paths /\ Depth(r) = 4 /\ At(r, 1) = "templates" /\ At(r, 2) = "app"
          /\ At(r, 4) # "service"
      BY <2>1, AppPaths
    <3> QED BY <1>4, <3>1
  <2>2. CASE r = TemplatePath("app", "name")
    <3>1. /\ r \in Paths /\ Depth(r) = 3 /\ At(r, 1) = "templates" /\ At(r, 2) = "app"
          /\ At(r, 3) = "name"
      BY <1>8, <2>2, KeyPaths
    <3> QED BY <1>4, <3>1
  <2>3. CASE r = VariablePath("DISCOVER_UPSTREAM_TTL")
    <3>1. /\ r \in Paths /\ Depth(r) = 5 /\ At(r, 1) = "templates" /\ At(r, 2) = "app"
          /\ At(r, 4) = "environment"
      BY <1>8, <2>3, KeyPaths
    <3> QED BY <1>4, <3>1
  <2> QED BY <2>1, <2>2, <2>3
<1>11. ASSUME NEW r \in DOMAIN DEFAULT_DEFAULTS PROVE Has(c, r)
  <2>1. Has(w, r) BY <1>1
  <2>2. CASE r \in {HostsPath, ListenersPath, UpstreamsPath} \/ r = CheckPath("port")
    BY <1>5, <1>6, <2>2
  <2>3. CASE \/ r \in {GitPath("ref"), GitPath("commit"), TypePath, VersionPath, ModePath}
             \/ r \in {CheckPath("timeout"), StopPath, SharedPath, NamePath}
    BY <1>7, <1>9, <2>1, <2>3
  <2>4. CASE r = VariablePath("DISCOVER_UPSTREAM_TTL") BY <1>7, <1>10, <2>1, <2>4
  <2> QED BY <2>2, <2>3, <2>4, General
<1>12. ASSUME IsGitQuay(w), NEW r \in DOMAIN GIT_QUAY_DEFAULTS, r # YodaPath PROVE Has(c, r)
  <2>1. Has(w, r) BY <1>1, <1>12
  <2>2. CASE r \in {NamePath, TypePath} BY <1>7, <1>9, <2>1, <2>2
  <2>3. CASE r \in {ImagePath, EnvironmentPath, TemplatePath("app", "name")}
    BY <1>7, <1>10, <2>1, <2>3
  <2> QED BY <1>12, <2>2, <2>3, Quay DEF YodaPath
<1> QED BY <1>4, <1>11, <1>12

\* The defaults of git-quay are neither sidekicks nor in the proxy.
LEMMA QuayAt ==
  \A r \in DOMAIN GIT_QUAY_DEFAULTS :
    r \in Paths /\ r # <<>> /\ ~IsPrefix(SidekicksPath, r) /\ At(r, 1) # "proxy"
<1>1. /\ SidekicksPath \in Paths /\ SidekicksPath # <<>> /\ Depth(SidekicksPath) = 4
      /\ At(SidekicksPath, 1) = "templates" /\ At(SidekicksPath, 4) = "sidekicks"
  BY AppPaths DEF SidekicksPath
<1>2. "app" \in Keys /\ "yoda_register" \in Keys /\ "name" \in Keys BY DefaultKeys
<1>3. ASSUME NEW r \in {NamePath, TypePath}
      PROVE  r \in Paths /\ r # <<>> /\ ~IsPrefix(SidekicksPath, r) /\ At(r, 1) # "proxy"
  <2>1. r \in Paths /\ Depth(r) = 2 /\ At(r, 1) = "deployment" BY <1>3, NamedPaths
  <2>2. r # <<>> BY <2>1, Depths
  <2> QED BY <1>1, <2>1, <2>2, ApartAt
<1>4. ASSUME NEW r \in {ImagePath, EnvironmentPath}
      PROVE  r \in Paths /\ r # <<>> /\ ~IsPrefix(SidekicksPath, r) /\ At(r, 1) # "proxy"
  <2>1. /\ r \in Paths /\ Depth(r) = 4 /\ At(r, 1) = "templates"
        /\ At(r, 4) # "sidekicks"
    BY <1>4, AppPaths
  <2>2. r # <<>> BY <2>1, Depths
  <2> QED BY <1>1, <2>1, <2>2, ApartAt
<1>5. ASSUME NEW t \in {"app", "yoda_register"}, NEW r, r = TemplatePath(t, "name")
      PROVE  r \in Paths /\ r # <<>> /\ ~IsPrefix(SidekicksPath, r) /\ At(r, 1) # "proxy"
  <2>1. r \in Paths /\ Depth(r) = 3 /\ At(r, 1) = "templates" BY <1>2, <1>5, KeyPaths
  <2>2. r # <<>> BY <2>1, Depths
  <2>3. ~IsPrefix(SidekicksPath, r)
    BY <1>1, <2>1, <2>2, Elements
  <2> QED BY <2>1, <2>2, <2>3
<1> QED BY <1>3, <1>4, <1>5, Quay

\* The defaults up to the schedule step, if the app template is not dropped.
LEMMA SchedulingKeeps ==
  ASSUME NEW x, Shaped(x), Named(x), IsScheduled(x) => ~Disabled(x),
         NEW w, w = WithDefaults(x), NEW c, c = Scheduling(x)
  PROVE  /\ \A r \in DOMAIN DEFAULT_DEFAULTS : Has(c, r)
         /\ IsGitQuay(w) => \A r \in DOMAIN GIT_QUAY_DEFAULTS :
              Has(c, r) \/ (IsScheduled(x) /\ r = YodaPath)
         /\ \A r \in {NamePath, TypePath, StopPath, ImagePath} : Agree(c, w, r)
<1>1. /\ Shaped(w) /\ Tasks(w) /\ (IsScheduled(w) <=> IsScheduled(x))
      /\ \A r \in DOMAIN DEFAULT_DEFAULTS : Has(w, r)
      /\ IsGitQuay(w) => \A r \in DOMAIN GIT_QUAY_DEFAULTS : Has(w, r)
  BY DefaultStage
<1>2. IsScheduled(w) => TemplatePath("app", "name") \in DOMAIN w BY DEF Named
<1>3. c = CheckAndApplySchedule(w) BY DEF Scheduling
<1>4. ASSUME NEW r \in {NamePath, TypePath, StopPath}
      PROVE  /\ Untouched(r) /\ r # <<>>
             /\ At(r, 1) \notin {"templates", "schedule"}
  <2>1. r \in Paths /\ Depth(r) >= 2 /\ At(r, 1) = "deployment" /\ At(r, 2) # "check"
    BY <1>4, NamedPaths
  <2> QED BY <2>1, Depths DEF Untouched
<1>5. /\ ImagePath \in Paths /\ ImagePath # <<>> /\ Depth(ImagePath) = 4
      /\ At(ImagePath, 1) = "templates" /\ At(ImagePath, 2) = "app"
      /\ At(ImagePath, 4) = "image"
  BY AppPaths DEF ImagePath
<1>6. CASE IsScheduled(x)
  <2>1. /\ \A r \in DOMAIN DEFAULT_DEFAULTS : Has(c, r)
        /\ IsGitQuay(w) => \A r \in DOMAIN GIT_QUAY_DEFAULTS : Has(c, r) \/ r = YodaPath
        /\ \A q : Untouched(q) /\ At(q, 1) \notin {"templates", "schedule"} =>
             Agree(c, w, q)
        /\ \A q \in Paths :
             /\ At(q, 1) = "templates" /\ At(q, 2) = "app"
             /\ \/ Depth(q) = 3 /\ At(q, 3) # "args"
                \/ Depth(q) \in {4, 5} /\ At(q, 4) # "service"
             => Agree(c, w, q)
    BY <1>6, ScheduledDefaults
  <2>2. Agree(c, w, ImagePath) BY <1>5, <2>1
  <2>3. \A r \in {NamePath, TypePath, StopPath} : Agree(c, w, r) BY <1>4, <2>1
  <2> QED BY <1>6, <2>1, <2>2, <2>3
<1>7. CASE ~IsScheduled(x)
  <2>1. /\ Grows(c, w)
        /\ \A q \in Paths : q # <<>> /\ At(q, 1) # "schedule" => Agree(c, w, q)
    BY <1>1, <1>2, <1>3, <1>7, ScheduleStage
  <2>2. \A r \in DOMAIN DEFAULT_DEFAULTS : Has(c, r)
    BY <1>1, <2>1, GeneralAt DEF Grows
  <2>3. IsGitQuay(w) => \A r \in DOMAIN GIT_QUAY_DEFAULTS : Has(c, r)
    BY <1>1, <2>1, QuayAt DEF Grows
  <2>4. \A r \in {NamePath, TypePath, StopPath} : Agree(c, w, r)
    BY <1>4, <2>1 DEF Untouched
  <2>5. Agree(c, w, ImagePath) BY <1>5, <2>1
  <2> QED BY <2>2, <2>3, <2>4, <2>5
<1> QED BY <1>6, <1>7

\* What create stores is complete,
LEMMA CreateFilled ==
  ASSUME NEW x, Shaped(x), Accepts(x), PlainNames(x),
         NEW a, a = ApplyDefaults(x), Has(a, AppPath)
  PROVE  /\ Complete(a)
         /\ NamePath \in DOMAIN a /\ a[StopPath] \in Intervals
         /\ VersionPath \in DOMAIN a
<1> DEFINE w == WithDefaults(x)
           c == Scheduling(x)
<1>1. Named(x) BY ApplySteps
<1>2. /\ Shaped(a) /\ (IsScheduled(a) <=> IsScheduled(x))
      /\ IsScheduled(x) => ~Disabled(x)
  BY <1>1, ApplyStage
<1>3. /\ \A r \in DOMAIN DEFAULT_DEFAULTS : Has(c, r)
      /\ IsGitQuay(w) => \A r \in DOMAIN GIT_QUAY_DEFAULTS :
           Has(c, r) \/ (IsScheduled(x) /\ r = YodaPath)
      /\ \A r \in {NamePath, TypePath, StopPath, ImagePath} : Agree(c, w, r)
  BY <1>1, <1>2, SchedulingKeeps
<1>4. /\ Shaped(w)
      /\ IsGitQuay(w) => \A r \in DOMAIN GIT_QUAY_DEFAULTS : Has(w, r)
      /\ \A r \in DOMAIN DEFAULT_DEFAULTS : Has(w, r)
      /\ IsGitQuay(w) => \A p \in {NamePath, ImagePath} :
           p \in DOMAIN w => w[p] \notin FormatFields
  BY DefaultStage
<1>5. /\ \A q : Calm(q) /\ Besides(q) => Agree(a, c, q)
      /\ \A q \in DOMAIN c :
           Calm(q) /\ c[q] # EmptyDict /\ ~IsPrefix(SidekicksPath, q) =>
             q \in DOMAIN a /\ a[q] = c[q]
      /\ \A q \in Paths :
           /\ q # <<>> /\ (At(q, 1) # "proxy" \/ Depth(q) <= 3)
           /\ ~IsPrefix(SidekicksPath, q) /\ Has(c, q)
           => Has(a, q)
  BY <1>1, CalmStage
<1>6. Shaped(c) BY <1>1, TemplatesStage
<1>7. /\ NamePath \in DOMAIN w
      /\ Has(c, AppPath) => c[StopPath] \in Intervals
  BY DEF Accepts, Scheduling
<1> HIDE DEF w, c
<1>8. \A r \in DOMAIN DEFAULT_DEFAULTS : Has(a, r) BY <1>3, <1>5, GeneralAt
<1>9. ASSUME NEW r \in {NamePath, TypePath, StopPath}
      PROVE  r \in Paths /\ Agree(c, w, r) /\ Agree(a, c, r)
  <2>1. r \in Paths /\ Depth(r) >= 2 /\ At(r, 1) = "deployment" /\ At(r, 2) # "version"
    BY <1>9, NamedPaths
  <2>2. r # <<>> BY <2>1, Depths
  <2>3. Calm(r) BY <2>1, <2>2, CalmAt
  <2>4. Besides(r) BY <2>1, <2>2 DEF Besides
  <2> QED BY <1>3, <1>5, <1>9, <2>1, <2>3, <2>4
<1>10. NamePath \in DOMAIN a /\ a[NamePath] = w[NamePath] BY <1>7, <1>9, SameAt
<1>11. TypePath \in DOMAIN w
  <2>1. TypePath \in DOMAIN DEFAULT_DEFAULTS /\ TypePath \in Paths BY General, NamedPaths
  <2> QED BY <1>4, <2>1, AtomicLeaf, AtomicPaths
<1>12. IsGitQuay(a) <=> IsGitQuay(w)
  <2>1. a[TypePath] = w[TypePath] BY <1>9, <1>11, SameAt
  <2> QED BY <2>1 DEF IsGitQuay
<1>13. ASSUME IsGitQuay(a)
       PROVE  /\ \A r \in DOMAIN GIT_QUAY_DEFAULTS :
                   Has(a, r) \/ (IsScheduled(a) /\ r = YodaPath)
              /\ \A p \in {NamePath, ImagePath} : p \in DOMAIN a => a[p] \notin FormatFields
  <2>1. \A r \in DOMAIN GIT_QUAY_DEFAULTS : Has(a, r) \/ (IsScheduled(a) /\ r = YodaPath)
    BY <1>2, <1>3, <1>5, <1>12, <1>13, QuayAt
  <2>2. a[NamePath] \notin FormatFields BY <1>4, <1>7, <1>10, <1>12, <1>13
  <2>3. /\ ImagePath \in Paths /\ ImagePath # <<>> /\ At(ImagePath, 1) = "templates"
        /\ Depth(ImagePath) = 4 /\ At(ImagePath, 4) = "image"
        /\ ImagePath \in DOMAIN GIT_QUAY_DEFAULTS
    <3>1. ImagePath # <<>> BY DEF ImagePath
    <3> QED BY <3>1, AppPaths, Quay
  <2>4. ImagePath \in DOMAIN w
    BY <1>4, <1>12, <1>13, <2>3, AtomicLeaf, AtomicPaths
  <2>5. ImagePath \in DOMAIN c /\ c[ImagePath] = w[ImagePath] BY <1>3, <2>3, <2>4, SameAt
  <2>6. Calm(ImagePath) BY <2>3, CalmAt
  <2>7. ~IsPrefix(SidekicksPath, ImagePath) BY <2>3, QuayAt
  <2>8. c[ImagePath] # EmptyDict
    BY <1>4, <1>12, <1>13, <2>3, <2>5, AtomicLeaf, AtomicPaths
  <2>9. a[ImagePath] = w[ImagePath] BY <1>5, <2>5, <2>6, <2>7, <2>8
  <2>10. a[ImagePath] \notin FormatFields BY <1>4, <1>12, <1>13, <2>4, <2>9
  <2> QED BY <2>1, <2>2, <2>10
<1>14. a[StopPath] \in Intervals
  <2>1. Has(c, AppPath) BY <1>3, <1>6, AppByDefault
  <2>2. StopPath \in DOMAIN DEFAULT_DEFAULTS /\ StopPath \in Paths BY General, NamedPaths
  <2>3. StopPath \in DOMAIN c BY <1>3, <1>6, <2>2, AtomicLeaf, AtomicPaths
  <2>4. a[StopPath] = c[StopPath] BY <1>9, <2>3, SameAt
  <2> QED BY <1>7, <2>1, <2>4
<1>15. VersionPath \in DOMAIN a
  <2>1. VersionPath \in DOMAIN DEFAULT_DEFAULTS /\ VersionPath \in Paths
    BY General, NamedPaths
  <2> QED BY <1>2, <1>8, <2>1, AtomicLeaf, AtomicPaths
<1>16. Complete(a) BY <1>8, <1>13 DEF Complete
<1> QED BY <1>10, <1>7, <1>14, <1>15, <1>16

\* routed, and without proxy if it is scheduled,
LEMMA CreateWired ==
  ASSUME NEW x, Shaped(x), Accepts(x),
         NEW a, a = ApplyDefaults(x)
  PROVE  /\ SchedulePath \in DOMAIN a
         /\ StatePath \in DOMAIN a /\ a[StatePath] = "NEW"
         /\ Routed(a)
         /\ IsScheduled(a) /\ Has(a, UpstreamsPath) => Wired(a)
<1> DEFINE w == WithDefaults(x)
           c == Scheduling(x)
           u == Routing(x)
<1>1. Named(x) BY ApplySteps
<1>2. /\ Shaped(w) /\ Tasks(w) /\ (IsScheduled(w) <=> IsScheduled(x))
  BY DefaultStage
<1>3. IsScheduled(w) => TemplatePath("app", "name") \in DOMAIN w BY <1>1 DEF Named
<1>4. c = CheckAndApplySchedule(w) BY DEF Scheduling
<1>5. u = ApplyUpstreams(ApplyVersion(c)) BY DEF Routing
<1>6. /\ SchedulePath \in DOMAIN c
      /\ IsScheduled(x) =>
           /\ \A q \in {HostsPath, ListenersPath, UpstreamsPath} :
                q \in DOMAIN c /\ c[q] = EmptyDict
           /\ CheckPath("port") \in DOMAIN c /\ c[CheckPath("port")] = "None"
           /\ CheckPath("path") \in DOMAIN c /\ c[CheckPath("path")] = ""
  BY <1>2, <1>3, <1>4, ScheduleStage
<1>7. Shaped(c) /\ Shaped(u) BY <1>1, TemplatesStage
<1>8. Shaped(a) /\ (IsScheduled(a) <=> IsScheduled(x)) BY <1>1, ApplyStage
<1>9. \A q : Calm(q) /\ Besides(q) => Agree(a, c, q) BY <1>1, CalmStage
<1>10. /\ \A q : Besides(q) => Agree(a, u, q)
       /\ Proxied(a, u) /\ KeysAt(a, UpstreamsPath) = KeysAt(u, UpstreamsPath)
  BY <1>1, FinalStage
<1>11. /\ KeysAt(u, UpstreamsPath) = GetExposedPorts(c)
       /\ \A p \in DOMAIN u : ~UselessUri(u, p)
       /\ StatePath \in DOMAIN u /\ u[StatePath] = "NEW"
  <2> HIDE DEF c, u
  <2> QED BY <1>5, <1>7, RouteStage
<1>12. /\ GetExposedPorts(a) = KeysAt(a, UpstreamsPath)
  BY <1>1, PortsStage
<1>13. \A k \in KeysAt(a, UpstreamsPath) :
         /\ UpstreamPath(k, "mode") \in DOMAIN a /\ UpstreamPath(k, "ttl") \in DOMAIN a
         /\ HealthPath(k, "timeout") \in DOMAIN a
  BY <1>1, FillStage
<1> HIDE DEF w, c, u
<1>14. SchedulePath \in DOMAIN a
  <2>1. SchedulePath \in Paths /\ SchedulePath # <<>> /\ At(SchedulePath, 1) = "schedule"
    BY ShortPaths DEF SchedulePath
  <2>2. Calm(SchedulePath) BY <2>1, CalmAt
  <2>3. Besides(SchedulePath) BY <2>1 DEF Besides
  <2> QED BY <1>6, <1>9, <2>1, <2>2, <2>3, SameAt
<1>15. StatePath \in DOMAIN a /\ a[StatePath] = "NEW"
  <2>1. StatePath \in Paths /\ StatePath # <<>> /\ At(StatePath, 1) = "state"
    BY ShortPaths DEF StatePath
  <2>2. Besides(StatePath) BY <2>1 DEF Besides
  <2> QED BY <1>10, <1>11, <2>1, <2>2, SameAt
<1>16. ASSUME NEW p \in DOMAIN a, UselessUri(a, p) PROVE FALSE
  <2>1. p \in Paths BY <1>8 DEF Shaped, IsDictionary
  <2>2. Depth(p) >= 4 /\ At(p, 1) = "proxy" /\ At(p, 2) = "upstreams"
    BY <1>16, <2>1, HealthAt
  <2>3. Depth(p) \in Nat BY <2>1, Depths
  <2>4. Depth(p) >= 3 BY <2>2, <2>3
  <2>5. At(p, 3) \in KeysAt(a, UpstreamsPath) /\ At(p, 3) \in Keys
    <3>1. At(p, 3) \in KeysAt(a, UpstreamsPath)
      BY <1>8, <2>1, <2>2, <2>4, UpstreamKeys DEF Shaped
    <3> QED BY <1>8, <3>1, KeysInKeys DEF Shaped
  <2> DEFINE m == UpstreamPath(At(p, 3), "mode")
  <2>6. m \in DOMAIN a /\ m \in Paths /\ At(m, 1) = "proxy" /\ Depth(m) = 4
    BY <1>13, <2>5, UpstreamPaths
  <2>7. m = UpstreamPath(p[3], "mode") BY DEF At
  <2> HIDE DEF m
  <2>8. Agree(a, u, p) BY <1>10, <2>1, <2>2, <2>4 DEF Proxied
  <2>9. Agree(a, u, m) BY <1>10, <2>6 DEF Proxied
  <2>10. p \in DOMAIN u /\ a[p] = u[p] /\ a[m] = u[m]
    BY <2>1, <2>6, <2>8, <2>9, SameAt
  <2>11. UselessUri(u, p) BY <1>16, <2>7, <2>10 DEF UselessUri
  <2> QED BY <1>11, <2>10, <2>11
<1>17. Routed(a) BY <1>12, <1>13, <1>16 DEF Routed
<1>18. ASSUME IsScheduled(a), Has(a, UpstreamsPath) PROVE Wired(a)
  <2>1. ASSUME NEW q \in {HostsPath, ListenersPath}
        PROVE  q \in DOMAIN a /\ a[q] = EmptyDict
    <3>1. /\ q \in Paths /\ At(q, 1) = "proxy" /\ Depth(q) = 2
          /\ At(q, 2) # "upstreams"
      BY <2>1, NamedPaths
    <3>2. q # <<>> BY <3>1, Depths
    <3>3. Calm(q) BY <3>1, <3>2, CalmAt
    <3>4. Besides(q) BY <3>1, <3>2 DEF Besides
    <3>5. Agree(a, c, q) BY <1>9, <3>3, <3>4
    <3>6. q \in DOMAIN c /\ c[q] = EmptyDict
      <4>1. IsScheduled(x) BY <1>8, <1>18
      <4> QED BY <1>6, <2>1, <4>1
    <3>7. q \in DOMAIN a /\ a[q] = c[q] BY <3>1, <3>5, <3>6, SameAt
    <3> QED BY <3>6, <3>7
  <2>2. ASSUME NEW k \in {"port", "path"}
        PROVE  CheckPath(k) \in DOMAIN a /\ a[CheckPath(k)] = c[CheckPath(k)]
    <3>1. k \in Keys BY <2>2, DefaultKeys
    <3>2. /\ CheckPath(k) \in Paths /\ Depth(CheckPath(k)) = 3
          /\ At(CheckPath(k), 1) = "deployment" /\ At(CheckPath(k), 2) = "check"
      BY <3>1, KeyPaths
    <3>3. CheckPath(k) # <<>> BY <3>2, Depths
    <3>4. Calm(CheckPath(k)) BY <3>2, <3>3, CalmAt
    <3>5. Besides(CheckPath(k)) BY <3>2, <3>3 DEF Besides
    <3>6. Agree(a, c, CheckPath(k)) BY <1>9, <3>4, <3>5
    <3>7. CheckPath(k) \in DOMAIN c BY <1>6, <1>8, <1>18, <2>2
    <3> QED BY <3>2, <3>6, <3>7, SameAt
  <2>3. KeysAt(a, UpstreamsPath) = {}
    <3>1. \A k : k \notin KeysAt(c, UpstreamsPath)
      <4>1. \A k : k \in KeysAt(c, UpstreamsPath) <=>
              \E p \in DOMAIN c : /\ Depth(p) >= 3 /\ At(p, 1) = "proxy"
                                  /\ At(p, 2) = "upstreams" /\ At(p, 3) = k
        BY <1>7, UpstreamKeys DEF Shaped
      <4>2. ASSUME NEW p \in DOMAIN c, Depth(p) >= 3, At(p, 1) = "proxy",
                   At(p, 2) = "upstreams"
            PROVE  FALSE
        <5>1. p \in Paths BY <1>7 DEF Shaped, IsDictionary
        <5>2. UpstreamsPath \in DOMAIN c BY <1>6, <1>8, <1>18
        <5>3. /\ UpstreamsPath \in Paths /\ Depth(UpstreamsPath) = 2
              /\ At(UpstreamsPath, 1) = "proxy" /\ At(UpstreamsPath, 2) = "upstreams"
          BY NamedPaths
        <5>4. Depth(p) \in Nat /\ 2 <= Depth(p) /\ Depth(p) # 2 BY <4>2, <5>1, Depths
        <5>5. \A i \in 1 .. 2 : At(UpstreamsPath, i) = At(p, i)
          <6>1. \A i \in 1 .. 2 : i = 1 \/ i = 2 OBVIOUS
          <6> QED BY <4>2, <5>3, <6>1
        <5>6. IsPrefix(UpstreamsPath, p) BY <5>1, <5>3, <5>4, <5>5, PrefixAt
        <5>7. UpstreamsPath # p BY <5>3, <5>4
        <5> QED BY <1>7, <5>2, <5>6, <5>7 DEF Shaped, IsDictionary
      <4> QED BY <4>1, <4>2
    <3>2. ASSUME NEW p \in DOMAIN c, IsPort(p) PROVE FALSE
      <4>1. p \in Paths BY <1>7 DEF Shaped, IsDictionary
      <4>2. /\ Depth(p) = 4 /\ At(p, 1) = "proxy"
            /\ At(p, 2) = "hosts" \/ At(p, 2) = "listeners"
        BY <3>2, <4>1, HealthAt
      <4>3. IsPrefix(HostsPath, p) \/ IsPrefix(ListenersPath, p)
        BY <4>1, <4>2, PrefixAt, NamedPaths
      <4>4. p # HostsPath /\ p # ListenersPath BY <4>2, NamedPaths
      <4>5. HostsPath \in DOMAIN c /\ ListenersPath \in DOMAIN c BY <1>6, <1>8, <1>18
      <4> QED BY <1>7, <4>3, <4>4, <4>5 DEF Shaped, IsDictionary
    <3>3. GetExposedPorts(c) = {} BY <3>1, <3>2 DEF GetExposedPorts
    <3> QED BY <1>10, <1>11, <3>3
  <2>4. UpstreamsPath \in DOMAIN a /\ a[UpstreamsPath] = EmptyDict
    <3>1. PICK p \in DOMAIN a : IsPrefix(UpstreamsPath, p) BY <1>18 DEF Has
    <3>2. p \in Paths /\ p # <<>> /\ Fits(p, a[p]) BY <1>8 DEF Shaped, IsDictionary
    <3>3. /\ UpstreamsPath \in Paths /\ UpstreamsPath # <<>> /\ Depth(UpstreamsPath) = 2
          /\ At(UpstreamsPath, 1) = "proxy" /\ At(UpstreamsPath, 2) = "upstreams"
      BY NamedPaths DEF UpstreamsPath
    <3>4. /\ Depth(p) \in Nat /\ 2 <= Depth(p) /\ At(p, 1) = "proxy"
          /\ At(p, 2) = "upstreams"
      <4>1. /\ Depth(UpstreamsPath) <= Depth(p) /\ At(p, 1) = At(UpstreamsPath, 1)
            /\ 2 <= Depth(UpstreamsPath) => At(UpstreamsPath, 2) = At(p, 2)
        BY <3>1, <3>2, <3>3, Elements
      <4> QED BY <3>2, <3>3, <4>1, Depths
    <3>5. ~(Depth(p) >= 3)
      <4>1. \A k : k \in KeysAt(a, UpstreamsPath) <=>
              \E q \in DOMAIN a : /\ Depth(q) >= 3 /\ At(q, 1) = "proxy"
                                  /\ At(q, 2) = "upstreams" /\ At(q, 3) = k
        BY <1>8, UpstreamKeys DEF Shaped
      <4> QED BY <2>3, <3>4, <4>1
    <3>6. Depth(p) = 2 BY <3>4, <3>5
    <3>7. p = UpstreamsPath BY <3>1, <3>2, <3>3, <3>6, Elements
    <3>8. a[p] = EmptyDict BY <3>2, <3>4, <3>6, FitsProxy
    <3> QED BY <3>7, <3>8
  <2>5. /\ CheckPath("port") \in DOMAIN a /\ a[CheckPath("port")] = "None"
        /\ CheckPath("path") \in DOMAIN a /\ a[CheckPath("path")] = ""
    BY <1>6, <1>8, <1>18, <2>2
  <2> QED BY <2>1, <2>4, <2>5 DEF Wired
<1> QED BY <1>14, <1>15, <1>17, <1>18

\* has the timer then,
LEMMA CreateTimed ==
  ASSUME NEW x, Shaped(x), Named(x), IsScheduled(x), ~Disabled(x),
         NEW a, a = ApplyDefaults(x), Has(a, AppPath)
  PROVE  Timed(a)
<1> DEFINE w == WithDefaults(x)
           c == Scheduling(x)
           u == Routing(x)
<1>1. /\ Shaped(w) /\ Tasks(w) /\ (IsScheduled(w) <=> IsScheduled(x))
      /\ AppEnabled(w) <=> ~Disabled(x)
  BY DefaultStage
<1>2. TemplatePath("app", "name") \in DOMAIN w BY <1>1 DEF Named
<1>3. c = CheckAndApplySchedule(w) BY DEF Scheduling
<1>4. /\ Shaped(c) /\ (IsScheduled(c) <=> IsScheduled(x))
      /\ Shaped(u) /\ Agree(u, c, TemplatesPath)
  BY TemplatesStage
<1>5. Shaped(a) /\ AppEnabled(a) BY ApplyStage
<1>6. /\ \A q : Calm(q) /\ Besides(q) => Agree(a, c, q)
      /\ \A q \in DOMAIN c :
           Calm(q) /\ c[q] # EmptyDict /\ ~IsPrefix(SidekicksPath, q) =>
             q \in DOMAIN a /\ a[q] = c[q]
  BY CalmStage
<1>7. \A q \in Paths :
        /\ At(q, 1) = "templates" /\ At(q, 2) = "app"
        /\ \/ Depth(q) = 3 /\ At(q, 3) # "args"
           \/ Depth(q) \in {4, 5} /\ At(q, 4) # "service"
        => Agree(c, w, q)
  BY ScheduledDefaults
<1>8. KeysAt(a, TemplatesPath) = KeysAt(u, TemplatesPath) BY FinalStage
<1> HIDE DEF w, c, u
<1>9. /\ \A p \in DOMAIN c : At(p, 1) = "templates" =>
           Depth(p) >= 2 /\ At(p, 2) \in {"app", "timer"}
      /\ \A t \in {"app", "timer"} :
           /\ ServicePath(t, "schedule") \in DOMAIN c
           /\ c[ServicePath(t, "schedule")] = c[SchedulePath]
      /\ TemplatePath("timer", "enabled") \in DOMAIN c
      /\ c[TemplatePath("timer", "enabled")] = "True"
      /\ TemplatePath("timer", "name") \in DOMAIN c
  BY <1>1, <1>2, <1>3, ScheduleDetail
<1>10. KeysAt(a, TemplatesPath) = KeysAt(c, TemplatesPath)
  BY <1>4, <1>8, ShortPaths, AgreeKeys DEF Shaped
<1>11. SchedulePath \in DOMAIN c /\ c[SchedulePath] # EmptyDict
  BY <1>4 DEF IsScheduled, Truthy
<1>12. a[SchedulePath] = c[SchedulePath]
  <2>1. SchedulePath \in Paths /\ SchedulePath # <<>> /\ At(SchedulePath, 1) = "schedule"
    BY ShortPaths DEF SchedulePath
  <2>2. Calm(SchedulePath) BY <2>1, CalmAt
  <2>3. Besides(SchedulePath) BY <2>1 DEF Besides
  <2> QED BY <1>6, <1>11, <2>1, <2>2, <2>3, SameAt
<1>13. ASSUME NEW t \in {"app", "timer"}
       PROVE  /\ ServicePath(t, "schedule") \in DOMAIN a
              /\ a[ServicePath(t, "schedule")] = a[SchedulePath]
  <2> DEFINE s == ServicePath(t, "schedule")
  <2>1. /\ s \in Paths /\ s # <<>> /\ Depth(s) = 5 /\ At(s, 1) = "templates"
        /\ At(s, 4) = "service"
    BY TimerPaths
  <2>2. s \in DOMAIN c /\ c[s] = c[SchedulePath] BY <1>9
  <2> HIDE DEF s
  <2>3. Calm(s) BY <2>1, CalmAt
  <2>4. ~IsPrefix(SidekicksPath, s)
    <3>1. /\ SidekicksPath \in Paths /\ SidekicksPath # <<>> /\ Depth(SidekicksPath) = 4
          /\ At(SidekicksPath, 4) = "sidekicks"
      BY AppPaths DEF SidekicksPath
    <3> QED BY <2>1, <3>1, ApartAt
  <2>5. s \in DOMAIN a /\ a[s] = c[s] BY <1>6, <1>11, <2>2, <2>3, <2>4
  <2>6. s \in DOMAIN a /\ a[s] = a[SchedulePath] BY <1>12, <2>2, <2>5
  <2> QED BY <2>6 DEF s
<1>14. ASSUME NEW k \in {"name", "enabled"}
       PROVE  Agree(a, c, TemplatePath("timer", k)) /\ TemplatePath("timer", k) \in Paths
  <2> DEFINE q == TemplatePath("timer", k)
  <2>1. /\ q \in Paths /\ q # <<>> /\ Depth(q) = 3
        /\ At(q, 1) = "templates" /\ At(q, 2) = "timer"
    BY TimerPaths
  <2> HIDE DEF q
  <2>2. Calm(q) BY <2>1, CalmAt
  <2>3. Besides(q) BY <2>1 DEF Besides
  <2>4. Agree(a, c, q) BY <1>6, <2>2, <2>3
  <2> QED BY <2>1, <2>4 DEF q
<1>15. /\ TemplatePath("timer", "enabled") \in DOMAIN a
       /\ a[TemplatePath("timer", "enabled")] = "True"
       /\ TemplatePath("timer", "name") \in DOMAIN a
  <2>1. \A k \in {"name", "enabled"} :
          TemplatePath("timer", k) \in DOMAIN c =>
            /\ TemplatePath("timer", k) \in DOMAIN a
            /\ a[TemplatePath("timer", k)] = c[TemplatePath("timer", k)]
    BY <1>14, SameAt
  <2> QED BY <1>9, <2>1
<1>16. TemplatePath("app", "name") \in DOMAIN a
  <2> DEFINE q == TemplatePath("app", "name")
  <2>1. \A k \in {"name", "args", "enabled"} :
          /\ TemplatePath("app", k) \in Paths /\ TemplatePath("app", k) # <<>>
          /\ Depth(TemplatePath("app", k)) = 3
          /\ At(TemplatePath("app", k), 1) = "templates"
          /\ At(TemplatePath("app", k), 2) = "app" /\ At(TemplatePath("app", k), 3) = k
    BY TimerPaths
  <2>2. /\ q \in Paths /\ q # <<>> /\ Depth(q) = 3 /\ At(q, 1) = "templates"
        /\ At(q, 2) = "app" /\ At(q, 3) = "name"
    BY <2>1
  <2>3. q \in DOMAIN w BY <1>2
  <2> HIDE DEF q
  <2>4. Agree(c, w, q) BY <1>7, <2>2
  <2>5. Calm(q) BY <2>2, CalmAt
  <2>6. Besides(q) BY <2>2 DEF Besides
  <2>7. Agree(a, c, q) BY <1>6, <2>5, <2>6
  <2>8. q \in DOMAIN a BY <2>2, <2>3, <2>4, <2>7, SameAt
  <2> QED BY <2>8 DEF q
<1>17. ASSUME NEW p \in DOMAIN a, At(p, 1) = "templates"
       PROVE  Depth(p) >= 2 /\ At(p, 2) \in {"app", "timer"}
  <2>1. IsDictionary(a) /\ IsDictionary(c) BY <1>4, <1>5 DEF Shaped
  <2>2. p \in Paths /\ p # <<>> /\ Depth(p) \in Nat /\ 1 <= Depth(p)
    <3>1. p \in Paths /\ p # <<>> BY <1>5 DEF Shaped, IsDictionary
    <3> QED BY <3>1, Depths
  <2>3. Depth(p) >= 2
    <3>1. SUFFICES ASSUME Depth(p) = 1 PROVE FALSE BY <2>2
    <3>2. PICK q \in DOMAIN a : IsPrefix(AppPath, q) BY DEF Has
    <3>3. q \in Paths BY <2>1 DEF IsDictionary
    <3>4. /\ AppPath \in Paths /\ AppPath # <<>> /\ Depth(AppPath) = 2
          /\ At(AppPath, 1) = "templates"
      BY ShortPaths DEF AppPath
    <3>5. 2 <= Depth(q) /\ At(q, 1) = "templates" BY <3>2, <3>3, <3>4, Elements
    <3>6. Depth(q) \in Nat BY <3>3, Depths
    <3>7. \A i \in 1 .. Depth(p) : At(p, i) = At(q, i)
      <4>1. \A i \in 1 .. 1 : i = 1 OBVIOUS
      <4> QED BY <1>17, <3>1, <3>5, <4>1
    <3>8. IsPrefix(p, q) BY <2>2, <3>1, <3>3, <3>5, <3>6, <3>7, PrefixAt
    <3>9. p = q BY <2>1, <3>8 DEF IsDictionary
    <3> QED BY <3>1, <3>5, <3>9
  <2>4. At(p, 2) \in KeysAt(c, TemplatesPath)
    <3>1. At(p, 2) \in KeysAt(a, TemplatesPath) BY <1>17, <2>1, <2>3, TemplateKeys
    <3> QED BY <1>10, <3>1
  <2>5. \E q \in DOMAIN c : Depth(q) >= 2 /\ At(q, 1) = "templates" /\ At(q, 2) = At(p, 2)
    BY <2>1, <2>4, TemplateKeys
  <2> QED BY <1>9, <2>3, <2>5
<1> QED BY <1>5, <1>13, <1>15, <1>16, <1>17 DEF Timed

\* and so is fixed: what recoveries need.
LEMMA CreateStage ==
  ASSUME NEW x, Shaped(x), Accepts(x), PlainNames(x),
         NEW a, a = ApplyDefaults(x), Has(a, AppPath)
  PROVE  Fixed(a)
<1>1. Named(x) BY ApplySteps
<1>2. /\ Shaped(a) /\ Tasks(a) /\ (IsScheduled(a) <=> IsScheduled(x))
      /\ IsScheduled(x) => ~Disabled(x)
  BY <1>1, ApplyStage
<1>3. /\ Complete(a)
      /\ NamePath \in DOMAIN a /\ a[StopPath] \in Intervals
      /\ VersionPath \in DOMAIN a
  BY CreateFilled
<1>4. /\ SchedulePath \in DOMAIN a
      /\ StatePath \in DOMAIN a /\ a[StatePath] = "NEW"
      /\ Routed(a)
      /\ IsScheduled(a) /\ Has(a, UpstreamsPath) => Wired(a)
  BY CreateWired
<1>5. Has(a, UpstreamsPath)
  <2>1. UpstreamsPath \in DOMAIN DEFAULT_DEFAULTS BY General
  <2> QED BY <1>3, <2>1 DEF Complete
<1>6. IsScheduled(a) => Timed(a) BY <1>1, <1>2, CreateTimed
<1>7. AppFixed(a) BY <1>1, FinalStage
<1> QED BY <1>2, <1>3, <1>4, <1>5, <1>6, <1>7 DEF Fixed

\* What differs in its version only is cloned to the same.
LEMMA LikeClone ==
  ASSUME NEW S, NEW d, Like(d, S)
  PROVE  CloneDeployment(d) = CloneDeployment(S)
<1>1. DOMAIN d = DOMAIN S BY DEF Like
<1>2. \A p \in DOMAIN d \cap (DOMAIN d \ {VersionPath}) : d[p] = S[p] BY DEF Like
<1>3. [p \in DOMAIN d \cap (DOMAIN d \ {VersionPath}) |-> d[p]]
        = [p \in DOMAIN S \cap (DOMAIN S \ {VersionPath}) |-> S[p]]
  BY <1>1, <1>2
<1> QED BY <1>3 DEF CloneDeployment, Only

\* What is stored with an app template is fixed, and what is at hand is like it.
RInv ==
  /\ phase \in {"posted", "stored", "refused", "cloned", "recovered"}
  /\ phase = "posted" => deployment \in Requests /\ stored = <<>>
  /\ Has(stored, AppPath) =>
       /\ Fixed(stored)
       /\ Applied => Like(deployment, stored)
       /\ phase = "cloned" => deployment = CloneDeployment(stored)
       /\ phase = "refused" => "web" \in KeysAt(stored, UpstreamsPath)

\* A recovery makes the stored deployment again, but for its version, and as
\* often as it is asked to: clone_deployment and apply_defaults lose nothing.
THEOREM RecoversAlike == Spec => []RecoveredAlike
<1>1. Init => RInv
  <2>1. SUFFICES ASSUME Init PROVE RInv OBVIOUS
  <2>2. phase = "posted" /\ deployment \in Requests /\ stored = <<>> BY <2>1 DEF Init
  <2>3. ~Has(stored, AppPath) BY <2>2 DEF Has
  <2> QED BY <2>2, <2>3 DEF RInv
<1>2. RInv /\ [Next]_vars => RInv'
  <2> SUFFICES ASSUME RInv, [Next]_vars PROVE RInv' OBVIOUS
  <2>1. CASE Refuse
    <3>1. /\ phase' = "refused" /\ deployment' = deployment /\ stored' = stored
          /\ ~Accepts(deployment) /\ phase \in {"posted", "cloned"}
      BY <2>1 DEF Refuse
    <3>2. ASSUME Has(stored, AppPath)
          PROVE  Fixed(stored) /\ "web" \in KeysAt(stored, UpstreamsPath)
      <4>1. phase = "cloned"
        <5>1. phase = "posted" => ~Has(stored, AppPath) BY DEF RInv, Has
        <5> QED BY <3>1, <3>2, <5>1
      <4>2. Fixed(stored) /\ deployment = CloneDeployment(stored)
        BY <3>2, <4>1 DEF RInv
      <4> QED BY <3>1, <4>2, RecoverStage
    <3> QED BY <3>1, <3>2 DEF RInv, Applied
  <2>2. CASE Create
    <3>1. /\ phase = "posted" /\ phase' = "stored" /\ Accepts(deployment)
          /\ deployment' = ApplyDefaults(deployment) /\ stored' = deployment'
      BY <2>2 DEF Create
    <3>2. deployment \in Requests BY <3>1 DEF RInv
    <3>3. Shaped(deployment) /\ PlainNames(deployment)
      <4>1. \A p \in DOMAIN deployment : p[1] = "git" => deployment[p] \notin FormatFields
        BY <3>2, RequestsAssumption DEF FormatFields
      <4>2. \A r \in {GitPath("ref"), GitPath("commit")} : r[1] = "git" BY DEF GitPath
      <4> QED BY <3>2, <4>1, <4>2, RequestsAssumption DEF PlainNames
    <3> DEFINE a == ApplyDefaults(deployment)
    <3>4. Has(a, AppPath) => Fixed(a) BY <3>1, <3>3, CreateStage
    <3>5. Shaped(a) => Like(a, a) BY DEF Like
    <3>6. Fixed(a) => Shaped(a) BY DEF Fixed
    <3>7. stored' = a /\ deployment' = a BY <3>1
    <3> HIDE DEF a
    <3> QED BY <3>1, <3>4, <3>5, <3>6, <3>7 DEF RInv, Applied
  <2>3. CASE Recover
    <3>1. /\ phase \in {"stored", "recovered"} /\ phase' = "cloned"
          /\ deployment' = CloneDeployment(deployment) /\ stored' = stored
      BY <2>3 DEF Recover
    <3>2. ASSUME Has(stored, AppPath)
          PROVE  Fixed(stored) /\ deployment' = CloneDeployment(stored)
      <4>1. Fixed(stored) /\ Like(deployment, stored) BY <3>1, <3>2 DEF RInv, Applied
      <4> QED BY <3>1, <4>1, LikeClone
    <3> QED BY <3>1, <3>2 DEF RInv, Applied
  <2>4. CASE Recreate
    <3>1. /\ phase = "cloned" /\ phase' = "recovered"
          /\ deployment' = ApplyDefaults(deployment) /\ stored' = stored
      BY <2>4 DEF Recreate
    <3>2. ASSUME Has(stored, AppPath)
          PROVE  Fixed(stored) /\ Like(deployment', stored)
      <4>1. Fixed(stored) /\ deployment = CloneDeployment(stored)
        BY <3>1, <3>2 DEF RInv
      <4> QED BY <3>1, <4>1, RecoverStage
    <3> QED BY <3>1, <3>2 DEF RInv, Applied
  <2>5. CASE UNCHANGED vars BY <2>5 DEF vars, RInv, Applied
  <2> QED BY <2>1, <2>2, <2>3, <2>4, <2>5 DEF Next
<1>3. RInv => RecoveredAlike
  <2>1. SUFFICES ASSUME RInv, Has(stored, AppPath), Applied
                 PROVE  /\ DOMAIN deployment = DOMAIN stored
                        /\ \A p \in DOMAIN stored \ {VersionPath} : deployment[p] = stored[p]
    BY DEF RInv, RecoveredAlike
  <2>2. Like(deployment, stored) BY <2>1 DEF RInv
  <2> QED BY <2>2 DEF Like
<1> QED BY <1>1, <1>2, <1>3, PTL DEF Spec
=============================================================================
