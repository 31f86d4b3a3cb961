---------------------------- MODULE UtilityProofs ----------------------------
(***************************************************************************)
(* Proofs about the utilities of core/ that stand on their own: LruCache,  *)
(* ProcManager and PortScan, for any values of their constants.            *)
(*                                                                         *)
(* push and get of the cache are made of two steps: an entry is unlinked,  *)
(* one is put in front.  Each is one lemma about a list, its nodes and a   *)
(* map, and one about the order of uses; the lemmas are put together call  *)
(* by call.                                                                *)
(*                                                                         *)
(* What the process manager never mixes up rests on a fact about the       *)
(* machine: an id that was a child's is nobody else's, because no one      *)
(* waits for the children.  The port scan rests on its descriptors being   *)
(* counted.                                                                *)
(***************************************************************************)
EXTENDS LruCache, ProcManager, PortScan, FiniteSetTheorems, TLAPS

\* A list, what its nodes hold and a map agree.
Linked(l, it, m) ==
  /\ \A i, j \in DOMAIN l : l[i] = l[j] => i = j
  /\ \A i \in DOMAIN l : m[it[l[i]].key] = l[i]
  /\ \A k \in Keys(m) : m[k] \in Nodes(l) /\ it[m[k]].key = k

\* The list is in the order of uses, with older ones before it in time.
Ranked(l, it, older, nw) ==
  /\ \A i, j \in DOMAIN l : <<it[l[i]].key, it[l[j]].key>> \in nw <=> i < j
  /\ \A i \in DOMAIN l : \A k \in older :
       <<it[l[i]].key, k>> \in nw /\ <<k, it[l[i]].key>> \notin nw

Valued(l, it, la) == \A i \in DOMAIN l : la[it[l[i]].key] = it[l[i]].val

Used(nw, seen, k) == { p \in nw : p[2] # k } \cup { <<k, j>> : j \in seen \ {k} }

Lost == { k \in Key : last[k] # MISS /\ map[k] = NULL }

IInv ==
  /\ TypeOK /\ Linked(list, item, map)
  /\ Ranked(list, item, Lost, newer) /\ Valued(list, item, last)
  /\ Lost # {} => Len(list) = MaxSize
  /\ newer \subseteq Recency!Seen \X Recency!Seen

-----------------------------------------------------------------------------
(* The two steps *)

\* What a concatenation has at each place.
LEMMA ConcatAt ==
  ASSUME NEW a \in Seq(Node), NEW b \in Seq(Node), NEW i \in 1 .. Len(a) + Len(b)
  PROVE  (a \o b)[i] = IF i <= Len(a) THEN a[i] ELSE b[i - Len(a)]
OBVIOUS

\* Without one of its nodes a list keeps the others in their order.
LEMMA ErasedSeq ==
  ASSUME NEW l \in Seq(Node), NEW p \in DOMAIN l,
         \A i, j \in DOMAIN l : l[i] = l[j] => i = j
  PROVE  /\ Erased(l, l[p]) \in Seq(Node) /\ Len(Erased(l, l[p])) = Len(l) - 1
         /\ \A i \in 1 .. Len(l) - 1 : Erased(l, l[p])[i] = l[IF i < p THEN i ELSE i + 1]
<1>1. Place(l, l[p]) = p
  BY DEF Place
<1>2. Len(l) \in Nat /\ p \in 1 .. Len(l)
  OBVIOUS
<1> DEFINE a == SubSeq(l, 1, p - 1)
           b == SubSeq(l, p + 1, Len(l))
<1>3. a \in Seq(Node) /\ Len(a) = p - 1 /\ \A i \in 1 .. p - 1 : a[i] = l[i]
  BY <1>2
<1>4. b \in Seq(Node) /\ Len(b) = Len(l) - p /\ \A i \in 1 .. Len(l) - p : b[i] = l[p + i]
  BY <1>2
<1>5. Erased(l, l[p]) = a \o b
  BY <1>1 DEF Erased
<1> HIDE DEF a, b
<1>6. a \o b \in Seq(Node) /\ Len(a \o b) = Len(l) - 1
  BY <1>2, <1>3, <1>4
<1>7. ASSUME NEW i \in 1 .. Len(l) - 1
      PROVE  (a \o b)[i] = l[IF i < p THEN i ELSE i + 1]
  <2>1. CASE i < p
    BY <1>2, <1>3, <1>4, <2>1
  <2>2. CASE ~(i < p)
    <3>1. (a \o b)[i] = b[i - (p - 1)]
      <4>1. i \in 1 .. Len(a) + Len(b) /\ ~(i <= Len(a)) /\ Len(a) = p - 1
        BY <1>2, <1>3, <1>4, <2>2
      <4>2. a \in Seq(Node) /\ b \in Seq(Node)
        BY <1>3, <1>4
      <4>3. (a \o b)[i] = b[i - Len(a)]
        BY <4>1, <4>2, ConcatAt
      <4> QED  BY <4>1, <4>3
    <3>2. i - (p - 1) \in 1 .. Len(l) - p /\ p + (i - (p - 1)) = i + 1
      BY <1>2, <2>2
    <3>3. b[i - (p - 1)] = l[p + (i - (p - 1))]
      BY <1>4, <3>2
    <3> QED  BY <2>2, <3>1, <3>2, <3>3
  <2> QED  BY <2>1, <2>2
<1> QED  BY <1>5, <1>6, <1>7

\* A node put in front moves the others by one place.
LEMMA FrontSeq ==
  ASSUME NEW l \in Seq(Node), NEW n \in Node
  PROVE  /\ <<n>> \o l \in Seq(Node) /\ Len(<<n>> \o l) = Len(l) + 1 /\ Len(l) \in Nat
         /\ (<<n>> \o l)[1] = n
         /\ \A i \in 2 .. Len(l) + 1 : (<<n>> \o l)[i] = l[i - 1]
  OBVIOUS

\* Unlinking an entry: the list without its node, the map without its key.
LEMMA Unlink ==
  ASSUME NEW l \in Seq(Node), NEW it \in [Node -> Item], NEW m \in [Key -> Node \cup {NULL}],
         Linked(l, it, m), NEW p \in DOMAIN l,
         NEW older \in SUBSET Key, NEW nw, Ranked(l, it, older, nw),
         NEW la, Valued(l, it, la)
  PROVE  LET e == Erased(l, l[p])
             k == it[l[p]].key
         IN  /\ e \in Seq(Node) /\ Len(e) = Len(l) - 1 /\ l[p] \notin Nodes(e)
             /\ Linked(e, it, [m EXCEPT ![k] = NULL])
             /\ Ranked(e, it, older, nw) /\ Valued(e, it, la)
             /\ p = Len(l) => Ranked(e, it, older \cup {k}, nw)
<1> DEFINE e == Erased(l, l[p])
           k == it[l[p]].key
           s(i) == IF i < p THEN i ELSE i + 1
           d == [m EXCEPT ![k] = NULL]
<1>1. \A i, j \in DOMAIN l : l[i] = l[j] => i = j
  BY DEF Linked
<1>2. e \in Seq(Node) /\ Len(e) = Len(l) - 1 /\ \A i \in 1 .. Len(l) - 1 : e[i] = l[s(i)]
  BY <1>1, ErasedSeq
<1>3. Len(l) \in Nat /\ p \in 1 .. Len(l) /\ DOMAIN l = 1 .. Len(l)
  OBVIOUS
<1> HIDE DEF e
<1>4. DOMAIN e = 1 .. Len(l) - 1
  BY <1>2
<1>5. \A i \in DOMAIN e : s(i) \in DOMAIN l /\ s(i) # p /\ e[i] = l[s(i)]
  BY <1>2, <1>3, <1>4
<1>6. \A i, j \in DOMAIN e : (i < j <=> s(i) < s(j)) /\ (s(i) = s(j) => i = j)
  BY <1>3, <1>4
<1>7. \A q \in DOMAIN l : q # p => \E i \in DOMAIN e : s(i) = q
  <2> TAKE q \in DOMAIN l
  <2> HAVE q # p
  <2>1. CASE q < p
    <3>1. q \in DOMAIN e /\ s(q) = q  BY <1>3, <1>4, <2>1
    <3> QED  BY <3>1
  <2>2. CASE q > p
    <3>1. q - 1 \in DOMAIN e /\ s(q - 1) = q  BY <1>3, <1>4, <2>2
    <3> QED  BY <3>1
  <2> QED  BY <1>3, <2>1, <2>2
<1> HIDE DEF s
<1>8. l[p] \notin Nodes(e)
  BY <1>1, <1>5 DEF Nodes
<1>9. k \in Key /\ l[p] \in Node /\ \A i \in DOMAIN l : l[i] \in Node /\ it[l[i]].key \in Key
  BY <1>3 DEF Item
<1>10. Linked(e, it, d)
  <2>1. \A i, j \in DOMAIN e : e[i] = e[j] => i = j
    BY <1>1, <1>5, <1>6
  <2>2. ASSUME NEW i \in DOMAIN e PROVE d[it[e[i]].key] = e[i]
    <3>1. m[it[l[s(i)]].key] = l[s(i)] /\ m[k] = l[p]
      BY <1>5 DEF Linked
    <3>2. it[l[s(i)]].key # k
      BY <1>1, <1>5, <3>1
    <3> QED  BY <1>5, <1>9, <3>1, <3>2
  <2>3. ASSUME NEW j \in Keys(d) PROVE d[j] \in Nodes(e) /\ it[d[j]].key = j
    <3>1. j \in Keys(m) /\ j # k /\ d[j] = m[j]
      BY <1>9 DEF Keys
    <3>2. m[j] \in Nodes(l) /\ it[m[j]].key = j
      BY <3>1 DEF Linked
    <3>3. PICK q \in DOMAIN l : m[j] = l[q]
      BY <3>2 DEF Nodes
    <3>4. q # p
      BY <3>1, <3>2, <3>3
    <3> QED  BY <1>5, <1>7, <3>1, <3>2, <3>3, <3>4 DEF Nodes
  <2> QED  BY <2>1, <2>2, <2>3 DEF Linked
<1>11. Ranked(e, it, older, nw)
  BY <1>5, <1>6 DEF Ranked
<1>12. Valued(e, it, la)
  BY <1>5 DEF Valued
<1>13. ASSUME p = Len(l) PROVE Ranked(e, it, older \cup {k}, nw)
  <2>1. \A i \in DOMAIN e : s(i) < p
    BY <1>3, <1>5, <1>13
  <2>2. ASSUME NEW i \in DOMAIN e
        PROVE  <<it[e[i]].key, k>> \in nw /\ <<k, it[e[i]].key>> \notin nw
    <3>1. s(i) \in DOMAIN l /\ s(i) < p /\ ~(p < s(i)) /\ e[i] = l[s(i)]
      BY <1>3, <1>5, <2>1
    <3> QED  BY <3>1 DEF Ranked
  <2> QED  BY <1>11, <2>2 DEF Ranked
<1> QED  BY <1>2, <1>8, <1>10, <1>11, <1>12, <1>13 DEF e

\* Putting an entry in front: a node outside of the list, a key outside of
\* the map, which is used now.
LEMMA Link ==
  ASSUME NEW l \in Seq(Node), NEW it \in [Node -> Item], NEW m \in [Key -> Node \cup {NULL}],
         Linked(l, it, m),
         NEW k \in Key, m[k] = NULL, NEW v \in Val, NEW n \in Node, n \notin Nodes(l),
         NEW older \in SUBSET Key, NEW nw, Ranked(l, it, older, nw),
         NEW la \in [Key -> Val \cup {MISS}], Valued(l, it, la),
         NEW seen, \A j \in Key : la[j] # MISS => j \in seen, older \subseteq seen
  PROVE  LET t == <<n>> \o l
             jt == [it EXCEPT ![n] = [key |-> k, val |-> v]]
         IN  /\ t \in Seq(Node) /\ Len(t) = Len(l) + 1 /\ jt \in [Node -> Item]
             /\ Linked(t, jt, [m EXCEPT ![k] = n])
             /\ Ranked(t, jt, older \ {k}, Used(nw, seen, k))
             /\ Valued(t, jt, [la EXCEPT ![k] = v])
<1> DEFINE t == <<n>> \o l
           jt == [it EXCEPT ![n] = [key |-> k, val |-> v]]
           d == [m EXCEPT ![k] = n]
           lb == [la EXCEPT ![k] = v]
           nx == Used(nw, seen, k)
<1>1. /\ t \in Seq(Node) /\ Len(t) = Len(l) + 1 /\ Len(l) \in Nat /\ t[1] = n
      /\ \A i \in 2 .. Len(l) + 1 : t[i] = l[i - 1]
  BY FrontSeq
<1> HIDE DEF t
<1>2. DOMAIN t = 1 .. Len(l) + 1 /\ DOMAIN l = 1 .. Len(l)
  BY <1>1
<1>3. \A i \in DOMAIN t : i = 1 \/ (i - 1 \in DOMAIN l /\ i \in 2 .. Len(l) + 1 /\ t[i] = l[i - 1])
  BY <1>1, <1>2
<1>4. \A i \in DOMAIN l : /\ l[i] \in Node /\ l[i] # n /\ it[l[i]].key \in Key
                          /\ it[l[i]].val \in Val
  BY <1>2 DEF Nodes, Item
<1>5. \A i \in DOMAIN l : it[l[i]].key # k
  BY <1>4, LruAssumption DEF Linked
<1>6. jt \in [Node -> Item] /\ jt[n].key = k /\ jt[n].val = v
  BY DEF Item
<1>7. \A i \in DOMAIN l : jt[l[i]] = it[l[i]]
  BY <1>4
<1> HIDE DEF jt
<1>8. Linked(t, jt, d)
  <2>1. ASSUME NEW i \in DOMAIN t, NEW j \in DOMAIN t, t[i] = t[j] PROVE i = j
    <3>1. CASE i = 1 \/ j = 1
      BY <1>1, <1>3, <1>4, <2>1, <3>1
    <3>2. CASE i # 1 /\ j # 1
      <4>1. i - 1 \in DOMAIN l /\ j - 1 \in DOMAIN l /\ l[i - 1] = l[j - 1]
        BY <1>3, <2>1, <3>2
      <4>2. i - 1 = j - 1
        BY <4>1 DEF Linked
      <4> QED  BY <1>2, <4>2
    <3> QED  BY <3>1, <3>2
  <2>2. ASSUME NEW i \in DOMAIN t PROVE d[jt[t[i]].key] = t[i]
    <3>1. CASE i = 1
      BY <1>1, <1>6, <3>1
    <3>2. CASE i # 1
      <4>1. i - 1 \in DOMAIN l /\ t[i] = l[i - 1]
        BY <1>3, <3>2
      <4>2. m[it[l[i - 1]].key] = l[i - 1]
        BY <4>1 DEF Linked
      <4>3. it[l[i - 1]].key \in Key \ {k} /\ jt[t[i]] = it[l[i - 1]]
        BY <1>4, <1>5, <1>7, <4>1
      <4> QED  BY <4>1, <4>2, <4>3
    <3> QED  BY <3>1, <3>2
  <2>3. ASSUME NEW j \in Keys(d) PROVE d[j] \in Nodes(t) /\ jt[d[j]].key = j
    <3>1. CASE j = k
      <4>1. d[j] = n /\ 1 \in DOMAIN t
        BY <1>1, <1>2, <3>1
      <4> QED  BY <1>1, <1>6, <3>1, <4>1 DEF Nodes
    <3>2. CASE j # k
      <4>1. j \in Keys(m) /\ d[j] = m[j]
        BY <3>2 DEF Keys
      <4>2. m[j] \in Nodes(l) /\ it[m[j]].key = j
        BY <4>1 DEF Linked
      <4>3. PICK q \in DOMAIN l : m[j] = l[q]
        BY <4>2 DEF Nodes
      <4>4. q + 1 \in DOMAIN t /\ t[q + 1] = l[q]
        BY <1>1, <1>2
      <4> QED  BY <1>7, <4>1, <4>2, <4>3, <4>4 DEF Nodes
    <3> QED  BY <3>1, <3>2
  <2> QED  BY <2>1, <2>2, <2>3 DEF Linked
<1>9. Valued(t, jt, lb)
  <2>1. ASSUME NEW i \in DOMAIN t PROVE lb[jt[t[i]].key] = jt[t[i]].val
    <3>1. CASE i = 1
      BY <1>1, <1>6, <3>1
    <3>2. CASE i # 1
      BY <1>3, <1>4, <1>5, <1>7, <3>2 DEF Valued
    <3> QED  BY <3>1, <3>2
  <2> QED  BY <2>1 DEF Valued
<1>10. ASSUME NEW i \in DOMAIN l PROVE it[l[i]].key \in seen \ {k}
  <2>1. la[it[l[i]].key] = it[l[i]].val
    BY DEF Valued
  <2>2. la[it[l[i]].key] # MISS
    BY <1>4, <2>1, LruAssumption
  <2> QED  BY <1>4, <1>5, <2>2
<1>11. \A a, b : /\ (a # k /\ b # k) => (<<a, b>> \in nx <=> <<a, b>> \in nw)
                 /\ <<a, k>> \notin nx
                 /\ b \in seen \ {k} => <<k, b>> \in nx
  BY DEF Used
<1> HIDE DEF nx
<1>12. ASSUME NEW i \in DOMAIN t, NEW j \in DOMAIN t
       PROVE  <<jt[t[i]].key, jt[t[j]].key>> \in nx <=> i < j
  <2>1. CASE j = 1
    <3>1. jt[t[j]].key = k /\ ~(i < j)
      BY <1>1, <1>2, <1>6, <2>1
    <3>2. <<jt[t[i]].key, k>> \notin nx
      BY <1>11
    <3> QED  BY <3>1, <3>2
  <2>2. CASE i = 1 /\ j # 1
    <3>1. jt[t[i]].key = k /\ i < j
      BY <1>1, <1>2, <1>6, <2>2
    <3>2. jt[t[j]].key \in seen \ {k}
      BY <1>3, <1>7, <1>10, <2>2
    <3>3. <<k, jt[t[j]].key>> \in nx
      BY <1>11, <3>2
    <3> QED  BY <3>1, <3>3
  <2>3. CASE i # 1 /\ j # 1
    <3>1. /\ i - 1 \in DOMAIN l /\ jt[t[i]].key = it[l[i - 1]].key
          /\ j - 1 \in DOMAIN l /\ jt[t[j]].key = it[l[j - 1]].key
      BY <1>3, <1>7, <2>3
    <3>2. <<it[l[i - 1]].key, it[l[j - 1]].key>> \in nw <=> i - 1 < j - 1
      BY <3>1 DEF Ranked
    <3>3. i < j <=> i - 1 < j - 1
      BY <1>2
    <3> QED  BY <1>5, <1>11, <3>1, <3>2, <3>3
  <2> QED  BY <2>1, <2>2, <2>3
<1>13. ASSUME NEW i \in DOMAIN t, NEW j \in older \ {k}
       PROVE  <<jt[t[i]].key, j>> \in nx /\ <<j, jt[t[i]].key>> \notin nx
  <2>1. CASE i = 1
    BY <1>1, <1>6, <1>11, <2>1
  <2>2. CASE i # 1
    <3>1. i - 1 \in DOMAIN l /\ jt[t[i]].key = it[l[i - 1]].key
      BY <1>3, <1>7, <2>2
    <3>2. <<it[l[i - 1]].key, j>> \in nw /\ <<j, it[l[i - 1]].key>> \notin nw
      BY <3>1 DEF Ranked
    <3>3. it[l[i - 1]].key # k /\ j # k
      BY <1>5, <3>1
    <3> QED  BY <1>11, <3>1, <3>2, <3>3
  <2> QED  BY <2>1, <2>2
<1>14. Ranked(t, jt, older \ {k}, nx)
  BY <1>12, <1>13 DEF Ranked
<1> QED  BY <1>1, <1>6, <1>8, <1>9, <1>14 DEF t, jt, nx

-----------------------------------------------------------------------------
(* How many keys the map has *)

\* The map has as many keys as the list has nodes.
LEMMA KeysCount ==
  ASSUME NEW l \in Seq(Node), NEW it \in [Node -> Item], NEW m \in [Key -> Node \cup {NULL}],
         Linked(l, it, m)
  PROVE  /\ IsFiniteSet(Keys(m)) /\ Cardinality(Keys(m)) = Len(l)
         /\ Keys(m) = { it[l[i]].key : i \in DOMAIN l }
         /\ \A i, j \in DOMAIN l : it[l[i]].key = it[l[j]].key => i = j
<1> DEFINE f == [i \in 1 .. Len(l) |-> it[l[i]].key]
<1>1. Len(l) \in Nat /\ DOMAIN l = 1 .. Len(l) /\ \A i \in DOMAIN l : l[i] \in Node
  OBVIOUS
<1>2. \A i \in DOMAIN l : it[l[i]].key \in Keys(m)
  BY <1>1, LruAssumption DEF Linked, Keys, Item
<1>3. \A k \in Keys(m) : \E i \in DOMAIN l : it[l[i]].key = k
  BY DEF Linked, Nodes
<1>4. \A i, j \in DOMAIN l : it[l[i]].key = it[l[j]].key => i = j
  BY <1>1 DEF Linked
<1>5. f \in Bijection(1 .. Len(l), Keys(m))
  BY <1>1, <1>2, <1>3, <1>4 DEF Bijection, Injection, Surjection, IsInjective
<1>6. IsFiniteSet(1 .. Len(l)) /\ Cardinality(1 .. Len(l)) = Len(l)
  BY <1>1, FS_Interval
<1>7. ExistsBijection(1 .. Len(l), Keys(m))
  BY <1>5 DEF ExistsBijection
<1>8. IsFiniteSet(Keys(m)) /\ Cardinality(Keys(m)) = Len(l)
  BY <1>6, <1>7, FS_Bijection
<1> QED  BY <1>2, <1>3, <1>4, <1>8

\* The entry at place p was used after p - 1 others, a lost key after all.
LEMMA CachedIsMapped ==
  ASSUME IInv
  PROVE  Recency!Cached = Keys(map)
<1> USE DEF Recency!Seen
<1> DEFINE K(i) == item[list[i]].key
           Later(k) == { j \in Key : <<j, k>> \in newer }
<1>1. /\ list \in Seq(Node) /\ Len(list) \in Nat /\ Len(list) <= MaxSize /\ MaxSize \in Nat
      /\ item \in [Node -> Item] /\ map \in [Key -> Node \cup {NULL}]
      /\ last \in [Key -> Val \cup {MISS}]
  BY LruAssumption DEF IInv, TypeOK
<1>2. DOMAIN list = 1 .. Len(list) /\ \A i \in DOMAIN list : list[i] \in Node
  BY <1>1
<1>3. /\ Keys(map) = { K(i) : i \in DOMAIN list }
      /\ \A i, j \in DOMAIN list : K(i) = K(j) => i = j
  BY <1>1, KeysCount DEF IInv
<1>4. Keys(map) \subseteq Recency!Seen
  <2>1. ASSUME NEW i \in DOMAIN list PROVE last[K(i)] # MISS /\ K(i) \in Key
    <3>1. item[list[i]].val \in Val /\ K(i) \in Key
      BY <1>1, <1>2 DEF Item
    <3>2. last[K(i)] = item[list[i]].val
      BY DEF IInv, Valued
    <3> QED  BY <3>1, <3>2, LruAssumption
  <2> QED  BY <1>3, <2>1
<1>5. ASSUME NEW k \in Keys(map) PROVE Cardinality(Later(k)) < MaxSize
  <2>1. PICK p \in 1 .. Len(list) : k = K(p)
    BY <1>2, <1>3
  <2> DEFINE f == [i \in 1 .. p - 1 |-> K(i)]
             T == { K(i) : i \in 1 .. p - 1 }
  <2>2. f \in Surjection(1 .. p - 1, T)
    BY DEF Surjection
  <2>3. IsFiniteSet(1 .. p - 1) /\ Cardinality(1 .. p - 1) = p - 1
    BY FS_Interval
  <2>4. IsFiniteSet(T) /\ Cardinality(T) <= p - 1
    <3> HIDE DEF f, T
    <3> QED  BY <2>2, <2>3, FS_Surjection
  <2>5. Later(k) \subseteq T
    <3> SUFFICES ASSUME NEW j \in Key, <<j, k>> \in newer PROVE j \in T
      OBVIOUS
    <3>1. j \in Keys(map) \/ j \in Lost
      BY DEF IInv, Lost, Keys
    <3>2. j \notin Lost
      BY <1>2, <2>1 DEF IInv, Ranked
    <3>3. PICK q \in DOMAIN list : j = K(q)
      BY <1>3, <3>1, <3>2
    <3>4. q < p
      BY <1>2, <2>1, <3>3 DEF IInv, Ranked
    <3>5. q \in 1 .. p - 1
      BY <1>2, <2>1, <3>4
    <3> QED  BY <3>3, <3>5
  <2>6. Cardinality(Later(k)) <= Cardinality(T) /\ IsFiniteSet(Later(k))
    <3> HIDE DEF T, Later
    <3> QED  BY <2>4, <2>5, FS_Subset
  <2>7. Cardinality(Later(k)) \in Nat /\ Cardinality(T) \in Nat
    <3> HIDE DEF T, Later
    <3> QED  BY <2>4, <2>6, FS_CardinalityType
  <2> QED
    <3> HIDE DEF T, Later
    <3> QED  BY <1>1, <2>4, <2>6, <2>7
<1>6. ASSUME NEW k \in Lost PROVE ~(Cardinality(Later(k)) < MaxSize)
  <2> DEFINE f == [i \in 1 .. Len(list) |-> K(i)]
  <2>1. \A i \in 1 .. Len(list) : K(i) \in Later(k)
    BY <1>1, <1>2 DEF IInv, Ranked, Item
  <2>2. f \in Injection(1 .. Len(list), Later(k))
    BY <1>2, <1>3, <2>1 DEF Injection, IsInjective
  <2>3. IsFiniteSet(Later(k))
    <3>1. Later(k) \in SUBSET Key
      OBVIOUS
    <3> HIDE DEF Later
    <3> QED  BY <3>1, LruAssumption, FS_Subset
  <2>4. Cardinality(1 .. Len(list)) = Len(list)
    <3> DEFINE n == Len(list)
    <3>1. n \in Nat
      BY <1>1
    <3> HIDE DEF n
    <3>2. Cardinality(1 .. n) = n
      BY <3>1, FS_Interval
    <3> QED  BY <3>2 DEF n
  <2>5. Len(list) <= Cardinality(Later(k))
    <3> HIDE DEF f, Later
    <3> QED  BY <2>2, <2>3, <2>4, FS_Injection
  <2>6. Cardinality(Later(k)) \in Nat
    <3> HIDE DEF Later
    <3> QED  BY <2>3, FS_CardinalityType
  <2>7. Len(list) = MaxSize
    BY DEF IInv
  <2> QED
    <3> HIDE DEF Later
    <3> QED  BY <1>1, <2>5, <2>6, <2>7
<1>7. Recency!Seen \subseteq Keys(map) \cup Lost /\ Keys(map) \cap Lost = {}
  BY DEF Lost, Keys
<1>8. /\ Recency!Cached \subseteq Recency!Seen
      /\ \A k \in Recency!Seen : k \in Recency!Cached <=> Cardinality(Later(k)) < MaxSize
  BY DEF Recency!Cached, Recency!Cardinality, Cardinality
<1> HIDE DEF Later, Recency!Seen
<1> QED  BY <1>4, <1>5, <1>6, <1>7, <1>8

-----------------------------------------------------------------------------
(* The invariant is inductive *)

\* An empty cache.
LEMMA InitIInv == Init => IInv
<1> SUFFICES ASSUME Init PROVE IInv
  OBVIOUS
<1> USE DEF Init, Recency!Init
<1>1. list = <<>> /\ Len(list) = 0 /\ DOMAIN list = {}
  OBVIOUS
<1>2. TypeOK
  BY <1>1, LruAssumption DEF TypeOK
<1>3. Keys(map) = {} /\ Lost = {}
  BY DEF Keys, Lost
<1>4. Linked(list, item, map) /\ Ranked(list, item, Lost, newer) /\ Valued(list, item, last)
  BY <1>1, <1>3 DEF Linked, Ranked, Valued
<1> QED  BY <1>2, <1>3, <1>4 DEF IInv

\* What an entry put in front makes of the invariant.
LEMMA AfterFront ==
  ASSUME IInv,
         NEW l \in Seq(Node), NEW m \in [Key -> Node \cup {NULL}], NEW k \in Key, NEW v \in Val,
         NEW n \in Node, n \notin Nodes(l), m[k] = NULL,
         NEW older \in SUBSET Recency!Seen,
         Linked(l, item, m), Ranked(l, item, older, newer), Valued(l, item, last),
         Len(l) < MaxSize, older \ {k} # {} => Len(l) + 1 = MaxSize,
         list' = <<n>> \o l, item' = [item EXCEPT ![n] = [key |-> k, val |-> v]],
         map' = [m EXCEPT ![k] = n], last' = [last EXCEPT ![k] = v],
         Recency!Use(k), answer' \in Val \cup {MISS},
         Lost' = older \ {k}
  PROVE  IInv'
<1>1. /\ item \in [Node -> Item] /\ last \in [Key -> Val \cup {MISS}]
      /\ newer \subseteq Key \X Key /\ MaxSize \in Nat /\ older \in SUBSET Key
      /\ newer \subseteq Recency!Seen \X Recency!Seen
  BY LruAssumption DEF IInv, TypeOK, Recency!Seen
<1>2. newer' = Used(newer, Recency!Seen, k)
  BY DEF Recency!Use, Used
<1>3. Recency!Seen = { j \in Key : last[j] # MISS }
  BY DEF Recency!Seen
<1>4. /\ list' \in Seq(Node) /\ Len(list') = Len(l) + 1 /\ item' \in [Node -> Item]
      /\ Linked(list', item', map')
      /\ Ranked(list', item', older \ {k}, newer')
      /\ Valued(list', item', last')
  <2> HIDE DEF Recency!Seen
  <2> DEFINE seen == Recency!Seen
             jt == [item EXCEPT ![n] = [key |-> k, val |-> v]]
             lb == [last EXCEPT ![k] = v]
  <2>1. (\A j \in Key : last[j] # MISS => j \in seen) /\ older \subseteq seen
    BY <1>3
  <2> HIDE DEF seen
  <2>2. /\ <<n>> \o l \in Seq(Node) /\ Len(<<n>> \o l) = Len(l) + 1 /\ jt \in [Node -> Item]
        /\ Linked(<<n>> \o l, jt, [m EXCEPT ![k] = n])
        /\ Ranked(<<n>> \o l, jt, older \ {k}, Used(newer, seen, k))
        /\ Valued(<<n>> \o l, jt, lb)
    BY <1>1, <2>1, Link
  <2> QED  BY <1>2, <2>2 DEF seen
<1>5. /\ last' \in [Key -> Val \cup {MISS}] /\ map' \in [Key -> Node \cup {NULL}]
      /\ Recency!Seen' = Recency!Seen \cup {k} /\ Recency!Seen \subseteq Key
  BY <1>1, LruAssumption DEF Recency!Seen
<1>6. newer' \subseteq Recency!Seen' \X Recency!Seen' /\ newer' \subseteq Key \X Key
  <2> HIDE DEF Recency!Seen
  <2>1. newer' \subseteq Recency!Seen' \X Recency!Seen'
    BY <1>1, <1>2, <1>5 DEF Used
  <2> QED  BY <2>1, <1>5
<1>7. Len(list') <= MaxSize /\ (Lost' # {} => Len(list') = MaxSize)
  <2>1. Len(l) \in Nat
    OBVIOUS
  <2> QED  BY <1>1, <1>4, <2>1
<1>8. TypeOK'
  BY <1>4, <1>5, <1>6, <1>7 DEF TypeOK
<1> QED  BY <1>4, <1>6, <1>7, <1>8 DEF IInv

\* What is needed of an entry the map knows.
LEMMA EntryFacts ==
  ASSUME IInv, NEW k \in Key, map[k] # NULL
  PROVE  \E p \in DOMAIN list :
           /\ list[p] = map[k] /\ item[list[p]].key = k
           /\ last[k] = item[list[p]].val
<1>1. map[k] \in Nodes(list) /\ item[map[k]].key = k
  BY DEF IInv, Linked, Keys
<1>2. PICK p \in DOMAIN list : list[p] = map[k]
  BY <1>1 DEF Nodes
<1> QED  BY <1>1, <1>2 DEF IInv, Valued

\* Keys that were evicted were used once.
LEMMA LostIsSeen == Lost \subseteq Recency!Seen
  BY DEF Lost, Recency!Seen

\* A known key moves to the front, with a new node or with its own.
LEMMA KnownInv ==
  ASSUME IInv, NEW k \in Key, map[k] # NULL, NEW v \in Val, NEW n \in Node,
         n \notin Nodes(Erased(list, map[k])),
         list' = <<n>> \o Erased(list, map[k]),
         item' = [item EXCEPT ![n] = [key |-> k, val |-> v]],
         map' = [map EXCEPT ![k] = n], last' = [last EXCEPT ![k] = v],
         Recency!Use(k), answer' \in Val \cup {MISS}
  PROVE  IInv'
<1> DEFINE l == Erased(list, map[k])
           m == [map EXCEPT ![k] = NULL]
<1>1. /\ list \in Seq(Node) /\ item \in [Node -> Item] /\ map \in [Key -> Node \cup {NULL}]
      /\ Linked(list, item, map) /\ Ranked(list, item, Lost, newer) /\ Valued(list, item, last)
      /\ Len(list) <= MaxSize /\ Len(list) \in Nat /\ MaxSize \in Nat
      /\ Lost # {} => Len(list) = MaxSize
  BY LruAssumption DEF IInv, TypeOK
<1>2. PICK p \in DOMAIN list : list[p] = map[k] /\ item[list[p]].key = k
  BY EntryFacts
<1>3. Lost \in SUBSET Key /\ k \notin Lost
  BY DEF Lost
<1>4. /\ l \in Seq(Node) /\ Len(l) = Len(list) - 1
      /\ Linked(l, item, m) /\ Ranked(l, item, Lost, newer) /\ Valued(l, item, last)
  BY <1>1, <1>2, <1>3, Unlink
<1>5. m \in [Key -> Node \cup {NULL}] /\ m[k] = NULL /\ map' = [m EXCEPT ![k] = n]
  BY <1>1
<1>6. Lost' = Lost \ {k}
  BY <1>1, LruAssumption DEF Lost, IInv, TypeOK
<1>7. Len(l) < MaxSize /\ (Lost \ {k} # {} => Len(l) + 1 = MaxSize)
  BY <1>1, <1>3, <1>4
<1> HIDE DEF l, m
<1> QED  BY <1>4, <1>5, <1>6, <1>7, LostIsSeen, AfterFront DEF l

\* push (5thdlru_cache.h:19).
LEMMA PushInv ==
  ASSUME IInv, NEW k \in Key, NEW v \in Val, Push(k, v)
  PROVE  IInv'
<1>1. /\ list \in Seq(Node) /\ item \in [Node -> Item] /\ map \in [Key -> Node \cup {NULL}]
      /\ Linked(list, item, map) /\ Ranked(list, item, Lost, newer) /\ Valued(list, item, last)
      /\ Len(list) <= MaxSize /\ Len(list) \in Nat /\ MaxSize \in Nat \ {0}
      /\ Lost # {} => Len(list) = MaxSize
      /\ last \in [Key -> Val \cup {MISS}] /\ Lost \in SUBSET Key
  BY LruAssumption DEF IInv, TypeOK, Lost
<1>2. /\ last' = [last EXCEPT ![k] = v] /\ Recency!Use(k)
      /\ answer' \in Val \cup {MISS}
  BY DEF Push, IInv, TypeOK
<1>3. IsFull <=> Len(list) = MaxSize
  BY <1>1, KeysCount DEF IsFull
<1>4. CASE map[k] # NULL /\ PutInFront(Erased(list, map[k]), map, k, v)
  BY <1>2, <1>4, KnownInv DEF PutInFront
<1>5. CASE map[k] = NULL /\ ~IsFull /\ PutInFront(list, map, k, v)
  <2>1. Lost = {} /\ Len(list) < MaxSize
    BY <1>1, <1>3, <1>5
  <2>2. PICK n \in Node \ Nodes(list) :
          /\ list' = <<n>> \o list /\ item' = [item EXCEPT ![n] = [key |-> k, val |-> v]]
          /\ map' = [map EXCEPT ![k] = n]
    BY <1>5 DEF PutInFront
  <2>3. Lost' = Lost \ {k}
    BY <1>1, <1>2, <2>1, <2>2, LruAssumption DEF Lost
  <2>4. Lost \in SUBSET Recency!Seen /\ Lost \ {k} = {}
    BY <2>1
  <2> QED  BY <1>1, <1>2, <1>5, <2>1, <2>2, <2>3, <2>4, AfterFront
<1>6. CASE /\ map[k] = NULL /\ IsFull
           /\ PutInFront(Erased(list, Oldest(list)),
                         [map EXCEPT ![item[Oldest(list)].key] = NULL], k, v)
  <2> DEFINE p == Len(list)
             o == item[list[p]].key
             l == Erased(list, list[p])
             m == [map EXCEPT ![o] = NULL]
             older == Lost \cup {o}
  <2>1. p \in DOMAIN list /\ p = MaxSize /\ Oldest(list) = list[p]
    BY <1>1, <1>3, <1>6 DEF Oldest
  <2>2. o \in Key /\ map[o] # NULL /\ o # k /\ last[o] # MISS
    <3>1. list[p] \in Node
      BY <1>1, <2>1
    <3>2. o \in Key /\ item[list[p]].val \in Val
      BY <1>1, <3>1 DEF Item
    <3>3. map[o] = list[p] /\ last[o] = item[list[p]].val
      BY <1>1, <2>1 DEF Linked, Valued
    <3> QED  BY <1>6, <3>1, <3>2, <3>3, LruAssumption
  <2>3. /\ l \in Seq(Node) /\ Len(l) = p - 1
        /\ Linked(l, item, m) /\ Ranked(l, item, older, newer) /\ Valued(l, item, last)
    BY <1>1, <2>1, Unlink
  <2>4. PICK n \in Node \ Nodes(l) :
          /\ list' = <<n>> \o l /\ item' = [item EXCEPT ![n] = [key |-> k, val |-> v]]
          /\ map' = [m EXCEPT ![k] = n]
    BY <1>6, <2>1 DEF PutInFront
  <2>5. m \in [Key -> Node \cup {NULL}] /\ m[k] = NULL
    BY <1>1, <1>6, <2>2
  <2>6. older \in SUBSET Recency!Seen
    BY <2>2, LostIsSeen DEF Recency!Seen
  <2>7. Lost' = older \ {k}
    BY <1>1, <1>2, <1>6, <2>2, <2>4, LruAssumption DEF Lost
  <2>8. Len(l) < MaxSize /\ Len(l) + 1 = MaxSize
    BY <1>1, <2>1, <2>3
  <2> HIDE DEF l, m, older
  <2> QED  BY <1>2, <2>3, <2>4, <2>5, <2>6, <2>7, <2>8, AfterFront
<1> QED  BY <1>4, <1>5, <1>6 DEF Push

\* get moves the node to the front (5thdlru_cache.h:46).
LEMMA GetInv ==
  ASSUME IInv, NEW k \in Key, Get(k)
  PROVE  IInv'
<1>1. CASE map[k] = NULL
  <2>1. UNCHANGED <<list, item, map, last, newer>> /\ answer' = MISS
    BY <1>1 DEF Get
  <2> QED  BY <2>1 DEF IInv, TypeOK, Linked, Ranked, Valued, Lost, Keys, Nodes, Recency!Seen
<1>2. CASE map[k] # NULL
  <2>1. PICK p \in DOMAIN list : /\ list[p] = map[k] /\ item[list[p]].key = k
                                 /\ last[k] = item[list[p]].val
    BY <1>2, EntryFacts
  <2> DEFINE n == map[k]
             v == item[n].val
  <2>2. /\ list \in Seq(Node) /\ item \in [Node -> Item] /\ map \in [Key -> Node \cup {NULL}]
        /\ last \in [Key -> Val \cup {MISS}] /\ Lost \in SUBSET Key
        /\ Linked(list, item, map) /\ Ranked(list, item, Lost, newer) /\ Valued(list, item, last)
    BY DEF IInv, TypeOK, Lost
  <2>3. n \in Node /\ v \in Val /\ item[n] = [key |-> k, val |-> v]
    BY <2>1, <2>2 DEF Item
  <2>4. /\ item' = [item EXCEPT ![n] = [key |-> k, val |-> v]]
        /\ map' = [map EXCEPT ![k] = n] /\ last' = [last EXCEPT ![k] = v]
    BY <1>2, <2>1, <2>2, <2>3 DEF Get
  <2>5. n \notin Nodes(Erased(list, n))
    BY <2>1, <2>2, Unlink
  <2>6. list' = <<n>> \o Erased(list, n) /\ Recency!Use(k) /\ answer' = v
    BY <1>2 DEF Get, Spliced
  <2> QED  BY <1>2, <2>3, <2>4, <2>5, <2>6, KnownInv
<1> QED  BY <1>1, <1>2

\* The invariant is inductive.
LEMMA NextIInv == IInv /\ [Next]_vars => IInv'
<1> SUFFICES ASSUME IInv, [Next]_vars PROVE IInv'
  OBVIOUS
<1>1. CASE UNCHANGED vars
  BY <1>1 DEF vars, IInv, TypeOK, Linked, Ranked, Valued, Lost, Keys, Nodes, Recency!Seen
<1> QED  BY <1>1, PushInv, GetInv DEF Next

\* The invariant holds always.
LEMMA Invariance == Spec => []IInv
  BY InitIInv, NextIInv, PTL DEF Spec

\* Types, and the cache never holds more than max_size entries
\* (5thdlru_cache.h:33).
THEOREM LruTypes == Spec => []TypeOK
  BY Invariance, PTL DEF IInv

\* Map and list agree after every call (5thdlru_cache.h:26-42).
THEOREM MapAlwaysMatchesList == Spec => []MapMatchesList
<1>1. IInv => MapMatchesList
  BY DEF IInv, Linked, MapMatchesList
<1> QED  BY <1>1, Invariance, PTL

\* Every answer is the one of a cache that remembers all uses.
THEOREM CacheIsByRecency == Spec => ImplementsRecency
<1>1. Init => Recency!Init
  BY DEF Init
<1>2. IInv /\ [Next]_vars => [Recency!Next]_Recency!vars
  <2> SUFFICES ASSUME IInv, [Next]_vars PROVE [Recency!Next]_Recency!vars
    OBVIOUS
  <2>1. CASE UNCHANGED vars
    BY <2>1 DEF vars, Recency!vars
  <2>2. ASSUME NEW k \in Key, NEW v \in Val, Push(k, v) PROVE Recency!Next
    BY <2>2 DEF Push, Recency!Push, Recency!Next
  <2>3. ASSUME NEW k \in Key, Get(k) PROVE Recency!Next
    <3>1. k \in Recency!Cached <=> map[k] # NULL
      BY CachedIsMapped DEF Keys
    <3>2. map[k] # NULL => last[k] = item[map[k]].val
      BY EntryFacts
    <3>3. Recency!Get(k)
      BY <2>3, <3>1, <3>2 DEF Get, Recency!Get
    <3> QED  BY <3>3 DEF Recency!Next
  <2> QED  BY <2>1, <2>2, <2>3 DEF Next
<1> QED  BY <1>1, <1>2, Invariance, PTL DEF Spec, ImplementsRecency, Recency!Spec

-----------------------------------------------------------------------------
(* The process manager *)

Running == {"child", "zombie"}

\* A record names a child that was started under its name and not signalled.
RecordsFit == \A n \in Name : processes[n] # NIL =>
  /\ table[processes[n]] \in Running
  /\ processes[n] \notin signalled
  /\ startedAs[processes[n]] = n

\* Nobody gets the id of a child, even when it ended.
OwnStayOwn ==
  /\ \A p \in signalled : table[p] \in Running
  /\ \A p \in Pid : table[p] \in Running => startedAs[p] \in Name

ManagerInv == ManagerTypeOK /\ RecordsFit /\ OwnStayOwn /\ RunningAreKnown

\* Nothing was started.
LEMMA ManagerInitInv == ManagerInit => ManagerInv
<1> SUFFICES ASSUME ManagerInit PROVE ManagerInv
  OBVIOUS
<1>1. ManagerTypeOK
  BY DEF ManagerInit, ManagerTypeOK
<1>2. RecordsFit /\ OwnStayOwn /\ RunningAreKnown
  BY DEF ManagerInit, RecordsFit, OwnStayOwn, Running, RunningAreKnown
<1> QED
  BY <1>1, <1>2 DEF ManagerInv

\* start_proc: the id is new, and the record it replaces is the only one of
\* the child before.
LEMMA StartProcInv == ASSUME ManagerInv, NEW n \in Name, StartProc(n) PROVE ManagerInv'
<1>1. PICK p \in Pid :
        /\ table[p] = "free"
        /\ table' = [table EXCEPT ![p] = "child"]
        /\ processes' = [processes EXCEPT ![n] = p]
        /\ latest' = [latest EXCEPT ![n] = p]
        /\ startedAs' = [startedAs EXCEPT ![p] = n]
        /\ UNCHANGED <<signalled, stopping>>
  BY DEF StartProc, Recorded
<1>2. ManagerTypeOK'
  BY <1>1 DEF ManagerInv, ManagerTypeOK
<1>3. /\ p # NIL /\ p \notin signalled
      /\ \A m \in Name : processes[m] # p
      /\ \A q \in Pid \ {p} : table'[q] = table[q] /\ startedAs'[q] = startedAs[q]
      /\ table'[p] = "child" /\ startedAs'[p] = n
      /\ processes'[n] = p /\ latest'[n] = p
      /\ \A m \in Name \ {n} : processes'[m] = processes[m] /\ latest'[m] = latest[m]
  BY <1>1, ManagerAssumption
     DEF ManagerInv, ManagerTypeOK, RecordsFit, OwnStayOwn, Running
<1>4. RecordsFit'
  BY <1>1, <1>3 DEF ManagerInv, ManagerTypeOK, RecordsFit, Running
<1>5. OwnStayOwn'
  BY <1>1, <1>3 DEF ManagerInv, ManagerTypeOK, OwnStayOwn, Running
<1>6. RunningAreKnown'
  <2> SUFFICES ASSUME NEW q \in Pid, table'[q] = "child", OutOfReach(q)'
               PROVE  latest'[startedAs'[q]] # q
    BY DEF RunningAreKnown
  <2>1. q # p /\ q \notin signalled /\ \A m \in Name \ {n} : processes[m] # q
    BY <1>1, <1>3 DEF OutOfReach
  <2>2. table[q] = "child" /\ startedAs'[q] = startedAs[q] /\ startedAs[q] \in Name
    BY <1>3, <2>1 DEF ManagerInv, OwnStayOwn, Running
  <2>3. CASE startedAs[q] = n
    BY <1>3, <2>1, <2>2, <2>3
  <2>4. CASE startedAs[q] # n
    <3>1. OutOfReach(q)
      BY <2>1, <2>4, ManagerAssumption DEF ManagerInv, RecordsFit, OutOfReach
    <3> QED
      BY <1>3, <2>2, <2>4, <3>1 DEF ManagerInv, RunningAreKnown
  <2> QED
    BY <2>3, <2>4
<1> QED
  BY <1>2, <1>4, <1>5, <1>6 DEF ManagerInv

\* stop_proc, of its own or for stop_all: what loses its record is signalled.
LEMMA StoppedInv ==
  ASSUME ManagerInv, NEW n \in Name, Stopped(n),
         stopping' \in BOOLEAN, UNCHANGED <<table, latest, startedAs>>
  PROVE  ManagerInv'
<1>1. /\ processes[n] # NIL /\ processes[n] \in Pid
      /\ processes' = [processes EXCEPT ![n] = NIL]
      /\ signalled' = signalled \cup {processes[n]}
  BY DEF Stopped, Recalled, Killed, Unrecorded, ManagerInv, ManagerTypeOK
<1>2. ManagerTypeOK'
  BY <1>1 DEF ManagerInv, ManagerTypeOK
<1>3. /\ processes'[n] = NIL
      /\ \A m \in Name \ {n} : processes'[m] = processes[m]
  BY <1>1 DEF ManagerInv, ManagerTypeOK
<1>4. RecordsFit'
  BY <1>1, <1>3 DEF ManagerInv, RecordsFit
<1>5. OwnStayOwn'
  BY <1>1 DEF ManagerInv, RecordsFit, OwnStayOwn
<1>6. RunningAreKnown'
  <2>1. \A p \in Pid : OutOfReach(p)' => OutOfReach(p)
    BY <1>1, <1>3 DEF OutOfReach
  <2> QED
    BY <2>1 DEF ManagerInv, RunningAreKnown
<1> QED
  BY <1>2, <1>4, <1>5, <1>6 DEF ManagerInv

\* The table changes, but no child becomes anything but a zombie.
LEMMA TableInv ==
  ASSUME ManagerInv, NEW p \in Pid, End(p) \/ OtherProcess(p) PROVE ManagerInv'
<1>1. /\ UNCHANGED <<processes, signalled, stopping, latest, startedAs>>
      /\ table' \in [Pid -> {"free", "child", "zombie", "stranger"}]
      /\ \A q \in Pid : /\ table'[q] \in Running <=> table[q] \in Running
                        /\ table'[q] = "child" => table[q] = "child"
  <2>1. CASE End(p)
    BY <2>1 DEF End, WhenEnded, ManagerInv, ManagerTypeOK, Running
  <2>2. CASE OtherProcess(p)
    BY <2>2 DEF OtherProcess, ManagerInv, ManagerTypeOK, Running
  <2> QED
    BY <2>1, <2>2
<1>2. ManagerTypeOK'
  BY <1>1 DEF ManagerInv, ManagerTypeOK
<1>3. RecordsFit' /\ OwnStayOwn'
  BY <1>1 DEF ManagerInv, ManagerTypeOK, RecordsFit, OwnStayOwn
<1>4. RunningAreKnown'
  BY <1>1 DEF ManagerInv, RunningAreKnown, OutOfReach
<1> QED
  BY <1>2, <1>3, <1>4 DEF ManagerInv

\* The invariant of the manager holds always.
LEMMA ManagerAlways == ManagerSpec => []ManagerInv
<1>1. ManagerInv /\ [ManagerNext]_managerVars => ManagerInv'
  <2> SUFFICES ASSUME ManagerInv, [ManagerNext]_managerVars PROVE ManagerInv'
    OBVIOUS
  <2>1. ASSUME NEW n \in Name, StopProc(n) PROVE ManagerInv'
    BY <2>1, StoppedInv DEF StopProc, ManagerInv, ManagerTypeOK
  <2>2. CASE StopNext
    BY <2>2, StoppedInv DEF StopNext, ManagerInv, ManagerTypeOK
  <2>3. CASE StopAll \/ AllStopped \/ UNCHANGED managerVars
    <3>1. /\ UNCHANGED <<processes, table, signalled, latest, startedAs>>
          /\ stopping' \in BOOLEAN
      BY <2>3 DEF StopAll, AllStopped, managerVars, ManagerInv, ManagerTypeOK
    <3> QED
      BY <3>1 DEF ManagerInv, ManagerTypeOK, RecordsFit, OwnStayOwn,
                  RunningAreKnown, OutOfReach
  <2> QED
    BY <2>1, <2>2, <2>3, StartProcInv, TableInv DEF ManagerNext
<1> QED
  BY <1>1, ManagerInitInv, PTL DEF ManagerSpec

\* The types of the state of the manager.
THEOREM ManagerTypes == ManagerSpec => []ManagerTypeOK
  BY ManagerAlways, PTL DEF ManagerInv

\* Whatever ids the machine hands out, stop_proc signals only children of its
\* own, each at most once (proc_unix.h:34).
THEOREM OnlyOwnAlwaysSignalled == ManagerSpec => []OnlyOwnSignalled
<1>1. ManagerInv => OnlyOwnSignalled
  BY DEF ManagerInv, RecordsFit, OnlyOwnSignalled, Running
<1> QED
  BY <1>1, ManagerAlways, PTL

\* A child that runs can be stopped, was told to stop, or was replaced under
\* its name (proc_unix.h:24).
THEOREM RunningAreAlwaysKnown == ManagerSpec => []RunningAreKnown
  BY ManagerAlways, PTL DEF ManagerInv

\* stop_all returns with every child signalled that was not replaced under
\* its name (proc_unix.h:42).
THEOREM StopAllAlwaysReaches == ManagerSpec => StopAllReaches
<1> DEFINE Reached == stopping /\ ~stopping'
      => \A p \in Pid : table[p] = "child" /\ latest[startedAs[p]] = p
                          => p \in signalled
<1>1. ManagerInv /\ [ManagerNext]_managerVars => Reached
  <2> SUFFICES ASSUME ManagerInv, [ManagerNext]_managerVars, stopping, ~stopping',
                      NEW p \in Pid, table[p] = "child", latest[startedAs[p]] = p
               PROVE  p \in signalled
    OBVIOUS
  <2>1. AllStopped
    BY DEF ManagerNext, managerVars, StartProc, StopProc, StopAll, StopNext, End, OtherProcess
  <2>2. \A n \in Name : processes[n] # p
    BY <2>1, ManagerAssumption DEF AllStopped
  <2> QED
    BY <2>2 DEF ManagerInv, RunningAreKnown, OutOfReach
<1> QED
  BY <1>1, ManagerAlways, PTL DEF ManagerSpec, StopAllReaches

-----------------------------------------------------------------------------
(* The port scan *)

\* A process holds no port but the one its scan is at.
HoldsWhatItScans == \A p \in Port : holder[p] \in Process => scan[holder[p]] = p

ScanInv == ScanTypeOK /\ SocketsAreFailures /\ HoldsWhatItScans

\* No scan has begun.
LEMMA ScanInitInv == ScanInit => ScanInv
  BY ScanAssumption
     DEF ScanInit, ScanInv, ScanTypeOK, SocketsAreFailures, HoldsWhatItScans

\* A process that scans has a descriptor for it and has not failed as often
\* as it may.
LEMMA ScanFacts ==
  ASSUME ScanInv, NEW c \in Process
  PROVE  /\ scan[c] \in Port \cup {NONE} /\ NONE \notin Port
         /\ files[c] \in Nat /\ files[c] <= MaxFiles /\ failed[c] \in Nat
         /\ MaxFiles \in Nat /\ Port \subseteq Nat
         /\ scan[c] = NONE => files[c] = failed[c]
         /\ scan[c] # NONE => files[c] = failed[c] + 1
         /\ failed[c] = MaxFiles => returned[c] = -1
  BY ScanAssumption DEF ScanInv, ScanTypeOK, SocketsAreFailures, Port

\* socket() gives the descriptor.
LEMMA OpenInv == ASSUME ScanInv, NEW c \in Process, NEW q \in Port, Open(c, q) PROVE ScanInv'
<1>1. /\ scan[c] = NONE /\ files[c] < MaxFiles
      /\ scan' = [scan EXCEPT ![c] = q]
      /\ files' = [files EXCEPT ![c] = files[c] + 1]
      /\ returned' = [returned EXCEPT ![c] = NONE]
      /\ UNCHANGED <<holder, failed>>
  BY DEF Open
<1>2. ScanTypeOK'
  BY <1>1, ScanFacts DEF ScanInv, ScanTypeOK
<1>3. SocketsAreFailures'
  <2> SUFFICES ASSUME NEW d \in Process
               PROVE  /\ files'[d] = failed'[d] + (IF scan'[d] = NONE THEN 0 ELSE 1)
                      /\ failed'[d] = MaxFiles => returned'[d] = -1
    BY DEF SocketsAreFailures
  <2>1. CASE d = c
    BY <1>1, <2>1, ScanFacts DEF ScanInv, ScanTypeOK
  <2>2. CASE d # c
    BY <1>1, <2>2 DEF ScanInv, ScanTypeOK, SocketsAreFailures
  <2> QED
    BY <2>1, <2>2
<1>4. HoldsWhatItScans'
  BY <1>1, ScanFacts DEF ScanInv, ScanTypeOK, HoldsWhatItScans
<1> QED
  BY <1>2, <1>3, <1>4 DEF ScanInv

\* The steps of the loop that leave the port to others.
LEMMA LookInv ==
  ASSUME ScanInv, NEW c \in Process, OpenFails(c) \/ BindFails(c) \/ NoPort(c)
  PROVE  ScanInv'
<1>1. CASE OpenFails(c)
  <2>1. scan[c] = NONE /\ returned' = [returned EXCEPT ![c] = -1]
        /\ UNCHANGED <<holder, scan, files, failed>>
    BY <1>1 DEF OpenFails
  <2> QED
    BY <2>1 DEF ScanInv, ScanTypeOK, SocketsAreFailures, HoldsWhatItScans
<1>2. CASE BindFails(c)
  <2>1. /\ scan[c] \in Port /\ holder[scan[c]] # c
        /\ scan[c] + 1 \in Port /\ scan[c] + 1 # NONE
        /\ scan' = [scan EXCEPT ![c] = scan[c] + 1]
        /\ UNCHANGED <<holder, returned, files, failed>>
    BY <1>2, ScanFacts, ScanAssumption
       DEF BindFails, Bound, GoesOn, Following, ScanInv, ScanTypeOK, Port
  <2>2. ScanTypeOK'
    BY <2>1 DEF ScanInv, ScanTypeOK
  <2>3. \A d \in Process : scan'[d] = NONE <=> scan[d] = NONE
    BY <2>1, ScanFacts DEF ScanInv, ScanTypeOK
  <2>4. SocketsAreFailures'
    BY <2>1, <2>3 DEF ScanInv, SocketsAreFailures
  <2>5. HoldsWhatItScans'
    BY <2>1 DEF ScanInv, ScanTypeOK, HoldsWhatItScans
  <2> QED
    BY <2>2, <2>4, <2>5 DEF ScanInv
<1>3. CASE NoPort(c)
  <2>1. /\ scan[c] \in Port /\ scan[c] # NONE /\ holder[scan[c]] # c
        /\ scan' = [scan EXCEPT ![c] = NONE]
        /\ returned' = [returned EXCEPT ![c] = -1]
        /\ failed' = [failed EXCEPT ![c] = failed[c] + 1]
        /\ UNCHANGED <<holder, files>>
    BY <1>3, ScanFacts DEF NoPort, Bound
  <2>2. ScanTypeOK'
    BY <2>1, ScanFacts DEF ScanInv, ScanTypeOK
  <2>3. SocketsAreFailures'
    <3> SUFFICES ASSUME NEW d \in Process
                 PROVE  /\ files'[d] = failed'[d] + (IF scan'[d] = NONE THEN 0 ELSE 1)
                        /\ failed'[d] = MaxFiles => returned'[d] = -1
      BY DEF SocketsAreFailures
    <3>1. CASE d = c
      BY <2>1, <3>1, ScanFacts DEF ScanInv, ScanTypeOK
    <3>2. CASE d # c
      BY <2>1, <3>2 DEF ScanInv, ScanTypeOK, SocketsAreFailures
    <3> QED
      BY <3>1, <3>2
  <2>4. HoldsWhatItScans'
    BY <2>1 DEF ScanInv, ScanTypeOK, HoldsWhatItScans
  <2> QED
    BY <2>2, <2>3, <2>4 DEF ScanInv
<1> QED
  BY <1>1, <1>2, <1>3

\* bind succeeds, or somebody else's does.
LEMMA BindInv ==
  ASSUME ScanInv,
         \/ \E c \in Process : Bind(c)
         \/ \E p \in Port : OtherPort(p)
  PROVE  ScanInv'
<1>1. UNCHANGED <<scan, returned, files, failed>>
  BY DEF Bind, OtherPort
<1>2. /\ holder' \in [Port -> Process \cup {OTHERS, NONE}]
      /\ HoldsWhatItScans'
  <2>1. ASSUME NEW c \in Process, Bind(c)
        PROVE  /\ holder' \in [Port -> Process \cup {OTHERS, NONE}]
               /\ HoldsWhatItScans'
    <3>1. scan[c] \in Port /\ holder' = [holder EXCEPT ![scan[c]] = c]
      BY <2>1, ScanFacts DEF Bind
    <3> QED
      BY <1>1, <3>1 DEF ScanInv, ScanTypeOK, HoldsWhatItScans
  <2>2. ASSUME NEW p \in Port, OtherPort(p)
        PROVE  /\ holder' \in [Port -> Process \cup {OTHERS, NONE}]
               /\ HoldsWhatItScans'
    <3>1. \E x \in {OTHERS, NONE} : holder' = [holder EXCEPT ![p] = x]
      BY <2>2 DEF OtherPort
    <3>2. OTHERS \notin Process /\ NONE \notin Process
      BY ScanAssumption
    <3> QED
      BY <1>1, <3>1, <3>2 DEF ScanInv, ScanTypeOK, HoldsWhatItScans
  <2> QED
    BY <2>1, <2>2
<1> QED
  BY <1>1, <1>2 DEF ScanInv, ScanTypeOK, SocketsAreFailures

\* The port that was bound is given back, and its descriptor with it.
LEMMA CloseInv == ASSUME ScanInv, NEW c \in Process, Close(c) PROVE ScanInv'
<1>1. /\ scan[c] \in Port /\ holder[scan[c]] = c
      /\ holder' = [holder EXCEPT ![scan[c]] = NONE]
      /\ files' = [files EXCEPT ![c] = files[c] - 1]
      /\ scan' = [scan EXCEPT ![c] = NONE]
      /\ returned' = [returned EXCEPT ![c] = scan[c]]
      /\ failed' = failed
  BY DEF Close, Bound, Closed
<1>2. scan[c] # NONE /\ files[c] = failed[c] + 1 /\ failed[c] < MaxFiles
  BY <1>1, ScanFacts
<1>3. ScanTypeOK'
  BY <1>1, <1>2, ScanFacts DEF ScanInv, ScanTypeOK
<1>4. SocketsAreFailures'
  <2> SUFFICES ASSUME NEW d \in Process
               PROVE  /\ files'[d] = failed'[d] + (IF scan'[d] = NONE THEN 0 ELSE 1)
                      /\ failed'[d] = MaxFiles => returned'[d] = -1
    BY DEF SocketsAreFailures
  <2>1. CASE d = c
    BY <1>1, <1>2, <2>1, ScanFacts DEF ScanInv, ScanTypeOK
  <2>2. CASE d # c
    BY <1>1, <2>2 DEF ScanInv, ScanTypeOK, SocketsAreFailures
  <2> QED
    BY <2>1, <2>2
<1>5. HoldsWhatItScans'
  <2>1. NONE \notin Process
    BY ScanAssumption
  <2> QED
    BY <1>1, <2>1 DEF ScanInv, ScanTypeOK, HoldsWhatItScans
<1> QED
  BY <1>3, <1>4, <1>5 DEF ScanInv

\* The invariant of the scans holds always.
LEMMA ScanAlways == ScanSpec => []ScanInv
<1>1. ScanInv /\ [ScanNext]_scanVars => ScanInv'
  <2> SUFFICES ASSUME ScanInv, [ScanNext]_scanVars PROVE ScanInv'
    OBVIOUS
  <2>1. CASE UNCHANGED scanVars
    BY <2>1 DEF scanVars, ScanInv, ScanTypeOK, SocketsAreFailures, HoldsWhatItScans
  <2> QED
    BY <2>1, OpenInv, LookInv, BindInv, CloseInv DEF ScanNext, Step
<1> QED
  BY <1>1, ScanInitInv, PTL DEF ScanSpec

\* The types of the state of the scans.
THEOREM ScanTypes == ScanSpec => []ScanTypeOK
  BY ScanAlways, PTL DEF ScanInv

\* However many processes scan and whatever others bind, the descriptors of a
\* process are its failed scans and the one that runs (net_helpers.cpp:136).
THEOREM SocketsAreAlwaysFailures == ScanSpec => []SocketsAreFailures
  BY ScanAlways, PTL DEF ScanInv

\* Outside a call a process holds no port: the one it was given is anybody's
\* (net_helpers.cpp:141).
THEOREM NoPortIsKept ==
  ScanSpec => [](\A c \in Process : scan[c] = NONE => \A p \in Port : holder[p] # c)
<1>1. ScanInv => \A c \in Process : scan[c] = NONE => \A p \in Port : holder[p] # c
  BY ScanFacts DEF ScanInv, HoldsWhatItScans
<1> QED
  BY <1>1, ScanAlways, PTL
=============================================================================
