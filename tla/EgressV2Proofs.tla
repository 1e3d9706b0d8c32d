--------------------------- MODULE EgressV2Proofs ---------------------------
(***************************************************************************)
(* Proofs about the router's v2 egress, for any routers, subscribers and   *)
(* requests: a subscription tree (PubSubV2) holds exactly the entries of   *)
(* the selectors that are subscribed, in the order of their names, so two  *)
(* routers choose the same subscriber; an envelope comes by exactly the    *)
(* paths of the selectors that match it, so it is written once for each;   *)
(* and between its diode and Send a stream (EgressStreamV2) loses nothing. *)
(***************************************************************************)
EXTENDS PubSubV2, EgressStreamV2, SequenceTheorems, WellFoundedInduction, TLAPS

(* Where the k-th selector of s belongs, and its entry there. *)
Place(s, k) == createPath(request[s].selectors[k])
EntryOf(s, k) == [sub |-> s, selector |-> k, dName |-> request[s].dName]

Entries == [sub : Subscribers, selector : Nat, dName : Nat]

(* What AddSubscription and DeleteSubscription keep of a list: its entries are *)
(* different and in the order of their names.                                  *)
Ordered(list) ==
    /\ list \in Seq(Entries)
    /\ IsInjective(list)
    /\ \A i, j \in 1 .. Len(list) : i < j => list[i].dName <= list[j].dName

TypeInv ==
    /\ request \in [Subscribers -> Requests]
    /\ up \in [Routers -> [Subscribers -> Nat]]
    /\ down \in [Routers -> [Subscribers -> Nat]]
    /\ \A r \in Routers, s \in Subscribers : down[r][s] <= up[r][s]
    /\ tree = [r \in Routers |-> tree[r]]

(* An entry of a selector that is subscribed at r and belongs to p and id. *)
Subscribed(r, p, id, x) ==
    /\ x.sub \in Subscribers
    /\ x.selector \in Current(r, x.sub)
    /\ x = EntryOf(x.sub, x.selector)
    /\ Place(x.sub, x.selector) = p
    /\ request[x.sub].shard = id

(* A tree holds only entries that are subscribed, each where it belongs. *)
HeldInv ==
    \A r \in Routers : \A p \in DOMAIN tree[r] :
        /\ DOMAIN tree[r][p] # {}
        /\ \A id \in DOMAIN tree[r][p] :
             /\ Ordered(tree[r][p][id])
             /\ tree[r][p][id] # <<>>
             /\ \A x \in ToSet(tree[r][p][id]) : Subscribed(r, p, id, x)

(* The converse: a selector that is subscribed at r has its entry, so that     *)
(* DeleteSubscription finds it.                                                *)
Entered(r, s, k) ==
    LET p == Place(s, k)
        id == request[s].shard
    IN /\ p \in DOMAIN tree[r]
       /\ id \in DOMAIN tree[r][p]
       /\ EntryOf(s, k) \in ToSet(tree[r][p][id])

EnteredInv ==
    \A r \in Routers, s \in Subscribers : \A k \in Current(r, s) : Entered(r, s, k)

TreeInv == TypeInv /\ HeldInv /\ EnteredInv

-----------------------------------------------------------------------------
(* Lists *)

(* Removing the element at an index moves the later ones up by one. *)
LEMMA RemoveAtProperties ==
    ASSUME NEW S, NEW l \in Seq(S), NEW i \in 1 .. Len(l)
    PROVE  LET m == RemoveAt(l, i) IN
           /\ m \in Seq(S)
           /\ Len(m) = Len(l) - 1
           /\ \A j \in 1 .. i - 1 : m[j] = l[j]
           /\ \A j \in i .. Len(l) - 1 : m[j] = l[j + 1]
  <1>. DEFINE a == SubSeq(l, 1, i - 1)
              b == SubSeq(l, i + 1, Len(l))
  <1>0. Len(l) \in Nat /\ i \in Int
    OBVIOUS
  <1>1. a \in Seq(S) /\ Len(a) = i - 1 /\ \A j \in 1 .. i - 1 : a[j] = l[j]
    <2>1. \A j \in 1 .. i - 1 : l[j] \in S
      BY <1>0
    <2>2. /\ a \in Seq(S)
          /\ Len(a) = IF 1 <= i - 1 THEN i - 1 - 1 + 1 ELSE 0
          /\ \A j \in 1 .. i - 1 - 1 + 1 : a[j] = l[1 + j - 1]
      BY <1>0, <2>1, SubSeqProperties
    <2>. QED
      BY <1>0, <2>2
  <1>2. /\ b \in Seq(S)
        /\ Len(b) = Len(l) - i
        /\ \A j \in 1 .. Len(l) - i : b[j] = l[i + j]
    <2>1. \A j \in i + 1 .. Len(l) : l[j] \in S
      BY <1>0
    <2>2. /\ b \in Seq(S)
          /\ Len(b) = IF i + 1 <= Len(l) THEN Len(l) - (i + 1) + 1 ELSE 0
          /\ \A j \in 1 .. Len(l) - (i + 1) + 1 : b[j] = l[i + 1 + j - 1]
      BY <1>0, <2>1, SubSeqProperties
    <2>. QED
      BY <1>0, <2>2
  <1>. HIDE DEF a, b
  <1>3. RemoveAt(l, i) = a \o b
    BY DEF RemoveAt, a, b
  <1>4. /\ a \o b \in Seq(S)
        /\ Len(a \o b) = Len(l) - 1
        /\ \A j \in 1 .. i - 1 : (a \o b)[j] = a[j]
        /\ \A j \in i .. Len(l) - 1 : (a \o b)[j] = b[j - (i - 1)]
    <2>1. /\ a \o b \in Seq(S)
          /\ Len(a \o b) = Len(a) + Len(b)
          /\ \A j \in 1 .. Len(a) + Len(b) :
               (a \o b)[j] = IF j <= Len(a) THEN a[j] ELSE b[j - Len(a)]
      BY <1>1, <1>2, ConcatProperties
    <2>. QED
      BY <2>1, <1>0, <1>1, <1>2
  <1>5. ASSUME NEW j \in i .. Len(l) - 1
        PROVE  (a \o b)[j] = l[j + 1]
    <2>1. j - (i - 1) \in 1 .. Len(l) - i /\ i + (j - (i - 1)) = j + 1
      BY <1>0
    <2>. QED
      BY <2>1, <1>2, <1>4
  <1>. QED
    BY <1>0, <1>1, <1>3, <1>4, <1>5

(* The elements of a list. *)
LEMMA Elements ==
    ASSUME NEW S, NEW l \in Seq(S)
    PROVE  /\ \A x : x \in ToSet(l) <=> \E i \in 1 .. Len(l) : x = l[i]
           /\ l = <<>> <=> ToSet(l) = {}
           /\ IsInjective(l) <=> \A i, j \in 1 .. Len(l) : l[i] = l[j] => i = j
  <1>1. DOMAIN l = 1 .. Len(l) /\ Len(l) \in Nat
    OBVIOUS
  <1>2. \A x : x \in ToSet(l) <=> \E i \in 1 .. Len(l) : x = l[i]
    BY <1>1 DEF ToSet
  <1>3. l = <<>> <=> ToSet(l) = {}
    <2>1. l = <<>> => ToSet(l) = {}
      BY <1>2
    <2>2. l # <<>> => 1 \in 1 .. Len(l)
      BY <1>1
    <2>. QED
      BY <2>1, <2>2, <1>2
  <1>4. IsInjective(l) <=> \A i, j \in 1 .. Len(l) : l[i] = l[j] => i = j
    BY <1>1 DEF IsInjective
  <1>. QED
    BY <1>2, <1>3, <1>4

(* A function on the first n numbers is a list of length n. *)
LEMMA FunctionIsList ==
    ASSUME NEW S, NEW n \in Nat, NEW g \in [1 .. n -> S]
    PROVE  g \in Seq(S) /\ Len(g) = n
  OBVIOUS

(* AddSubscription adds the entry, and sorts the list. *)
LEMMA Inserted ==
    ASSUME NEW l, Ordered(l), NEW x \in Entries, x \notin ToSet(l),
           NEW m \in AddSubscription(l, x)
    PROVE  Ordered(m) /\ ToSet(m) = ToSet(l) \cup {x}
  <1>. DEFINE a == Append(l, x)
              indices == 1 .. Len(a)
  <1>1. l \in Seq(Entries) /\ Len(l) \in Nat
    BY DEF Ordered
  <1>2. /\ a \in Seq(Entries) /\ Len(a) = Len(l) + 1
        /\ a[Len(a)] = x /\ \A j \in 1 .. Len(l) : a[j] = l[j]
    BY <1>1
  <1>3. \A j \in 1 .. Len(l) : l[j] # x
    BY <1>1, Elements
  <1>4. \A j, k \in 1 .. Len(l) : l[j] = l[k] => j = k
    BY <1>1, Elements DEF Ordered
  <1>5. \A j, k \in indices : a[j] = a[k] => j = k
    BY <1>1, <1>2, <1>3, <1>4
  <1>6. \A y : (\E j \in indices : y = a[j]) <=> y \in ToSet(l) \cup {x}
    BY <1>1, <1>2, Elements
  <1>7. PICK f \in Bijection(indices, indices) : m = [i \in indices |-> a[f[i]]]
    BY DEF AddSubscription
  <1>8. /\ \A j, k \in indices : j < k => m[j].dName <= m[k].dName
        /\ Len(a) \in Nat
    BY <1>1, <1>2 DEF AddSubscription
  <1>. HIDE DEF a
  <1>9. /\ f \in [indices -> indices]
        /\ \A j, k \in indices : f[j] = f[k] => j = k
        /\ \A j \in indices : \E k \in indices : f[k] = j
    BY DEF Bijection, Injection, Surjection, IsInjective
  <1>10. m \in Seq(Entries) /\ Len(m) = Len(a)
    <2>1. m \in [indices -> Entries]
      <3>1. ASSUME NEW i \in indices PROVE a[f[i]] \in Entries
        <4>1. f[i] \in indices
          BY <1>9
        <4>. QED
          BY <1>2, <1>8, <4>1, ElementOfSeq
      <3>. QED
        BY <1>7, <3>1, Zenon
    <2>. QED
      BY <1>8, <2>1, FunctionIsList
  <1>11. IsInjective(m)
    <2>1. ASSUME NEW j \in indices, NEW k \in indices, m[j] = m[k]
          PROVE  j = k
      <3>1. m[j] = a[f[j]] /\ m[k] = a[f[k]] /\ f[j] \in indices /\ f[k] \in indices
        BY <1>7, <1>9
      <3>. QED
        BY <1>5, <1>9, <2>1, <3>1
    <2>. QED
      BY <1>10, <2>1, Elements
  <1>12. ASSUME NEW y
         PROVE  (\E j \in indices : y = m[j]) <=> \E j \in indices : y = a[j]
    <2>1. \A j \in indices : m[j] = a[f[j]] /\ f[j] \in indices
      BY <1>7, <1>9
    <2>2. ASSUME NEW j \in indices PROVE \E k \in indices : m[k] = a[j]
      <3>1. PICK k \in indices : f[k] = j
        BY <1>9
      <3>. QED
        BY <2>1, <3>1
    <2>. QED
      BY <2>1, <2>2
  <1>13. ToSet(m) = ToSet(l) \cup {x}
    <2>1. ASSUME NEW y
          PROVE  y \in ToSet(m) <=> \E j \in indices : y = m[j]
      BY <1>10, Elements
    <2>. QED
      BY <1>6, <1>12, <2>1, Zenon
  <1>. QED
    BY <1>8, <1>10, <1>11, <1>13 DEF Ordered

(* Removing an entry keeps the order of the others. *)
LEMMA Removed ==
    ASSUME NEW l, Ordered(l), NEW i \in 1 .. Len(l)
    PROVE  /\ Ordered(RemoveAt(l, i))
           /\ ToSet(RemoveAt(l, i)) = ToSet(l) \ {l[i]}
  <1>. DEFINE m == RemoveAt(l, i)
              Old(j) == IF j < i THEN j ELSE j + 1
  <1>1. l \in Seq(Entries) /\ Len(l) \in Nat
    BY DEF Ordered
  <1>2. /\ m \in Seq(Entries)
        /\ Len(m) = Len(l) - 1
        /\ \A j \in 1 .. i - 1 : m[j] = l[j]
        /\ \A j \in i .. Len(l) - 1 : m[j] = l[j + 1]
    BY <1>1, RemoveAtProperties
  <1>. HIDE DEF m
  <1>3. Len(m) \in Nat
    BY <1>1, <1>2
  <1>4. \A j \in 1 .. Len(m) : Old(j) \in 1 .. Len(l) /\ Old(j) # i /\ m[j] = l[Old(j)]
    BY <1>1, <1>2
  <1>5. \A j, k \in 1 .. Len(l) : l[j] = l[k] => j = k
    BY <1>1, Elements DEF Ordered
  <1>6. \A j, k \in 1 .. Len(l) : j < k => l[j].dName <= l[k].dName
    BY DEF Ordered
  <1>7. ASSUME NEW j \in 1 .. Len(m), NEW k \in 1 .. Len(m)
        PROVE  /\ m[j] = m[k] => j = k
               /\ j < k => m[j].dName <= m[k].dName
    <2>1. /\ Old(j) = Old(k) => j = k
          /\ j < k => Old(j) < Old(k)
      BY <1>3
    <2>. QED
      BY <2>1, <1>4, <1>5, <1>6
  <1>8. Ordered(m)
    BY <1>2, <1>7, Elements DEF Ordered
  <1>9. ASSUME NEW y
        PROVE  y \in ToSet(m) <=> y \in ToSet(l) \ {l[i]}
    <2>1. ASSUME y \in ToSet(m)
          PROVE  y \in ToSet(l) /\ y # l[i]
      <3>1. PICK j \in 1 .. Len(m) : y = m[j]
        BY <2>1, <1>2, Elements
      <3>2. Old(j) \in 1 .. Len(l) /\ Old(j) # i /\ y = l[Old(j)]
        BY <3>1, <1>4
      <3>3. y # l[i]
        BY <3>2, <1>5
      <3>. QED
        BY <3>2, <3>3, <1>1, Elements
    <2>2. ASSUME y \in ToSet(l), y # l[i]
          PROVE  y \in ToSet(m)
      <3>1. PICK j \in 1 .. Len(l) : y = l[j]
        BY <2>2, <1>1, Elements
      <3>2. CASE j < i
        <4>1. j \in 1 .. Len(m) /\ m[j] = y
          BY <3>1, <3>2, <1>1, <1>2
        <4>. QED
          BY <4>1, <1>2, Elements
      <3>3. CASE j > i
        <4>1. j - 1 \in 1 .. Len(m) /\ j - 1 \in i .. Len(l) - 1 /\ (j - 1) + 1 = j
          BY <3>1, <3>3, <1>1, <1>2
        <4>2. m[j - 1] = y
          BY <4>1, <3>1, <1>2
        <4>. QED
          BY <4>1, <4>2, <1>2, Elements
      <3>. QED
        BY <2>2, <3>1, <3>2, <3>3
    <2>. QED
      BY <2>1, <2>2
  <1>. QED
    BY <1>8, <1>9 DEF m

-----------------------------------------------------------------------------
(* The trees *)

(* The empty map has no entries. *)
LEMMA EmptyDomain == DOMAIN EmptyMap = {}
  BY DEF EmptyMap

(* A map with one entry deleted is the empty map if there was no other. *)
LEMMA DeleteMap ==
    ASSUME NEW m, NEW k
    PROVE  /\ DOMAIN Delete(m, k) = DOMAIN m \ {k}
           /\ \A x \in DOMAIN m : x # k => Delete(m, k)[x] = m[x]
           /\ Delete(m, k) = EmptyMap <=> DOMAIN m \ {k} = {}
  <1>1. DOMAIN m \ {k} = {} => Delete(m, k) = EmptyMap
    BY DEF Delete, EmptyMap
  <1>2. Delete(m, k) = EmptyMap => DOMAIN m \ {k} = {}
    BY DEF Delete, EmptyMap
  <1>. QED
    BY <1>1, <1>2 DEF Delete

(* The empty list is in order. *)
LEMMA EmptyOrdered == Ordered(<<>>) /\ ToSet(<<>>) = {}
  <1>1. <<>> \in Seq(Entries) /\ Len(<<>>) = 0
    OBVIOUS
  <1>2. ToSet(<<>>) = {}
    BY <1>1, Elements
  <1>3. IsInjective(<<>>)
    BY DEF IsInjective
  <1>. QED
    BY <1>1, <1>2, <1>3 DEF Ordered

(* The trees are empty at first. *)
LEMMA InitTree == Init => TreeInv
  <1>. SUFFICES ASSUME Init
                PROVE  TreeInv
    OBVIOUS
  <1>1. TypeInv
    BY DEF Init, TypeInv
  <1>2. \A r \in Routers : DOMAIN tree[r] = {}
    BY EmptyDomain DEF Init
  <1>3. HeldInv
    BY <1>2 DEF HeldInv
  <1>4. \A r \in Routers, s \in Subscribers : up[r][s] = 0 /\ down[r][s] = 0
    BY DEF Init
  <1>5. \A r \in Routers, s \in Subscribers : Current(r, s) = {}
    BY <1>4 DEF Current, Required
  <1>6. EnteredInv
    BY <1>5 DEF EnteredInv
  <1>. QED
    BY <1>1, <1>3, <1>6 DEF TreeInv

(* Subscribing a selector adds its entry where it belongs, and moves no other. *)
LEMMA SubscribeTree ==
    ASSUME TreeInv, NEW r \in Routers, NEW s \in Subscribers, Subscribe(r, s)
    PROVE  TreeInv'
  <1>a. PICK k \in Following(request[s], up[r][s]) : SubscribeSelector(r, s, k)
    BY DEF Subscribe
  <1>b. PICK p : p = Place(s, k)
    OBVIOUS
  <1>c. PICK id : id = request[s].shard
    OBVIOUS
  <1>d. PICK x : x = EntryOf(s, k)
    OBVIOUS
  <1>. DEFINE node == Get(tree[r], p, EmptyMap)
              l == Get(node, id, <<>>)
  <1>1. PICK list \in AddSubscription(l, x) :
          tree' = [tree EXCEPT ![r] = Put(@, p, Put(node, id, list))]
    BY <1>a, <1>b, <1>c, <1>d DEF SubscribeSelector, Place, EntryOf
  <1>2. /\ up' = [up EXCEPT ![r][s] = k]
        /\ request' = request
        /\ down' = down
    BY <1>a DEF SubscribeSelector
  <1>3. TypeInv
    BY DEF TreeInv
  <1>4. /\ up[r][s] \in Nat /\ k \in Nat /\ up[r][s] < k
        /\ k \in Required(request[s])
        /\ \A j \in Required(request[s]) : up[r][s] < j => k <= j
        /\ up' \in [Routers -> [Subscribers -> Nat]]
        /\ up'[r][s] = k
        /\ \A q \in Routers, t \in Subscribers : q # r \/ t # s => up'[q][t] = up[q][t]
        /\ down[r][s] \in Nat /\ down[r][s] <= up[r][s]
    BY <1>a, <1>2, <1>3 DEF TypeInv, Following, Required
  <1>. DEFINE n == Put(node, id, list)
  <1>5. /\ tree' = [q \in Routers |-> tree'[q]]
        /\ tree'[r] = Put(tree[r], p, n)
        /\ \A q \in Routers : q # r => tree'[q] = tree[q]
    BY <1>1, <1>3 DEF TypeInv
  <1>6. TypeInv'
    <2>1. ASSUME NEW q \in Routers, NEW t \in Subscribers
          PROVE  down'[q][t] <= up'[q][t]
      <3>1. down[q][t] \in Nat /\ up[q][t] \in Nat /\ down[q][t] <= up[q][t]
        BY <1>3 DEF TypeInv
      <3>. QED
        BY <3>1, <1>2, <1>4
    <2>. QED
      BY <2>1, <1>2, <1>3, <1>4, <1>5 DEF TypeInv
  <1>7. /\ DOMAIN n = DOMAIN node \cup {id}
        /\ n[id] = list
        /\ \A i \in DOMAIN node : i # id => n[i] = node[i]
    <2>. HIDE DEF node
    <2>. QED
      BY DEF Put
  <1>8. /\ DOMAIN tree'[r] = DOMAIN tree[r] \cup {p}
        /\ tree'[r][p] = n
        /\ \A h \in DOMAIN tree[r] : h # p => tree'[r][h] = tree[r][h]
    <2>. HIDE DEF n
    <2>. QED
      BY <1>5 DEF Put
  <1>9. \A i \in DOMAIN node : p \in DOMAIN tree[r] /\ node = tree[r][p]
    BY EmptyDomain DEF Get
  <1>10. p \in DOMAIN tree[r] => node = tree[r][p]
    BY DEF Get
  <1>11. \/ id \in DOMAIN node /\ l = node[id]
         \/ id \notin DOMAIN node /\ l = <<>>
    BY DEF Get
  <1>12. request[s].dName \in Nat
    BY <1>3, PubSubAssumption DEF TypeInv
  <1>13. x \in Entries /\ x.sub = s /\ x.selector = k
    BY <1>d, <1>4, <1>12 DEF EntryOf, Entries
  <1>. HIDE DEF node, l, n
  <1>14. HeldInv /\ EnteredInv
    BY DEF TreeInv
  <1>15. Ordered(l) /\ \A y \in ToSet(l) : Subscribed(r, p, id, y)
    <2>1. CASE id \in DOMAIN node /\ l = node[id]
      BY <2>1, <1>9, <1>14 DEF HeldInv
    <2>2. CASE l = <<>>
      BY <2>2, EmptyOrdered
    <2>. QED
      BY <2>1, <2>2, <1>11
  <1>16. x \notin ToSet(l)
    <2>1. ASSUME x \in ToSet(l)
          PROVE  FALSE
      <3>1. k \in Current(r, s)
        BY <2>1, <1>13, <1>15 DEF Subscribed
      <3>. QED
        BY <3>1, <1>4 DEF Current
    <2>. QED
      BY <2>1
  <1>17. Ordered(list) /\ ToSet(list) = ToSet(l) \cup {x}
    BY <1>13, <1>15, <1>16, Inserted
  <1>18. list # <<>>
    BY <1>17, Elements DEF Ordered
  <1>19. ASSUME NEW q \in Routers, NEW h, NEW i, NEW y, Subscribed(q, h, i, y)
         PROVE  Subscribed(q, h, i, y)'
    <2>1. y.sub \in Subscribers /\ y.selector \in Current(q, y.sub)
      BY <1>19 DEF Subscribed
    <2>2. down[q][y.sub] \in Nat /\ up[q][y.sub] \in Nat /\ y.selector \in Nat
      BY <2>1, <1>3 DEF TypeInv, Current, Required
    <2>3. up'[q][y.sub] \in Nat /\ up[q][y.sub] <= up'[q][y.sub]
      BY <2>1, <2>2, <1>4
    <2>4. y.selector \in Current(q, y.sub)'
      BY <2>1, <2>2, <2>3, <1>2 DEF Current, Required
    <2>. QED
      BY <2>4, <1>2, <1>19 DEF Subscribed, EntryOf, Place
  <1>20. Subscribed(r, p, id, x)'
    <2>1. k \in Current(r, s)'
      BY <1>2, <1>4 DEF Current, Required
    <2>2. x = EntryOf(s, k)' /\ p = Place(s, k)' /\ id = request'[s].shard
      BY <1>b, <1>c, <1>d, <1>2 DEF EntryOf, Place
    <2>. QED
      BY <2>1, <2>2, <1>13 DEF Subscribed
  (* The trees afterwards: all other lists as before, and this one with the entry. *)
  <1>21. ASSUME NEW q \in Routers, NEW h \in DOMAIN tree'[q]
         PROVE  /\ DOMAIN tree'[q][h] # {}
                /\ \A i \in DOMAIN tree'[q][h] :
                     \/ /\ h \in DOMAIN tree[q] /\ i \in DOMAIN tree[q][h]
                        /\ tree'[q][h][i] = tree[q][h][i]
                     \/ q = r /\ h = p /\ i = id /\ tree'[q][h][i] = list
    <2>1. CASE q # r \/ h # p
      <3>1. h \in DOMAIN tree[q] /\ tree'[q][h] = tree[q][h]
        BY <2>1, <1>5, <1>8
      <3>2. DOMAIN tree[q][h] # {}
        BY <3>1, <1>14 DEF HeldInv
      <3>. QED
        BY <3>1, <3>2
    <2>2. CASE q = r /\ h = p
      BY <2>2, <1>7, <1>8, <1>9
    <2>. QED
      BY <2>1, <2>2
  <1>22. ASSUME NEW q \in Routers, NEW h \in DOMAIN tree'[q], NEW i \in DOMAIN tree'[q][h]
         PROVE  /\ Ordered(tree'[q][h][i])
                /\ tree'[q][h][i] # <<>>
                /\ \A y \in ToSet(tree'[q][h][i]) : Subscribed(q, h, i, y)'
    <2>1. CASE /\ h \in DOMAIN tree[q] /\ i \in DOMAIN tree[q][h]
               /\ tree'[q][h][i] = tree[q][h][i]
      <3>1. /\ Ordered(tree'[q][h][i])
            /\ tree'[q][h][i] # <<>>
            /\ \A y \in ToSet(tree'[q][h][i]) : Subscribed(q, h, i, y)
        BY <2>1, <1>14 DEF HeldInv
      <3>. QED
        BY <3>1, <1>19
    <2>2. CASE q = r /\ h = p /\ i = id /\ tree'[q][h][i] = list
      BY <2>2, <1>15, <1>17, <1>18, <1>19, <1>20
    <2>. QED
      BY <1>21, <2>1, <2>2
  <1>23. HeldInv'
    BY <1>21, <1>22 DEF HeldInv, Ordered
  <1>24. ASSUME NEW q \in Routers, NEW h \in DOMAIN tree[q], NEW i \in DOMAIN tree[q][h]
         PROVE  /\ h \in DOMAIN tree'[q] /\ i \in DOMAIN tree'[q][h]
                /\ ToSet(tree[q][h][i]) \subseteq ToSet(tree'[q][h][i])
    <2>1. CASE q # r
      BY <2>1, <1>5
    <2>2. CASE q = r /\ h # p
      BY <2>2, <1>8
    <2>3. CASE q = r /\ h = p /\ i # id
      BY <2>3, <1>7, <1>8, <1>10
    <2>4. CASE q = r /\ h = p /\ i = id
      BY <2>4, <1>7, <1>8, <1>10, <1>11, <1>17
    <2>. QED
      BY <2>1, <2>2, <2>3, <2>4
  <1>25. ASSUME NEW q \in Routers, NEW t \in Subscribers, NEW j \in Current(q, t)'
         PROVE  Entered(q, t, j)'
    <2>0. Place(t, j)' = Place(t, j) /\ EntryOf(t, j)' = EntryOf(t, j)
      BY <1>2 DEF Place, EntryOf
    <2>1. CASE q = r /\ t = s /\ j = k
      <3>1. /\ Place(t, j) = p /\ EntryOf(t, j) = x /\ request'[t].shard = id
            /\ p \in DOMAIN tree'[q] /\ id \in DOMAIN tree'[q][p]
            /\ x \in ToSet(tree'[q][p][id])
        BY <2>1, <1>b, <1>c, <1>d, <1>2, <1>7, <1>8, <1>17
      <3>. QED
        BY <2>0, <3>1 DEF Entered
    <2>2. CASE ~(q = r /\ t = s /\ j = k)
      <3>1. j \in Current(q, t)
        <4>1. /\ j \in Required(request[t]) /\ down[q][t] < j /\ j <= up'[q][t]
              /\ down[q][t] \in Nat /\ up[q][t] \in Nat /\ j \in Nat
          BY <1>2, <1>3 DEF TypeInv, Current, Required
        <4>. QED
          BY <2>2, <4>1, <1>4 DEF Current
      <3>2. Entered(q, t, j)
        BY <3>1, <1>14 DEF EnteredInv
      <3>. QED
        BY <2>0, <3>2, <1>2, <1>24 DEF Entered
    <2>. QED
      BY <2>1, <2>2
  <1>26. EnteredInv'
    BY <1>25 DEF EnteredInv
  <1>. QED
    BY <1>6, <1>23, <1>26 DEF TreeInv

(* A non-empty set of natural numbers has a least element. *)
LEMMA Least ==
    ASSUME NEW T \in SUBSET Nat, T # {}
    PROVE  \E i \in T : \A j \in T : i <= j
  <1>1. PICK i \in T : \A j \in T : ~(<<j, i>> \in OpToRel(<, Nat))
    BY NatLessThanWellFounded, WFMin
  <1>2. \A j \in T : ~(j < i)
    BY <1>1 DEF OpToRel
  <1>. QED
    BY <1>2

(* Unsubscribing a selector takes out its entry, with the list and the node    *)
(* that it leaves empty, and no other.                                         *)
LEMMA UnsubscribeTree ==
    ASSUME TreeInv, NEW r \in Routers, NEW s \in Subscribers, Unsubscribe(r, s)
    PROVE  TreeInv'
  <1>a. PICK k \in Following(request[s], down[r][s]) : UnsubscribeSelector(r, s, k)
    BY DEF Unsubscribe
  <1>b. PICK p : p = Place(s, k)
    OBVIOUS
  <1>c. PICK id : id = request[s].shard
    OBVIOUS
  <1>d. PICK x : x = EntryOf(s, k)
    OBVIOUS
  <1>. DEFINE old == tree[r][p]
              l == old[id]
              i == Position(l, s, k)
              m == RemoveAt(l, i)
              node == DeleteSubscription(old, id, s, k)
  <1>1. /\ tree' = [tree EXCEPT ![r] = IF node = EmptyMap THEN Delete(@, p) ELSE Put(@, p, node)]
        /\ down' = [down EXCEPT ![r][s] = k]
        /\ request' = request
        /\ up' = up
    BY <1>a, <1>b, <1>c DEF UnsubscribeSelector, Place
  <1>2. TypeInv /\ HeldInv /\ EnteredInv
    BY DEF TreeInv
  <1>3. /\ down[r][s] \in Nat /\ up[r][s] \in Nat /\ k \in Nat
        /\ k \in Current(r, s) /\ down[r][s] < k /\ k <= up[r][s]
        /\ \A j \in Required(request[s]) : down[r][s] < j => k <= j
        /\ down' \in [Routers -> [Subscribers -> Nat]]
        /\ down'[r][s] = k
        /\ \A q \in Routers, t \in Subscribers : q # r \/ t # s => down'[q][t] = down[q][t]
    <2>1. /\ down[r][s] \in Nat /\ up[r][s] \in Nat
          /\ k \in Required(request[s]) /\ k \in Nat /\ down[r][s] < k
          /\ \A j \in Required(request[s]) : down[r][s] < j => k <= j
      BY <1>a, <1>2 DEF TypeInv, Following, Required
    (* All selectors are subscribed, this one too. *)
    <2>2. k <= up[r][s]
      <3>. SUFFICES ASSUME up[r][s] < k
                    PROVE  FALSE
        BY <2>1
      <3>. DEFINE Later == {j \in Required(request[s]) : up[r][s] < j}
      <3>1. Later \in SUBSET Nat /\ Later # {}
        BY <2>1 DEF Required
      <3>2. PICK j \in Later : \A i2 \in Later : j <= i2
        BY <3>1, Least
      <3>3. j \in Following(request[s], up[r][s])
        BY <3>2 DEF Following
      <3>. QED
        BY <3>3 DEF Unsubscribe
    <2>. QED
      BY <2>1, <2>2, <1>1, <1>2 DEF TypeInv, Current
  <1>. DEFINE new == IF node = EmptyMap THEN Delete(tree[r], p) ELSE Put(tree[r], p, node)
  <1>4. /\ tree' = [q \in Routers |-> tree'[q]]
        /\ tree'[r] = new
        /\ \A q \in Routers : q # r => tree'[q] = tree[q]
    <2>. HIDE DEF node
    <2>. QED
      BY <1>1, <1>2 DEF TypeInv
  <1>5. TypeInv'
    <2>1. ASSUME NEW q \in Routers, NEW t \in Subscribers
          PROVE  down'[q][t] <= up'[q][t]
      <3>1. down[q][t] \in Nat /\ up[q][t] \in Nat /\ down[q][t] <= up[q][t]
        BY <1>2 DEF TypeInv
      <3>. QED
        BY <3>1, <1>1, <1>3
    <2>. QED
      BY <2>1, <1>1, <1>2, <1>3, <1>4 DEF TypeInv
  <1>6. p \in DOMAIN tree[r] /\ id \in DOMAIN old /\ x \in ToSet(l)
    BY <1>b, <1>c, <1>d, <1>2, <1>3 DEF EnteredInv, Entered
  <1>7. Ordered(l) /\ \A y \in ToSet(l) : Subscribed(r, p, id, y)
    BY <1>2, <1>6 DEF HeldInv
  <1>8. i \in 1 .. Len(l) /\ l[i] = x
    <2>1. l \in Seq(Entries)
      BY <1>7 DEF Ordered
    <2>. HIDE DEF l
    <2>2. PICK j \in 1 .. Len(l) : l[j] = x
      BY <2>1, <1>6, Elements
    <2>3. l[j].sub = s /\ l[j].selector = k
      BY <2>2, <1>d DEF EntryOf
    <2>4. i \in 1 .. Len(l) /\ l[i].sub = s /\ l[i].selector = k
      BY <2>3 DEF Position
    <2>5. l[i] \in ToSet(l)
      BY <2>1, <2>4, Elements
    <2>6. l[i] = EntryOf(s, k)
      BY <2>4, <2>5, <1>7 DEF Subscribed
    <2>. QED
      BY <2>4, <2>6, <1>d
  <1>9. Ordered(m) /\ ToSet(m) = ToSet(l) \ {x}
    <2>. HIDE DEF l, i
    <2>. QED
      BY <1>7, <1>8, Removed
  <1>10. node = IF m = <<>> THEN Delete(old, id) ELSE Put(old, id, m)
    BY DEF DeleteSubscription
  <1>. HIDE DEF old, l, i, m, node
  <1>11. m = <<>> =>
           /\ DOMAIN node = DOMAIN old \ {id}
           /\ \A j \in DOMAIN old : j # id => node[j] = old[j]
           /\ node = EmptyMap <=> DOMAIN old \ {id} = {}
    BY <1>10, DeleteMap
  <1>12. m # <<>> =>
           /\ DOMAIN node = DOMAIN old
           /\ node[id] = m
           /\ \A j \in DOMAIN old : j # id => node[j] = old[j]
           /\ node # EmptyMap
    <2>1. ASSUME m # <<>>
          PROVE  /\ DOMAIN node = DOMAIN old
                 /\ node[id] = m
                 /\ \A j \in DOMAIN old : j # id => node[j] = old[j]
      BY <2>1, <1>6, <1>10 DEF Put
    <2>2. ASSUME m # <<>>
          PROVE  node # EmptyMap
      BY <2>1, <2>2, <1>6, EmptyDomain
    <2>. QED
      BY <2>1, <2>2
  <1>13. node = EmptyMap =>
           /\ DOMAIN tree'[r] = DOMAIN tree[r] \ {p}
           /\ \A h \in DOMAIN tree[r] : h # p => tree'[r][h] = tree[r][h]
    BY <1>4 DEF Delete
  <1>14. node # EmptyMap =>
           /\ DOMAIN tree'[r] = DOMAIN tree[r]
           /\ tree'[r][p] = node
           /\ \A h \in DOMAIN tree[r] : h # p => tree'[r][h] = tree[r][h]
    BY <1>4, <1>6 DEF Put
  <1>. HIDE DEF new
  (* The trees afterwards: all other lists as before, and what is left of this one. *)
  <1>15. ASSUME NEW q \in Routers, NEW h \in DOMAIN tree'[q]
         PROVE  /\ h \in DOMAIN tree[q]
                /\ DOMAIN tree'[q][h] # {}
                /\ \A j \in DOMAIN tree'[q][h] :
                     /\ j \in DOMAIN tree[q][h]
                     /\ q = r /\ h = p /\ j = id => tree'[q][h][j] = m /\ m # <<>>
                     /\ ~(q = r /\ h = p /\ j = id) => tree'[q][h][j] = tree[q][h][j]
    <2>1. CASE q # r \/ h # p
      <3>1. h \in DOMAIN tree[q] /\ tree'[q][h] = tree[q][h]
        BY <2>1, <1>4, <1>13, <1>14
      <3>2. DOMAIN tree[q][h] # {}
        BY <3>1, <1>2 DEF HeldInv
      <3>. QED
        BY <2>1, <3>1, <3>2
    <2>2. CASE q = r /\ h = p
      <3>1. node # EmptyMap /\ tree'[q][h] = node /\ tree[q][h] = old
        BY <2>2, <1>13, <1>14 DEF old
      <3>2. DOMAIN node # {} /\ DOMAIN node \subseteq DOMAIN old
        BY <3>1, <1>6, <1>11, <1>12
      <3>3. \A j \in DOMAIN node : /\ j = id => node[j] = m /\ m # <<>>
                                   /\ j # id => node[j] = old[j]
        BY <1>11, <1>12
      <3>4. h \in DOMAIN tree[q] /\ DOMAIN tree'[q][h] # {}
        BY <2>2, <3>1, <3>2, <1>6
      <3>5. ASSUME NEW j \in DOMAIN tree'[q][h]
            PROVE  /\ j \in DOMAIN tree[q][h]
                   /\ j = id => tree'[q][h][j] = m /\ m # <<>>
                   /\ j # id => tree'[q][h][j] = tree[q][h][j]
        <4>1. j \in DOMAIN node /\ tree'[q][h][j] = node[j] /\ tree[q][h][j] = old[j]
          BY <3>1
        <4>2. j \in DOMAIN old
          BY <4>1, <3>2
        <4>3. j \in DOMAIN tree[q][h]
          BY <4>2, <3>1
        <4>4. /\ j = id => node[j] = m /\ m # <<>>
              /\ j # id => node[j] = old[j]
          BY <4>1, <3>3
        <4>. QED
          BY <4>1, <4>3, <4>4
      <3>. QED
        BY <2>2, <3>4, <3>5
    <2>. QED
      BY <2>1, <2>2
  <1>16. ASSUME NEW q \in Routers, NEW h \in DOMAIN tree[q], NEW j \in DOMAIN tree[q][h],
                q = r /\ h = p /\ j = id => m # <<>>
         PROVE  h \in DOMAIN tree'[q] /\ j \in DOMAIN tree'[q][h]
    <2>1. CASE q # r \/ h # p
      BY <2>1, <1>4, <1>13, <1>14
    <2>2. CASE q = r /\ h = p
      <3>1. tree[q][h] = old /\ j \in DOMAIN old
        BY <2>2 DEF old
      <3>2. node # EmptyMap /\ j \in DOMAIN node
        BY <2>2, <3>1, <1>11, <1>12, <1>16
      <3>. QED
        BY <2>2, <3>2, <1>6, <1>14
    <2>. QED
      BY <2>1, <2>2
  <1>17. ASSUME NEW q \in Routers, NEW h, NEW j, NEW y, Subscribed(q, h, j, y),
                q # r \/ y # x
         PROVE  Subscribed(q, h, j, y)'
    <2>1. y.sub \in Subscribers /\ y.selector \in Current(q, y.sub)
      BY <1>17 DEF Subscribed
    <2>2. down[q][y.sub] \in Nat /\ up[q][y.sub] \in Nat /\ y.selector \in Nat
      BY <2>1, <1>2 DEF TypeInv, Current, Required
    <2>3. q = r /\ y.sub = s => y.selector # k
      BY <1>17, <1>d DEF Subscribed
    <2>4. y.selector \in Current(q, y.sub)'
      <3>1. q = r /\ y.sub = s => k < y.selector
        BY <2>1, <2>2, <2>3, <1>3 DEF Current
      <3>. QED
        BY <2>1, <2>2, <3>1, <1>1, <1>3 DEF Current, Required
    <2>. QED
      BY <2>4, <1>1, <1>17 DEF Subscribed, EntryOf, Place
  <1>18. ASSUME NEW q \in Routers, NEW h \in DOMAIN tree'[q], NEW j \in DOMAIN tree'[q][h]
         PROVE  /\ Ordered(tree'[q][h][j])
                /\ tree'[q][h][j] # <<>>
                /\ \A y \in ToSet(tree'[q][h][j]) : Subscribed(q, h, j, y)'
    <2>0. h \in DOMAIN tree[q] /\ j \in DOMAIN tree[q][h]
      BY <1>15
    <2>1. CASE q = r /\ h = p /\ j = id
      <3>1. tree'[q][h][j] = m /\ m # <<>>
        BY <2>1, <1>15
      <3>2. \A y \in ToSet(m) : Subscribed(q, h, j, y) /\ y # x
        BY <2>1, <1>7, <1>9
      <3>. QED
        BY <3>1, <3>2, <1>9, <1>17
    <2>2. CASE ~(q = r /\ h = p /\ j = id)
      <3>1. tree'[q][h][j] = tree[q][h][j]
        BY <2>2, <1>15
      <3>2. /\ Ordered(tree[q][h][j])
            /\ tree[q][h][j] # <<>>
            /\ \A y \in ToSet(tree[q][h][j]) : Subscribed(q, h, j, y)
        BY <2>0, <1>2 DEF HeldInv
      <3>3. Subscribed(q, h, j, x) => h = p /\ j = id
        BY <1>b, <1>c, <1>d DEF Subscribed, EntryOf
      <3>. QED
        BY <2>2, <3>1, <3>2, <3>3, <1>17
    <2>. QED
      BY <2>1, <2>2
  <1>19. HeldInv'
    BY <1>15, <1>18 DEF HeldInv, Ordered
  <1>20. ASSUME NEW q \in Routers, NEW t \in Subscribers, NEW j \in Current(q, t)'
         PROVE  Entered(q, t, j)'
    <2>0. Place(t, j)' = Place(t, j) /\ EntryOf(t, j)' = EntryOf(t, j)
      BY <1>1 DEF Place, EntryOf
    <2>1. j \in Current(q, t) /\ ~(q = r /\ t = s /\ j = k)
      <3>1. /\ j \in Required(request[t]) /\ down'[q][t] < j /\ j <= up[q][t]
            /\ down[q][t] \in Nat /\ up[q][t] \in Nat /\ j \in Nat
        BY <1>1, <1>2 DEF TypeInv, Current, Required
      <3>. QED
        BY <3>1, <1>3 DEF Current
    <2>. DEFINE h == Place(t, j)
                g == request[t].shard
    <2>2. /\ h \in DOMAIN tree[q] /\ g \in DOMAIN tree[q][h]
          /\ EntryOf(t, j) \in ToSet(tree[q][h][g])
      BY <2>1, <1>2 DEF EnteredInv, Entered
    <2>3. q = r => EntryOf(t, j) # x
      BY <2>1, <1>d DEF EntryOf
    <2>. HIDE DEF h, g
    <2>4. q = r /\ h = p /\ g = id => EntryOf(t, j) \in ToSet(m) /\ m # <<>>
      <3>. SUFFICES ASSUME q = r /\ h = p /\ g = id
                    PROVE  EntryOf(t, j) \in ToSet(m) /\ m # <<>>
        OBVIOUS
      <3>1. EntryOf(t, j) \in ToSet(m)
        BY <2>2, <2>3, <1>9 DEF l, old
      <3>. QED
        BY <3>1, EmptyOrdered
    <2>5. /\ h \in DOMAIN tree'[q] /\ g \in DOMAIN tree'[q][h]
          /\ EntryOf(t, j) \in ToSet(tree'[q][h][g])
      <3>1. h \in DOMAIN tree'[q] /\ g \in DOMAIN tree'[q][h]
        BY <2>2, <2>4, <1>16
      <3>. QED
        BY <3>1, <2>2, <2>4, <1>15
    <2>6. h = Place(t, j) /\ g = request'[t].shard
      BY <1>1 DEF h, g
    <2>. QED
      BY <2>0, <2>5, <2>6 DEF Entered
  <1>21. EnteredInv'
    BY <1>20 DEF EnteredInv
  <1>. QED
    BY <1>5, <1>19, <1>21 DEF TreeInv

(* The trees hold exactly what is subscribed, each list in its order, whatever *)
(* was subscribed and unsubscribed before.                                     *)
THEOREM TreeHolds == Spec => []TreeInv
  <1>1. ASSUME TreeInv, [Next]_vars
        PROVE  TreeInv'
    <2>1. ASSUME NEW r \in Routers, NEW s \in Subscribers, Subscribe(r, s)
          PROVE  TreeInv'
      BY <1>1, <2>1, SubscribeTree
    <2>2. ASSUME NEW r \in Routers, NEW s \in Subscribers, Unsubscribe(r, s)
          PROVE  TreeInv'
      BY <1>1, <2>2, UnsubscribeTree
    <2>3. CASE UNCHANGED <<tree, request, up, down>>
      BY <1>1, <2>3 DEF TreeInv, TypeInv, HeldInv, EnteredInv, Entered, Subscribed, EntryOf,
                        Place, Ordered, Current
    <2>4. ASSUME NEW r \in Routers, NEW e \in Published, Publish(r, e)
          PROVE  TreeInv'
      BY <2>3, <2>4 DEF Publish
    <2>5. CASE UNCHANGED vars
      BY <2>3, <2>5 DEF vars
    <2>. QED
      BY <1>1, <2>1, <2>2, <2>4, <2>5 DEF Next
  <1>. QED
    BY <1>1, InitTree, PTL DEF Spec

(* For any routers, subscribers and requests: a tree holds the entries of the  *)
(* selectors that are subscribed, each once and where it belongs, and nothing  *)
(* empty.                                                                      *)
THEOREM NothingLeftBehindHolds == Spec => []NothingLeftBehind
  <1>1. TreeInv => NothingLeftBehind
    <2>. SUFFICES ASSUME TreeInv
                  PROVE  NothingLeftBehind
      OBVIOUS
    <2>1. ASSUME NEW r \in Routers, NEW p \in DOMAIN tree[r]
          PROVE  /\ DOMAIN tree[r][p] # {}
                 /\ \A id \in DOMAIN tree[r][p] :
                      /\ Ordered(tree[r][p][id])
                      /\ tree[r][p][id] # <<>>
                      /\ \A x \in ToSet(tree[r][p][id]) : Subscribed(r, p, id, x)
      BY DEF TreeInv, HeldInv
    <2>2. ASSUME NEW r \in Routers, NEW p \in DOMAIN tree[r], NEW id \in DOMAIN tree[r][p]
          PROVE  /\ tree[r][p][id] # <<>>
                 /\ IsInjective(tree[r][p][id])
                 /\ \A x \in ToSet(tree[r][p][id]) :
                      /\ x.selector \in Current(r, x.sub)
                      /\ createPath(request[x.sub].selectors[x.selector]) = p
                      /\ request[x.sub].shard = id
      <3>1. tree[r][p][id] # <<>> /\ IsInjective(tree[r][p][id])
        BY <2>1 DEF Ordered
      <3>2. ASSUME NEW x \in ToSet(tree[r][p][id])
            PROVE  /\ x.selector \in Current(r, x.sub)
                   /\ createPath(request[x.sub].selectors[x.selector]) = p
                   /\ request[x.sub].shard = id
        BY <2>1 DEF Subscribed, Place
      <3>. QED
        BY <3>1, <3>2
    <2>. QED
      BY <2>1, <2>2 DEF NothingLeftBehind
  <1>. QED
    BY <1>1, TreeHolds, PTL

-----------------------------------------------------------------------------
(* Deterministic routing *)

(* Two lists of the same entries with different names, both in order, are the  *)
(* same: the first place where they differed would hold two entries, each of   *)
(* which comes before the other.                                               *)
LEMMA SameOrder ==
    ASSUME NEW l1, NEW l2, Ordered(l1), Ordered(l2), DistinctNames(l1), ToSet(l1) = ToSet(l2)
    PROVE  l1 = l2
  <1>1. /\ l1 \in Seq(Entries) /\ l2 \in Seq(Entries)
        /\ Len(l1) \in Nat /\ Len(l2) \in Nat
    BY DEF Ordered
  <1>2. /\ \A i, j \in 1 .. Len(l1) : l1[i] = l1[j] => i = j
        /\ \A i, j \in 1 .. Len(l2) : l2[i] = l2[j] => i = j
    BY <1>1, Elements DEF Ordered
  <1>3. /\ \A i \in 1 .. Len(l1) : \E j \in 1 .. Len(l2) : l1[i] = l2[j]
        /\ \A i \in 1 .. Len(l2) : \E j \in 1 .. Len(l1) : l2[i] = l1[j]
    <2>1. ASSUME NEW i \in 1 .. Len(l1)
          PROVE  \E j \in 1 .. Len(l2) : l1[i] = l2[j]
      <3>1. l1[i] \in ToSet(l2)
        BY <1>1, Elements
      <3>. QED
        BY <3>1, <1>1, Elements
    <2>2. ASSUME NEW i \in 1 .. Len(l2)
          PROVE  \E j \in 1 .. Len(l1) : l2[i] = l1[j]
      <3>1. l2[i] \in ToSet(l1)
        BY <1>1, Elements
      <3>. QED
        BY <3>1, <1>1, Elements
    <2>. QED
      BY <2>1, <2>2
  <1>4. /\ \A i, j \in 1 .. Len(l1) : i < j => l1[i].dName <= l1[j].dName
        /\ \A i, j \in 1 .. Len(l2) : i < j => l2[i].dName <= l2[j].dName
    BY DEF Ordered
  <1>5. \A i \in 1 .. Len(l1) : l1[i].dName \in Nat
    <2>1. \A i \in 1 .. Len(l1) : l1[i] \in Entries
      BY <1>1
    <2>. QED
      BY <2>1 DEF Entries
  <1>6. \A i, j \in 1 .. Len(l1) : l1[i].dName = l1[j].dName => i = j
    BY DEF DistinctNames
  <1>. DEFINE Same(i) == i \in 1 .. Len(l1) /\ i \in 1 .. Len(l2) /\ l1[i] = l2[i]
              Differ == {i \in Nat : (i \in 1 .. Len(l1) \/ i \in 1 .. Len(l2)) /\ ~Same(i)}
  <1>7. Differ = {}
    <2>. SUFFICES ASSUME Differ # {}
                  PROVE  FALSE
      OBVIOUS
    <2>1. PICK i \in Differ : \A j \in Differ : i <= j
      <3>1. Differ \in SUBSET Nat
        OBVIOUS
      <3>. HIDE DEF Differ
      <3>. QED
        BY <3>1, Least
    <2>2. i \in Nat /\ (i \in 1 .. Len(l1) \/ i \in 1 .. Len(l2)) /\ ~Same(i)
      OBVIOUS
    <2>3. \A j \in Nat : j < i /\ (j \in 1 .. Len(l1) \/ j \in 1 .. Len(l2)) => Same(j)
      BY <2>1, <2>2
    <2>. HIDE DEF Differ
    <2>4. ASSUME i \in 1 .. Len(l1)
          PROVE  \E j \in 1 .. Len(l2) : l1[i] = l2[j] /\ i < j
      <3>1. PICK j \in 1 .. Len(l2) : l1[i] = l2[j]
        BY <2>4, <1>3
      <3>2. j # i
        BY <2>2, <2>4, <3>1
      <3>3. ~(j < i)
        <4>1. j < i => j \in 1 .. Len(l1) /\ l1[j] = l2[j]
          BY <2>3, <1>1
        <4>. QED
          BY <4>1, <3>1, <3>2, <2>4, <1>2
      <3>. QED
        BY <3>1, <3>2, <3>3, <2>2, <1>1
    <2>5. ASSUME i \in 1 .. Len(l2)
          PROVE  \E j \in 1 .. Len(l1) : l2[i] = l1[j] /\ i < j
      <3>1. PICK j \in 1 .. Len(l1) : l2[i] = l1[j]
        BY <2>5, <1>3
      <3>2. j # i
        BY <2>2, <2>5, <3>1
      <3>3. ~(j < i)
        <4>1. j < i => j \in 1 .. Len(l2) /\ l1[j] = l2[j]
          BY <2>3, <1>1
        <4>. QED
          BY <4>1, <3>1, <3>2, <2>5, <1>2
      <3>. QED
        BY <3>1, <3>2, <3>3, <2>2, <1>1
    <2>6. i \in 1 .. Len(l1) /\ i \in 1 .. Len(l2)
      BY <2>2, <2>4, <2>5, <1>1
    <2>7. PICK a \in 1 .. Len(l2) : l1[i] = l2[a] /\ i < a
      BY <2>4, <2>6
    <2>8. PICK b \in 1 .. Len(l1) : l2[i] = l1[b] /\ i < b
      BY <2>5, <2>6
    <2>9. l2[i].dName <= l1[i].dName /\ l1[i].dName <= l2[i].dName
      BY <2>6, <2>7, <2>8, <1>4
    <2>10. l1[i].dName = l1[b].dName
      BY <2>6, <2>8, <2>9, <1>5
    <2>. QED
      BY <2>6, <2>8, <2>10, <1>6
  <1>8. \A i \in 1 .. Len(l1) : i \in 1 .. Len(l2) /\ l1[i] = l2[i]
    BY <1>1, <1>7
  <1>9. \A i \in 1 .. Len(l2) : i \in 1 .. Len(l1)
    BY <1>1, <1>7
  <1>10. Len(l1) = Len(l2)
    BY <1>1, <1>8, <1>9
  <1>. QED
    BY <1>1, <1>8, <1>10, SeqEqual

(* For any routers, subscribers and orders of subscribing and leaving: routers *)
(* where the same subscribers with different names share a shard send a metric *)
(* to the same one of them.                                                    *)
THEOREM SameSubscriberEverywhereHolds == Spec => []SameSubscriberEverywhere
  <1>1. TreeInv => SameSubscriberEverywhere
    <2>. SUFFICES ASSUME TreeInv, NEW r1 \in Routers, NEW r2 \in Routers,
                         NEW e \in Published, Hashed(e),
                         NEW g \in Groups(r1, e) \cap Groups(r2, e),
                         DistinctNames(List(r1, g)), ToSet(List(r1, g)) = ToSet(List(r2, g)),
                         NEW i \in Indices(List(r1, g), e), NEW j \in Indices(List(r2, g), e)
                  PROVE  List(r1, g)[i] = List(r2, g)[j]
      BY DEF SameSubscriberEverywhere
    <2>1. ASSUME NEW r \in Routers, g \in Groups(r, e)
          PROVE  Ordered(List(r, g)) /\ List(r, g) # <<>>
      <3>1. PICK p \in Visited[e] \cap DOMAIN tree[r] : \E id \in DOMAIN tree[r][p] : g = <<p, id>>
        BY <2>1 DEF Groups
      <3>2. g[1] \in DOMAIN tree[r] /\ g[2] \in DOMAIN tree[r][g[1]]
        BY <3>1
      <3>. QED
        BY <3>2 DEF TreeInv, HeldInv, List
    <2>2. /\ Ordered(List(r1, g)) /\ List(r1, g) # <<>>
          /\ Ordered(List(r2, g))
      BY <2>1
    <2>3. List(r1, g) = List(r2, g)
      BY <2>2, SameOrder
    <2>4. i = j
      <3>. DEFINE l == List(r1, g)
      <3>1. l \in Seq(Entries) /\ l # <<>>
        BY <2>2 DEF Ordered
      <3>. HIDE DEF l
      <3>2. 1 \in 1 .. Len(l)
        BY <3>1
      <3>3. \E n \in 1 .. Len(l) : l[n].dName # Empty
        BY <3>2 DEF DistinctNames, l
      <3>4. Indices(l, e) = {(hashEnvelope(e) % Len(l)) + 1}
        BY <3>3 DEF Indices
      <3>. QED
        BY <3>4, <2>3 DEF l
    <2>. QED
      BY <2>3, <2>4
  <1>. QED
    BY <1>1, TreeHolds, PTL

-----------------------------------------------------------------------------
(* Paths and Publish *)

(* What paths are made of. *)
PathElements == Nat \cup {hashNames(n) : n \in SUBSET Names}

(* A path that goes on. *)
LEMMA LongerPath ==
    ASSUME NEW a \in PathElements, NEW q \in Seq(PathElements)
    PROVE  /\ <<a>> \o q \in Seq(PathElements)
           /\ Len(<<a>> \o q) = Len(q) + 1
           /\ (<<a>> \o q)[1] = a
           /\ \A i \in 1 .. Len(q) : (<<a>> \o q)[i + 1] = q[i]
  <1>1. <<a>> \in Seq(PathElements) /\ Len(<<a>>) = 1 /\ <<a>>[1] = a
    OBVIOUS
  <1>2. /\ <<a>> \o q \in Seq(PathElements)
        /\ Len(<<a>> \o q) = 1 + Len(q)
        /\ \A i \in 1 .. 1 + Len(q) : (<<a>> \o q)[i] = IF i <= 1 THEN <<a>>[i] ELSE q[i - 1]
    BY <1>1, ConcatProperties
  <1>3. Len(q) \in Nat
    OBVIOUS
  <1>4. ASSUME NEW i \in 1 .. Len(q)
        PROVE  (<<a>> \o q)[i + 1] = q[i]
    <2>1. i + 1 \in 1 .. 1 + Len(q) /\ ~(i + 1 <= 1) /\ (i + 1) - 1 = i
      BY <1>3
    <2>. QED
      BY <2>1, <1>2
  <1>. QED
    BY <1>1, <1>2, <1>3, <1>4

(* The path of a selector. *)
LEMMA SelectorPath ==
    ASSUME NEW sel \in Selectors
    PROVE  /\ sel.source \in SourceIDs \cup {0} /\ sel.names \in SUBSET Names
           /\ createPath(sel) \in Seq(PathElements)
           /\ createPath(sel)[1] = sel.source /\ createPath(sel)[2] = sel.type
           /\ sel.names = {} => Len(createPath(sel)) = 2
           /\ sel.names # {} =>
                /\ sel.type \in {counterType, gaugeType}
                /\ Len(createPath(sel)) = 4
                /\ createPath(sel)[3] = 1 /\ createPath(sel)[4] = hashNames(sel.names)
  <1>1. /\ sel.source \in SourceIDs \cup {0} /\ sel.type \in 0 .. 5 /\ sel.names \in SUBSET Names
        /\ sel.names # {} => sel.type \in {counterType, gaugeType}
    BY DEF Selectors, Attributes, Types, Empty, noMessage, counterType, eventType, gaugeType, logType, timerType
  <1>2. sel.source \in PathElements /\ sel.type \in PathElements /\ 1 \in PathElements
    BY <1>1, PubSubAssumption DEF PathElements
  <1>3. CASE sel.names = {}
    <2>1. createPath(sel) = <<sel.source>> \o <<sel.type>>
      <3>1. <<sel.type>> \o <<>> = <<sel.type>>
        OBVIOUS
      <3>. QED
        BY <1>3, <3>1 DEF createPath, counterPath, gaugePath, eventPath, typePath, nameElements
    <2>2. <<sel.type>> \in Seq(PathElements) /\ Len(<<sel.type>>) = 1 /\ <<sel.type>>[1] = sel.type
      BY <1>2
    <2>3. (<<sel.source>> \o <<sel.type>>)[1 + 1] = sel.type
      BY <1>2, <2>2, LongerPath
    <2>. QED
      BY <1>1, <1>2, <1>3, <2>1, <2>2, <2>3, LongerPath
  <1>4. CASE sel.names # {}
    <2>. DEFINE h == hashNames(sel.names)
                tail == <<1, h>>
                rest == <<sel.type>> \o tail
    <2>1. createPath(sel) = <<sel.source>> \o rest
      <3>1. nameElements(sel) = tail
        BY <1>4 DEF nameElements
      <3>2. CASE sel.type = counterType
        <4>1. createPath(sel) = <<sel.source>> \o counterPath(sel)
          BY <3>2 DEF createPath, gaugeType, counterType, eventType
        <4>. QED
          BY <3>1, <3>2, <4>1 DEF counterPath
      <3>3. CASE sel.type = gaugeType
        <4>1. sel.type # counterType
          BY <3>3 DEF gaugeType, counterType
        <4>2. createPath(sel) = <<sel.source>> \o gaugePath(sel)
          BY <3>3, <4>1 DEF createPath, gaugeType, counterType, eventType
        <4>. QED
          BY <3>1, <3>3, <4>2 DEF gaugePath
      <3>. QED
        BY <1>1, <1>4, <3>2, <3>3
    <2>2. h \in PathElements
      BY <1>1 DEF PathElements
    <2>3. tail \in Seq(PathElements) /\ Len(tail) = 2 /\ tail[1] = 1 /\ tail[2] = h
      BY <1>2, <2>2
    <2>. HIDE DEF tail, h
    <2>4. /\ rest \in Seq(PathElements) /\ Len(rest) = 3
          /\ rest[1] = sel.type /\ rest[2] = 1 /\ rest[3] = h
      <3>1. /\ rest \in Seq(PathElements) /\ Len(rest) = Len(tail) + 1 /\ rest[1] = sel.type
            /\ \A i \in 1 .. Len(tail) : rest[i + 1] = tail[i]
        BY <1>2, <2>3, LongerPath
      <3>2. rest[1 + 1] = tail[1] /\ rest[2 + 1] = tail[2]
        BY <2>3, <3>1
      <3>. QED
        BY <2>3, <3>1, <3>2
    <2>. HIDE DEF rest
    <2>. DEFINE path == <<sel.source>> \o rest
    <2>5. /\ path \in Seq(PathElements) /\ Len(path) = Len(rest) + 1 /\ path[1] = sel.source
          /\ \A i \in 1 .. Len(rest) : path[i + 1] = rest[i]
      BY <1>2, <2>4, LongerPath
    <2>. HIDE DEF path
    <2>6. path[1 + 1] = rest[1] /\ path[2 + 1] = rest[2] /\ path[3 + 1] = rest[3]
      BY <2>4, <2>5
    <2>7. createPath(sel) = path
      BY <2>1 DEF path
    <2>8. /\ Len(path) = 4 /\ path[1] = sel.source /\ path[2] = sel.type
          /\ path[3] = 1 /\ path[4] = h
      BY <2>4, <2>5, <2>6
    <2>. QED
      BY <1>1, <1>4, <2>5, <2>7, <2>8 DEF h
  <1>. QED
    BY <1>3, <1>4

(* What follows the source ID on the paths of an envelope. *)
LEMMA MessagePaths ==
    ASSUME NEW e \in Envelopes
    PROVE  /\ \A q \in messagePaths(e) :
                /\ q \in Seq(PathElements)
                /\ Len(q) >= 1
                /\ q[1] = e.type
                /\ e.type \in {counterType, gaugeType} =>
                     Len(q) = 3 /\ q[2] = 1 /\ q[3] \in {0, hashNames(e.names)}
           /\ \E q \in messagePaths(e) :
                e.type \in {counterType, gaugeType} => q[3] = hashNames(e.names)
  <1>1. /\ e.names \in SUBSET Names
        /\ e.type \in {noMessage, counterType, eventType, gaugeType, logType, timerType}
    BY DEF Envelopes, Attributes, Types
  <1>2. hashUint64(Empty) = 1 /\ AnyValue = 0
    BY DEF hashUint64, Empty, AnyValue
  <1>3. /\ hashNames(e.names) \in PathElements /\ Nat \subseteq PathElements
        /\ e.type \in PathElements /\ 0 \in PathElements /\ 1 \in PathElements
    BY <1>1 DEF PathElements, noMessage, counterType, eventType, gaugeType, logType, timerType
  <1>4. CASE e.type \in {counterType, gaugeType}
    <2>1. messagePaths(e) = IF e.type = counterType THEN counterPaths(e) ELSE gaugePaths(e)
      BY <1>4 DEF messagePaths, counterType, gaugeType, eventType, logType, timerType
    <2>2. \A q : q \in messagePaths(e) <=> \E h \in {0, hashNames(e.names)} : q = <<e.type, 1, h>>
      BY <1>4, <1>2, <2>1 DEF counterPaths, gaugePaths
    <2>3. ASSUME NEW h \in {0, hashNames(e.names)}
          PROVE  LET q == <<e.type, 1, h>> IN
                 q \in Seq(PathElements) /\ Len(q) = 3 /\ q[1] = e.type /\ q[2] = 1 /\ q[3] = h
      BY <1>3
    <2>4. ASSUME NEW q \in messagePaths(e)
          PROVE  /\ q \in Seq(PathElements) /\ Len(q) = 3
                 /\ q[1] = e.type /\ q[2] = 1 /\ q[3] \in {0, hashNames(e.names)}
      <3>1. PICK h \in {0, hashNames(e.names)} : q = <<e.type, 1, h>>
        BY <2>2
      <3>. QED
        BY <2>3, <3>1
    <2>5. \E q \in messagePaths(e) : q[3] = hashNames(e.names)
      <3>1. <<e.type, 1, hashNames(e.names)>> \in messagePaths(e)
        BY <2>2
      <3>. QED
        BY <2>3, <3>1
    <2>. QED
      BY <2>4, <2>5
  <1>5. CASE e.type \in {logType, timerType}
    <2>1. messagePaths(e) = {<<e.type, 1>>}
      BY <1>5 DEF messagePaths, logPaths, timerPaths, counterType, gaugeType, eventType, logType, timerType
    <2>2. e.type \notin {counterType, gaugeType}
      BY <1>5 DEF logType, timerType, counterType, gaugeType
    <2>3. <<e.type, 1>> \in Seq(PathElements) /\ Len(<<e.type, 1>>) = 2 /\ <<e.type, 1>>[1] = e.type
      BY <1>3
    <2>. QED
      BY <2>1, <2>2, <2>3
  <1>6. CASE e.type = eventType
    <2>1. messagePaths(e) = {<<e.type, 1>> \o p : p \in {0, 1} \X {0, 1}}
      <3>1. messagePaths(e) = eventPaths(e)
        BY <1>6 DEF messagePaths, counterType, gaugeType, eventType, logType, timerType
      <3>. QED
        BY <3>1, <1>2, <1>6 DEF eventPaths
    <2>2. e.type \notin {counterType, gaugeType}
      BY <1>6 DEF eventType, counterType, gaugeType
    <2>3. <<e.type, 1>> \in Seq(PathElements) /\ Len(<<e.type, 1>>) = 2 /\ <<e.type, 1>>[1] = e.type
      BY <1>3
    <2>4. ASSUME NEW p \in {0, 1} \X {0, 1}
          PROVE  LET q == <<e.type, 1>> \o p IN
                 q \in Seq(PathElements) /\ Len(q) >= 1 /\ q[1] = e.type
      <3>1. PICK a \in {0, 1}, b \in {0, 1} : p = <<a, b>>
        OBVIOUS
      <3>2. p \in Seq(PathElements) /\ Len(p) = 2
        BY <1>3, <3>1
      <3>3. LET q == <<e.type, 1>> \o p IN
            /\ q \in Seq(PathElements)
            /\ Len(q) = Len(<<e.type, 1>>) + Len(p)
            /\ \A i \in 1 .. Len(<<e.type, 1>>) + Len(p) :
                 q[i] = IF i <= Len(<<e.type, 1>>) THEN <<e.type, 1>>[i] ELSE p[i - Len(<<e.type, 1>>)]
        BY <2>3, <3>2, ConcatProperties
      <3>. QED
        BY <2>3, <3>2, <3>3
    <2>5. <<e.type, 1>> \o <<0, 0>> \in messagePaths(e)
      <3>1. <<0, 0>> \in {0, 1} \X {0, 1}
        OBVIOUS
      <3>. QED
        BY <2>1, <3>1
    <2>6. ASSUME NEW q \in messagePaths(e)
          PROVE  q \in Seq(PathElements) /\ Len(q) >= 1 /\ q[1] = e.type
      <3>1. PICK p \in {0, 1} \X {0, 1} : q = <<e.type, 1>> \o p
        BY <2>1
      <3>. QED
        BY <2>4, <3>1
    <2>. QED
      BY <2>2, <2>5, <2>6
  <1>7. CASE e.type = noMessage
    <2>1. messagePaths(e) = {<<e.type>>}
      BY <1>7 DEF messagePaths, counterType, gaugeType, eventType, logType, timerType, noMessage
    <2>2. e.type \notin {counterType, gaugeType}
      BY <1>7 DEF noMessage, counterType, gaugeType
    <2>3. <<e.type>> \in Seq(PathElements) /\ Len(<<e.type>>) = 1 /\ <<e.type>>[1] = e.type
      BY <1>3
    <2>. QED
      BY <2>1, <2>2, <2>3
  <1>. QED
    BY <1>1, <1>4, <1>5, <1>6, <1>7

(* The paths of an envelope, and only they: its source ID or any, its type,    *)
(* and the hash of its names or any.                                           *)
LEMMA EnvelopePaths ==
    ASSUME NEW e \in Envelopes
    PROVE  /\ \A p \in traversePaths(e) :
                /\ p \in Seq(PathElements)
                /\ Len(p) >= 2
                /\ p[1] \in {0, hashUint64(e.source)}
                /\ p[2] = e.type
                /\ e.type \in {counterType, gaugeType} =>
                     Len(p) = 4 /\ p[3] = 1 /\ p[4] \in {0, hashNames(e.names)}
           /\ \A src \in {0, hashUint64(e.source)} :
                \E p \in traversePaths(e) :
                   /\ p[1] = src
                   /\ e.type \in {counterType, gaugeType} => p[4] = hashNames(e.names)
  <1>1. e.source \in SourceIDs \cup {0}
    BY DEF Envelopes, Attributes, Empty
  <1>. DEFINE srcs == {0, hashUint64(e.source)}
  <1>2. \A src \in srcs : src \in PathElements
    BY <1>1, PubSubAssumption DEF hashUint64, PathElements
  <1>3. traversePaths(e) = {<<src>> \o q : src \in srcs, q \in messagePaths(e)}
    BY DEF traversePaths, AnyValue
  <1>4. ASSUME NEW src \in srcs, NEW q \in messagePaths(e)
        PROVE  LET p == <<src>> \o q IN
               /\ p \in Seq(PathElements)
               /\ Len(p) >= 2
               /\ p[1] = src
               /\ p[2] = e.type
               /\ e.type \in {counterType, gaugeType} => Len(p) = 4 /\ p[3] = 1 /\ p[4] = q[3]
    <2>1. q \in Seq(PathElements) /\ Len(q) \in Nat /\ Len(q) >= 1 /\ q[1] = e.type
      BY MessagePaths
    <2>2. LET p == <<src>> \o q IN
          /\ p \in Seq(PathElements)
          /\ Len(p) = Len(q) + 1
          /\ p[1] = src
          /\ \A i \in 1 .. Len(q) : p[i + 1] = q[i]
      BY <1>2, <2>1, LongerPath
    <2>3. (<<src>> \o q)[1 + 1] = e.type
      BY <2>1, <2>2
    <2>4. ASSUME e.type \in {counterType, gaugeType}
          PROVE  LET p == <<src>> \o q IN Len(p) = 4 /\ p[2 + 1] = 1 /\ p[3 + 1] = q[3]
      <3>1. Len(q) = 3 /\ q[2] = 1
        BY <2>4, MessagePaths
      <3>. QED
        BY <3>1, <2>2
    <2>. QED
      BY <2>1, <2>2, <2>3, <2>4
  <1>. HIDE DEF srcs
  <1>5. ASSUME NEW p \in traversePaths(e)
        PROVE  /\ p \in Seq(PathElements)
               /\ Len(p) >= 2
               /\ p[1] \in srcs
               /\ p[2] = e.type
               /\ e.type \in {counterType, gaugeType} =>
                    Len(p) = 4 /\ p[3] = 1 /\ p[4] \in {0, hashNames(e.names)}
    <2>1. PICK src \in srcs, q \in messagePaths(e) : p = <<src>> \o q
      BY <1>3
    <2>2. e.type \in {counterType, gaugeType} => q[3] \in {0, hashNames(e.names)}
      BY MessagePaths
    <2>. QED
      BY <1>4, <2>1, <2>2
  <1>6. ASSUME NEW src \in srcs
        PROVE  \E p \in traversePaths(e) :
                  /\ p[1] = src
                  /\ e.type \in {counterType, gaugeType} => p[4] = hashNames(e.names)
    <2>1. PICK q \in messagePaths(e) : e.type \in {counterType, gaugeType} => q[3] = hashNames(e.names)
      BY MessagePaths
    <2>2. <<src>> \o q \in traversePaths(e)
      BY <1>3
    <2>3. (<<src>> \o q)[1] = src /\ (e.type \in {counterType, gaugeType} => (<<src>> \o q)[4] = q[3])
      BY <1>4
    <2>. QED
      BY <2>1, <2>2, <2>3
  <1>. QED
    BY <1>5, <1>6 DEF srcs

(* An envelope comes by the node of a selector exactly if it matches it. *)
LEMMA PathsMatch ==
    ASSUME NEW sel \in Selectors, sel.type # noMessage, NEW e \in Published
    PROVE  createPath(sel) \in Visited[e] <=> Matches(sel, e)
  <1>. DEFINE path == createPath(sel)
  <1>1. e \in Envelopes
    BY PubSubAssumption
  <1>2. /\ e.source \in SourceIDs \cup {0} /\ e.names \in SUBSET Names
        /\ SourceIDs \subseteq Nat \ {0, 1}
    BY <1>1, PubSubAssumption DEF Envelopes, Attributes, Empty
  <1>3. hashUint64(e.source) = IF e.source = 0 THEN 1 ELSE e.source
    BY DEF hashUint64
  <1>4. Visited[e] = UNION {{SubSeq(p, 1, n) : n \in 0 .. Len(p)} : p \in traversePaths(e)}
    BY DEF Visited
  <1>5. path \in Seq(PathElements) /\ Len(path) \in {2, 4}
    BY SelectorPath
  <1>6. ASSUME NEW p \in traversePaths(e), NEW n \in 0 .. Len(p)
        PROVE  /\ SubSeq(p, 1, n) \in Seq(PathElements)
               /\ Len(SubSeq(p, 1, n)) = n
               /\ \A i \in 1 .. n : SubSeq(p, 1, n)[i] = p[i]
    <2>1. p \in Seq(PathElements) /\ Len(p) \in Nat
      BY <1>1, EnvelopePaths
    <2>2. \A i \in 1 .. n : p[i] \in PathElements
      BY <2>1
    <2>3. /\ SubSeq(p, 1, n) \in Seq(PathElements)
          /\ Len(SubSeq(p, 1, n)) = IF 1 <= n THEN n - 1 + 1 ELSE 0
          /\ \A i \in 1 .. n - 1 + 1 : SubSeq(p, 1, n)[i] = p[1 + i - 1]
      BY <2>1, <2>2, SubSeqProperties
    <2>. QED
      BY <2>1, <2>3
  <1>7. ASSUME path \in Visited[e]
        PROVE  Matches(sel, e)
    <2>0. PICK p \in traversePaths(e) : \E n \in 0 .. Len(p) : path = SubSeq(p, 1, n)
      BY <1>4, <1>7
    <2>1. PICK n \in 0 .. Len(p) : path = SubSeq(p, 1, n)
      BY <2>0
    <2>2. n = Len(path) /\ \A i \in 1 .. Len(path) : path[i] = p[i]
      BY <1>6, <2>1
    <2>3. sel.source = p[1] /\ sel.type = p[2]
      BY <1>5, <2>2, SelectorPath
    <2>4. p[1] \in {0, hashUint64(e.source)} /\ p[2] = e.type
      BY <1>1, EnvelopePaths
    <2>5. sel.source \in {0, e.source}
      BY <1>2, <1>3, <2>3, <2>4, SelectorPath
    <2>6. ASSUME sel.names # {}
          PROVE  sel.names = e.names
      <3>1. sel.type \in {counterType, gaugeType} /\ Len(path) = 4 /\ path[4] = hashNames(sel.names)
        BY <2>6, SelectorPath
      <3>2. p[4] = hashNames(sel.names) /\ p[4] \in {0, hashNames(e.names)}
        BY <1>1, <2>2, <2>3, <2>4, <3>1, EnvelopePaths
      <3>3. hashNames(sel.names) # 0
        <4>1. \A h : hashUint64(h) # 0
          BY DEF hashUint64
        <4>. QED
          BY <4>1, Zenon DEF hashNames
      <3>. QED
        BY <1>2, <3>2, <3>3, SelectorPath, PubSubAssumption
    <2>. QED
      BY <2>3, <2>4, <2>5, <2>6 DEF Matches, Empty
  <1>8. ASSUME Matches(sel, e)
        PROVE  path \in Visited[e]
    <2>1. /\ sel.source \in {0, e.source} /\ sel.type = e.type
          /\ sel.names = {} \/ sel.names = e.names
      BY <1>8 DEF Matches, Empty
    <2>2. sel.source \in {0, hashUint64(e.source)}
      BY <1>2, <1>3, <2>1
    <2>3. PICK p \in traversePaths(e) :
            /\ p[1] = sel.source
            /\ e.type \in {counterType, gaugeType} => p[4] = hashNames(e.names)
      BY <1>1, <2>2, EnvelopePaths
    <2>4. /\ Len(p) \in Nat /\ Len(p) >= 2 /\ p[2] = e.type
          /\ e.type \in {counterType, gaugeType} => Len(p) = 4 /\ p[3] = 1
      BY <1>1, EnvelopePaths
    <2>5. Len(path) \in 0 .. Len(p)
      <3>1. Len(path) = 2 \/ (Len(path) = 4 /\ sel.type \in {counterType, gaugeType})
        BY SelectorPath
      <3>2. Len(path) = 4 => Len(p) = 4
        <4>1. sel.type \in {counterType, gaugeType} => Len(p) = 4
          BY <2>1, <2>4
        <4>. QED
          BY <3>1, <4>1
      <3>. HIDE DEF path
      <3>3. 2 \in 0 .. Len(p) /\ 4 \in 0 .. 4
        BY <2>4
      <3>4. CASE Len(path) = 2
        BY <3>3, <3>4, Zenon
      <3>5. CASE Len(path) = 4
        BY <3>2, <3>3, <3>5, Zenon
      <3>. QED
        BY <3>1, <3>4, <3>5, Zenon
    <2>6. path[1] = p[1] /\ path[2] = p[2]
      BY <2>1, <2>3, <2>4, SelectorPath
    <2>7. Len(path) = 4 => path[3] = p[3] /\ path[4] = p[4]
      BY <2>1, <2>3, <2>4, SelectorPath
    <2>8. \A i \in 1 .. Len(path) : path[i] = p[i]
      BY <1>5, <2>6, <2>7
    <2>9. path = SubSeq(p, 1, Len(path))
      BY <1>5, <1>6, <2>5, <2>8, SeqEqual
    <2>10. path \in {SubSeq(p, 1, n) : n \in 0 .. Len(p)}
      BY <2>5, <2>9
    <2>. HIDE DEF path
    <2>. QED
      BY <1>4, <2>10
  <1>. QED
    BY <1>7, <1>8

(* Different selectors have different paths. *)
LEMMA PathsDiffer ==
    ASSUME NEW sel1 \in Selectors, NEW sel2 \in Selectors, createPath(sel1) = createPath(sel2)
    PROVE  sel1 = sel2
  <1>1. sel1.source = sel2.source /\ sel1.type = sel2.type
    BY SelectorPath
  <1>2. sel1.names = {} <=> sel2.names = {}
    <2>1. Len(createPath(sel1)) = Len(createPath(sel2))
      OBVIOUS
    <2>. QED
      BY <2>1, SelectorPath
  <1>3. sel1.names = sel2.names
    <2>1. CASE sel1.names = {}
      BY <1>2, <2>1
    <2>2. CASE sel1.names # {}
      <3>1. hashNames(sel1.names) = hashNames(sel2.names)
        BY <1>2, <2>2, SelectorPath
      <3>. QED
        BY <3>1, SelectorPath, PubSubAssumption
    <2>. QED
      BY <2>1, <2>2
  <1>4. /\ sel1 \in [source : SourceIDs \cup {Empty}, type : Types, names : SUBSET Names]
        /\ sel2 \in [source : SourceIDs \cup {Empty}, type : Types, names : SUBSET Names]
    BY DEF Selectors, Attributes
  <1>. QED
    BY <1>1, <1>3, <1>4

(* The list of a path and a shard that an envelope meets. *)
LEMMA GroupFacts ==
    ASSUME TreeInv, NEW r \in Routers, NEW e \in Published, NEW g \in Groups(r, e)
    PROVE  /\ g = <<g[1], g[2]>> /\ g[1] \in Visited[e]
           /\ List(r, g) \in Seq(Entries) /\ Len(List(r, g)) \in Nat \ {0}
           /\ IsInjective(List(r, g))
           /\ \A i \in 1 .. Len(List(r, g)) : Subscribed(r, g[1], g[2], List(r, g)[i])
           /\ Indices(List(r, g), e) \subseteq 1 .. Len(List(r, g))
  <1>1. PICK p \in Visited[e] \cap DOMAIN tree[r] : \E id \in DOMAIN tree[r][p] : g = <<p, id>>
    BY DEF Groups
  <1>2. /\ g = <<g[1], g[2]>> /\ g[1] \in Visited[e] /\ g[1] \in DOMAIN tree[r]
        /\ g[2] \in DOMAIN tree[r][g[1]]
    BY <1>1
  <1>. DEFINE l == List(r, g)
  <1>3. Ordered(l) /\ l # <<>> /\ \A x \in ToSet(l) : Subscribed(r, g[1], g[2], x)
    BY <1>2 DEF TreeInv, HeldInv, List
  <1>4. l \in Seq(Entries) /\ IsInjective(l)
    BY <1>3 DEF Ordered
  <1>. HIDE DEF l
  <1>5. Len(l) \in Nat \ {0}
    BY <1>3, <1>4
  <1>6. \A i \in 1 .. Len(l) : l[i] \in ToSet(l)
    BY <1>4, Elements
  <1>7. Indices(l, e) \subseteq 1 .. Len(l)
    <2>1. hashEnvelope(e) \in Nat
      BY PubSubAssumption
    <2>2. (hashEnvelope(e) % Len(l)) + 1 \in 1 .. Len(l)
      BY <1>5, <2>1
    <2>. QED
      BY <2>2 DEF Indices
  <1>. QED
    BY <1>2, <1>3, <1>4, <1>5, <1>6, <1>7 DEF l

(* A selector that is subscribed matches an envelope exactly if the envelope   *)
(* comes by its path.                                                          *)
LEMMA MatchingPath ==
    ASSUME TypeInv, NEW r \in Routers, NEW s \in Subscribers, NEW k \in Current(r, s)
    PROVE  /\ request[s].selectors[k] \in Selectors
           /\ \A e \in Published : k \in Matching(r, s, e) <=> Place(s, k) \in Visited[e]
  <1>1. k \in 1 .. Len(request[s].selectors) /\ request[s].selectors[k].type # noMessage
    BY DEF Current, Required
  <1>2. request[s].selectors \in Seq(Selectors)
    BY PubSubAssumption DEF TypeInv
  <1>3. request[s].selectors[k] \in Selectors
    BY <1>1, <1>2
  <1>. QED
    BY <1>1, <1>3, PathsMatch DEF Matching, Place

(* A Publish writes to those it should. *)
LEMMA PublishRoutes ==
    ASSUME TreeInv, NEW r \in Routers, NEW e \in Published, Publish(r, e)
    PROVE  RoutedToSubscribers'
  <1>. DEFINE gs == Groups(r, e)
              ws == last'.writes
              Write(g, i) == [group |-> g, index |-> i, entry |-> List(r, g)[i]]
  <1>1. PICK pick \in [gs -> UNION {Indices(List(r, g), e) : g \in gs}] :
          /\ \A g \in gs : pick[g] \in Indices(List(r, g), e)
          /\ last' = [router |-> r, envelope |-> e, writes |-> UNION {Writes(r, g, pick) : g \in gs}]
    BY DEF Publish
  <1>2. UNCHANGED <<tree, request, up, down>> /\ last'.router = r /\ last'.envelope = e
    BY <1>1 DEF Publish
  <1>3. \A w : w \in ws <=> \E g \in gs : \E i \in Written(r, g, pick) : w = Write(g, i)
    <2>1. ws = UNION {Writes(r, g, pick) : g \in gs}
      BY <1>1
    <2>. QED
      BY <2>1 DEF Writes
  <1>4. ASSUME NEW g \in gs, NEW i \in Written(r, g, pick)
        PROVE  /\ i \in 1 .. Len(List(r, g)) /\ Subscribed(r, g[1], g[2], List(r, g)[i])
               /\ g[2] # Empty => i = pick[g]
    <2>1. i \in 1 .. Len(List(r, g)) /\ (g[2] # Empty => i = pick[g])
      BY <1>1, GroupFacts DEF Written
    <2>. QED
      BY <2>1, GroupFacts
  <1>. HIDE DEF ws, gs
  <1>5. ASSUME NEW w \in ws
        PROVE  w.entry.selector \in Matching(r, w.entry.sub, e)
    <2>1. PICK g \in gs : \E i \in Written(r, g, pick) : w = Write(g, i)
      BY <1>3
    <2>2. PICK i \in Written(r, g, pick) : w = Write(g, i)
      BY <2>1
    <2>3. Subscribed(r, g[1], g[2], w.entry) /\ g[1] \in Visited[e]
      BY <1>4, <2>2, GroupFacts DEF gs
    <2>. QED
      BY <2>3, MatchingPath DEF Subscribed, TreeInv
  <1>6. ASSUME NEW s \in Subscribers, NEW k \in Matching(r, s, e)
        PROVE  \E w \in ws : Serves(w, s, k) /\ \A v \in ws : Serves(v, s, k) => v = w
    <2>. DEFINE p == Place(s, k)
                id == request[s].shard
                g == <<p, id>>
                l == List(r, g)
    <2>1. k \in Current(r, s) /\ p \in Visited[e] /\ request[s].selectors[k] \in Selectors
      BY MatchingPath DEF Matching, TreeInv
    <2>2. p \in DOMAIN tree[r] /\ id \in DOMAIN tree[r][p] /\ EntryOf(s, k) \in ToSet(l)
      BY <2>1 DEF TreeInv, EnteredInv, Entered, List
    <2>3. g \in gs /\ g[1] = p /\ g[2] = id
      BY <2>1, <2>2 DEF Groups, gs
    <2>4. l \in Seq(Entries) /\ IsInjective(l)
      BY <2>3, GroupFacts DEF gs
    <2>5. PICK n \in 1 .. Len(l) : l[n] = EntryOf(s, k)
      BY <2>2, <2>4, Elements
    <2>6. ASSUME NEW v \in ws, v.group = g
          PROVE  /\ v.index \in Written(r, g, pick) /\ v = Write(g, v.index)
                 /\ v.index \in 1 .. Len(l) /\ v.entry = l[v.index]
      <3>1. PICK h \in gs : \E i \in Written(r, h, pick) : v = Write(h, i)
        BY <1>3
      <3>2. PICK i \in Written(r, h, pick) : v = Write(h, i)
        BY <3>1
      <3>3. h = g /\ i = v.index
        BY <2>6, <3>2
      <3>. QED
        BY <1>4, <2>3, <3>2, <3>3
    <2>7. ASSUME NEW v \in ws, Serves(v, s, k)
          PROVE  v.group = g
      <3>1. PICK h \in gs : \E i \in Written(r, h, pick) : v = Write(h, i)
        BY <1>3
      <3>2. PICK i \in Written(r, h, pick) : v = Write(h, i)
        BY <3>1
      <3>3. Subscribed(r, h[1], h[2], v.entry) /\ h = <<h[1], h[2]>>
        BY <1>4, <3>2, GroupFacts DEF gs
      <3>4. Place(v.entry.sub, v.entry.selector) = p /\ request[v.entry.sub].shard = id
        BY <2>7 DEF Serves, Place
      <3>. QED
        BY <3>2, <3>3, <3>4 DEF Subscribed
    <2>8. CASE id = Empty
      <3>1. n \in Written(r, g, pick)
        BY <2>3, <2>8 DEF Written
      <3>2. Write(g, n) \in ws
        BY <1>3, <2>3, <3>1
      <3>3. Serves(Write(g, n), s, k)
        BY <2>5, <2>8 DEF Serves, EntryOf
      <3>4. ASSUME NEW v \in ws, Serves(v, s, k)
            PROVE  v = Write(g, n)
        <4>1. v.index \in 1 .. Len(l) /\ v.entry = l[v.index] /\ v = Write(g, v.index)
          BY <2>6, <2>7, <3>4
        <4>2. v.entry.sub = s /\ v.entry.selector = k
          BY <2>8, <3>4 DEF Serves
        <4>3. Subscribed(r, p, id, l[v.index])
          BY <2>3, <4>1, GroupFacts DEF gs
        <4>4. l[v.index] = l[n]
          BY <2>5, <4>1, <4>2, <4>3 DEF Subscribed
        <4>5. v.index = n
          BY <2>4, <4>1, <4>4, Elements DEF IsInjective
        <4>. QED
          BY <4>1, <4>5
      <3>. QED
        BY <3>2, <3>3, <3>4
    <2>9. CASE id # Empty
      <3>. DEFINE w == Write(g, pick[g])
      <3>1. pick[g] \in Written(r, g, pick)
        BY <2>3, <2>9 DEF Written
      <3>2. w \in ws
        BY <1>3, <2>3, <3>1
      <3>3. Subscribed(r, p, id, w.entry)
        BY <1>4, <2>3, <3>1
      <3>4. request[w.entry.sub].selectors[w.entry.selector] \in Selectors
        BY <3>3, MatchingPath DEF Subscribed, TreeInv
      <3>5. request[w.entry.sub].selectors[w.entry.selector] = request[s].selectors[k]
        BY <2>1, <3>3, <3>4, PathsDiffer DEF Subscribed, Place
      <3>6. Serves(w, s, k)
        BY <2>9, <3>3, <3>5 DEF Serves, Subscribed
      <3>7. ASSUME NEW v \in ws, Serves(v, s, k)
            PROVE  v = w
        <4>1. v.index \in Written(r, g, pick) /\ v = Write(g, v.index)
          BY <2>6, <2>7, <3>7
        <4>2. v.index = pick[g]
          BY <1>4, <2>3, <2>9, <4>1
        <4>. QED
          BY <4>1, <4>2
      <3>. HIDE DEF w
      <3>. QED
        BY <3>2, <3>6, <3>7
    <2>. QED
      BY <2>8, <2>9
  <1>7. /\ \A s : Matching(r, s, e)' = Matching(r, s, e)
        /\ \A w, s, k : Serves(w, s, k)' = Serves(w, s, k)
    BY <1>2 DEF Matching, Current, Serves
  <1>. QED
    BY <1>2, <1>5, <1>6, <1>7 DEF RoutedToSubscribers, ws

(* For any routers, subscribers, requests and envelopes, and whatever was      *)
(* subscribed and unsubscribed before: an envelope is written once for each    *)
(* matching selector of a subscriber, or of a shard, and for no other.         *)
THEOREM RoutedToSubscribersHolds == Spec => []RoutedToSubscribers
  <1>1. Init => RoutedToSubscribers
    BY DEF Init, NoPublish, RoutedToSubscribers
  <1>2. ASSUME TreeInv, RoutedToSubscribers, [Next]_vars
        PROVE  RoutedToSubscribers'
    <2>1. ASSUME NEW r \in Routers, NEW e \in Published, Publish(r, e)
          PROVE  RoutedToSubscribers'
      BY <1>2, <2>1, PublishRoutes
    <2>2. CASE last' = NoPublish
      BY <2>2 DEF NoPublish, RoutedToSubscribers
    <2>3. ASSUME NEW r \in Routers, NEW s \in Subscribers, Subscribe(r, s) \/ Unsubscribe(r, s)
          PROVE  RoutedToSubscribers'
      BY <2>2, <2>3 DEF Subscribe, SubscribeSelector, Unsubscribe, UnsubscribeSelector
    <2>4. CASE UNCHANGED vars
      BY <1>2, <2>4 DEF vars, RoutedToSubscribers, Matching, Current, Serves
    <2>. QED
      BY <1>2, <2>1, <2>3, <2>4 DEF Next
  <1>. QED
    BY <1>1, <1>2, TreeHolds, PTL DEF Spec

-----------------------------------------------------------------------------
(* The stream *)

Flags == done \in BOOLEAN /\ subscribed \in BOOLEAN /\ errStream \in BOOLEAN

Values ==
    /\ written \in Nat /\ next \in Nat /\ lost \in Nat /\ failed \in Nat
    /\ delivered \in Seq(Nat) /\ batch \in Seq(Nat) /\ sent \in Seq(Nat)
    /\ env \in Nat \cup {None}
    /\ rpc \in {"next", "wait", "send", "exited"}
    /\ hpc \in {"start", "select", "send", "report", "stop", "reset", "returned"}
    /\ then \in {"stop", "reset"}
    /\ timer \in {"set", "fired", "received"}

(* The reader goroutine holds an envelope only while it offers it, or if it    *)
(* exited with it: the next one it takes does not overwrite any.               *)
HandInv ==
    /\ rpc \in {"next", "wait"} => env = None
    /\ rpc = "send" => env \in Nat
    /\ hpc = "start" => rpc = "exited" /\ env = None

(* A batch that is full is being sent: the next envelope finds room. *)
BatchInv ==
    /\ Len(batch) <= BatchSize
    /\ hpc \notin {"send", "report"} => Len(batch) < BatchSize

StreamInv == Values /\ HandInv /\ BatchInv /\ Conservation

(* The flags stay flags. *)
LEMMA FlagsStep == Flags /\ [StreamNext]_streamVars => Flags'
  BY Zenon DEF Flags, StreamNext, streamVars, diodeVars, handlerVars,
     timerVars, SetEnvelope, Cancel, Reader, ReaderGet,
     ReaderWait, ReaderWake, ReaderExit, Start,
     ReturnOnDone, ReturnOnError, Return, TimerFires,
     TimerFlush, Receive, Send, SendOk, SendErr,
     Report, StopTimer, ResetTimer

(* Passing the batch on moves it to the end of what was sent. *)
LEMMA Passed ==
    ASSUME Values, Conservation, sent' = sent \o batch, batch' = <<>>,
           delivered' = delivered, env' = env
    PROVE  /\ sent' \in Seq(Nat) /\ batch' \in Seq(Nat) /\ Len(batch') = 0
           /\ Conservation'
  <1>1. sent \in Seq(Nat) /\ batch \in Seq(Nat)
    BY DEF Values
  <1>2. sent' \in Seq(Nat)
    BY <1>1
  <1>3. sent' \o <<>> = sent'
    BY <1>2, ConcatEmptySeq
  <1>4. sent' \o batch' = sent \o batch
    BY <1>3
  <1>5. Conservation'
    BY <1>4 DEF Conservation, None
  <1>. QED
    BY <1>2, <1>5

(* An envelope taken from the diode is in the reader goroutine's hand. *)
LEMMA Taken ==
    ASSUME Values, env = None, Conservation, NEW s \in Nat,
           delivered' = Append(delivered, s), env' = s, batch' = batch, sent' = sent
    PROVE  delivered' \in Seq(Nat) /\ Conservation'
  <1>1. sent \in Seq(Nat) /\ batch \in Seq(Nat) /\ delivered \in Seq(Nat)
    BY DEF Values
  <1>2. sent \o batch \in Seq(Nat)
    BY <1>1
  <1>3. delivered = sent \o batch
    <2>1. delivered = (sent \o batch) \o <<>>
      BY DEF Conservation
    <2>. QED
      BY <2>1, <1>2, ConcatEmptySeq
  <1>4. Append(delivered, s) = delivered \o <<s>>
    BY <1>1, AppendIsConcat
  <1>5. env' # None
    BY DEF None
  <1>6. delivered' = (sent' \o batch') \o <<env'>>
    BY <1>3, <1>4
  <1>7. Conservation'
    BY <1>5, <1>6 DEF Conservation, None
  <1>. QED
    BY <1>1, <1>7

(* An element behind the second of two lists is behind both. *)
LEMMA AppendToSecond ==
    ASSUME NEW a \in Seq(Nat), NEW b \in Seq(Nat), NEW n \in Nat
    PROVE  a \o Append(b, n) = Append(a \o b, n)
  <1>. DEFINE l == a \o Append(b, n)
              m == Append(a \o b, n)
  <1>1. l \in Seq(Nat) /\ m \in Seq(Nat) /\ Len(l) = Len(m)
    OBVIOUS
  <1>2. ASSUME NEW i \in 1 .. Len(l)
        PROVE  l[i] = m[i]
    OBVIOUS
  <1>. QED
    BY <1>1, <1>2, SeqEqual

(* The handler takes it over to the end of the batch. *)
LEMMA Handed ==
    ASSUME Values, env \in Nat, Conservation,
           batch' = Append(batch, env), env' = None, delivered' = delivered, sent' = sent
    PROVE  /\ batch' \in Seq(Nat) /\ Len(batch') = Len(batch) + 1
           /\ Conservation'
  <1>1. sent \in Seq(Nat) /\ batch \in Seq(Nat) /\ <<env>> \in Seq(Nat)
    BY DEF Values
  <1>2. batch' \in Seq(Nat) /\ Len(batch') = Len(batch) + 1
    BY <1>1
  <1>3. delivered = (sent \o batch) \o <<env>>
    <2>1. env # None
      BY DEF None
    <2>. QED
      BY <2>1 DEF Conservation
  <1>4. sent \o batch \in Seq(Nat)
    BY <1>1
  <1>5. Append(sent \o batch, env) = (sent \o batch) \o <<env>>
    BY <1>4, AppendIsConcat
  <1>6. delivered = sent \o batch'
    BY <1>1, <1>3, <1>5, AppendToSecond
  <1>7. sent \o batch' \in Seq(Nat)
    BY <1>1, <1>2
  <1>8. (sent \o batch') \o <<>> = sent \o batch'
    BY <1>7, ConcatEmptySeq
  <1>9. Conservation'
    BY <1>6, <1>8 DEF Conservation, None
  <1>. QED
    BY <1>2, <1>9

(* Every step of a stream preserves its invariant. *)
LEMMA StreamStep ==
    ASSUME BatchSize \in Nat \ {0}, StreamInv, [StreamNext]_streamVars
    PROVE  StreamInv'
  <1>. USE DEF StreamInv, Values, HandInv, BatchInv
  <1>1. CASE SetEnvelope
    BY <1>1 DEF SetEnvelope, Diode!Put, handlerVars, timerVars,
                Conservation, None
  <1>2. CASE Cancel \/ ReaderWait \/ ReaderWake \/ ReaderExit
    BY <1>2 DEF Cancel, ReaderWait, ReaderWake, ReaderExit,
                diodeVars, handlerVars, timerVars,
                Conservation, None
  <1>3. CASE ReaderGet
    <2>1. PICK s \in next .. written - 1 : Diode!Get(s) /\ env' = s
      BY <1>3 DEF ReaderGet
    <2>2. s \in Nat /\ s >= next
      OBVIOUS
    <2>3. /\ delivered' = Append(delivered, s)
          /\ lost' = lost + (s - next)
          /\ next' = s + 1
          /\ written' = written
      BY <2>1 DEF Diode!Get
    <2>4. /\ rpc = "next" /\ rpc' = "send"
          /\ UNCHANGED <<hpc, then, timer, batch, sent, failed>>
      BY <1>3 DEF ReaderGet, handlerVars, timerVars
    <2>5. delivered' \in Seq(Nat) /\ Conservation'
      BY <2>1, <2>2, <2>3, <2>4, Taken
    <2>6. lost' \in Nat /\ next' \in Nat
      BY <2>2, <2>3
    <2>7. Values'
      BY <2>1, <2>2, <2>3, <2>4, <2>5, <2>6
    <2>8. HandInv' /\ BatchInv'
      BY <2>1, <2>2, <2>4
    <2>. QED
      BY <2>5, <2>7, <2>8
  <1>4. CASE Start \/ ReturnOnDone \/ ReturnOnError
    BY <1>4 DEF Start, ReturnOnDone, ReturnOnError, Return,
                diodeVars, timerVars, Conservation, None
  <1>5. CASE TimerFires \/ TimerFlush \/ StopTimer \/ ResetTimer
    BY <1>5 DEF TimerFires, TimerFlush, StopTimer, ResetTimer,
                diodeVars, timerVars, Conservation, None
  <1>6. CASE Receive
    <2>1. /\ hpc = "select" /\ rpc = "send" /\ rpc' = "next"
          /\ env' = None
          /\ batch' = Append(batch, env)
          /\ then' = "stop"
          /\ \/ Len(batch') < BatchSize /\ hpc' = "stop"
             \/ hpc' = "send"
          /\ UNCHANGED <<written, next, delivered, lost, timer, sent, failed>>
      BY <1>6 DEF Receive, diodeVars
    <2>2. /\ batch' \in Seq(Nat) /\ Len(batch') = Len(batch) + 1
          /\ Conservation'
      BY <2>1, Handed
    <2>3. Len(batch) \in Nat
      OBVIOUS
    <2>4. Values'
      BY <2>1, <2>2 DEF None
    <2>5. HandInv' /\ BatchInv'
      BY <2>1, <2>2, <2>3 DEF None
    <2>. QED
      BY <2>2, <2>4, <2>5
  <1>7. CASE SendErr
    BY <1>7 DEF SendErr, diodeVars, timerVars, Conservation,
                None
  <1>8. CASE SendOk \/ Report
    <2>1. /\ sent' = sent \o batch
          /\ batch' = <<>>
          /\ hpc' = then
          /\ UNCHANGED <<written, next, delivered, lost, rpc, env, then, timer>>
          /\ failed' = failed \/ failed' = failed + Len(batch)
      BY <1>8 DEF SendOk, Report, diodeVars, timerVars
    <2>2. /\ sent' \in Seq(Nat) /\ batch' \in Seq(Nat) /\ Len(batch') = 0
          /\ Conservation'
      BY <2>1, Passed
    <2>3. failed' \in Nat
      BY <2>1
    <2>4. Values'
      BY <2>1, <2>2, <2>3 DEF None
    <2>5. HandInv' /\ BatchInv'
      BY <2>1, <2>2 DEF None
    <2>. QED
      BY <2>2, <2>4, <2>5
  <1>9. CASE UNCHANGED streamVars
    BY <1>9 DEF streamVars, diodeVars, handlerVars, timerVars,
                Conservation, None
  <1>. QED
    BY <1>1, <1>2, <1>3, <1>4, <1>5, <1>6, <1>7, <1>8, <1>9
       DEF StreamNext, Reader, Send

(* What the two theorems below rest on. *)
LEMMA StreamInvHolds == StreamSpec => [](StreamInv /\ Flags)
  <1>1. BatchSize \in Nat \ {0}
    BY EgressStreamAssumption
  <1>2. StreamInit => StreamInv
    BY <1>1 DEF StreamInit, Diode!Init, StreamInv, Values, HandInv, BatchInv,
                Conservation, None
  <1>3. StreamInit => Flags
    BY Zenon DEF StreamInit, Flags
  <1>4. StreamInv /\ [StreamNext]_streamVars => StreamInv'
    BY <1>1, StreamStep
  <1>. QED
    BY <1>2, <1>3, <1>4, FlagsStep, PTL DEF StreamSpec

(* For every buffer and batch size, a stream keeps its types, and a batch      *)
(* never outgrows the batch size.                                              *)
THEOREM TypeOKHolds == StreamSpec => []TypeOK
  <1>1. StreamInv /\ Flags => TypeOK
    BY DEF StreamInv, Values, BatchInv, Flags, TypeOK, None
  <1>. QED
    BY <1>1, StreamInvHolds, PTL

(* For every buffer and batch size, any timing and any failures, nothing is    *)
(* lost, doubled or reordered between a stream's diode and Send.               *)
THEOREM ConservationHolds == StreamSpec => []Conservation
  <1>1. StreamInv => Conservation
    BY DEF StreamInv
  <1>. QED
    BY <1>1, StreamInvHolds, PTL

(* A stream uses its diode as a lossy queue may be used: what is promised of   *)
(* the queue, which the diode implements, holds in the stream.                 *)
THEOREM ImplementsDiode == StreamSpec => Diode!Spec
  <1>1. StreamInit => Diode!Init
    BY DEF StreamInit
  <1>2. [StreamNext]_streamVars => [Diode!Next]_Diode!vars
    BY Zenon DEF StreamNext, streamVars, diodeVars, handlerVars,
     timerVars, SetEnvelope, Cancel, Reader, ReaderGet, ReaderWait, ReaderWake, ReaderExit,
     Start, ReturnOnDone, ReturnOnError, Return, TimerFires, TimerFlush, Receive,
     Send, SendOk, SendErr, Report, StopTimer, ResetTimer, Diode!Next, Diode!vars
  <1>. QED
    BY <1>1, <1>2, PTL DEF StreamSpec, Diode!Spec

(* What a lossy queue has delivered: a subsequence of what was written before  *)
(* next, in order, and the rest of that is lost.                               *)
QueueInv ==
    /\ next <= written
    /\ Len(delivered) + lost = next
    /\ \A i \in 1 .. Len(delivered) : delivered[i] < next
    /\ \A i, j \in 1 .. Len(delivered) : i < j => delivered[i] < delivered[j]

(* Every step of the queue preserves it. *)
LEMMA QueueStep ==
    ASSUME Values, QueueInv, [Diode!Next]_Diode!vars
    PROVE  QueueInv'
  <1>1. CASE Diode!Put
    BY <1>1 DEF Diode!Put, Values, QueueInv
  <1>2. ASSUME NEW s \in next .. written - 1, Diode!Get(s)
        PROVE  QueueInv'
    <2>1. /\ delivered \in Seq(Nat) /\ next \in Nat /\ written \in Nat /\ lost \in Nat
          /\ s \in Nat /\ next <= s /\ s < written
      BY DEF Values
    <2>2. /\ delivered' = Append(delivered, s) /\ lost' = lost + (s - next)
          /\ next' = s + 1 /\ written' = written
      BY <1>2 DEF Diode!Get
    <2>3. /\ Len(delivered) \in Nat /\ Len(delivered') = Len(delivered) + 1
          /\ \A i \in 1 .. Len(delivered) : delivered'[i] = delivered[i] /\ delivered[i] \in Nat
          /\ delivered'[Len(delivered) + 1] = s
      BY <2>1, <2>2
    <2>4. /\ Len(delivered) + lost = next
          /\ \A i \in 1 .. Len(delivered) : delivered[i] < next
          /\ \A i, j \in 1 .. Len(delivered) : i < j => delivered[i] < delivered[j]
      BY DEF QueueInv
    <2>5. next' <= written' /\ Len(delivered') + lost' = next'
      BY <2>1, <2>2, <2>3, <2>4
    <2>6. \A i \in 1 .. Len(delivered) : delivered'[i] < s
      BY <2>1, <2>3, <2>4
    <2>7. \A i \in 1 .. Len(delivered') : delivered'[i] < next'
      BY <2>1, <2>2, <2>3, <2>6
    <2>8. ASSUME NEW i \in 1 .. Len(delivered'), NEW j \in 1 .. Len(delivered'), i < j
          PROVE  delivered'[i] < delivered'[j]
      <3>1. i \in 1 .. Len(delivered)
        BY <2>3, <2>8
      <3>2. CASE j \in 1 .. Len(delivered)
        BY <2>3, <2>4, <2>8, <3>1, <3>2
      <3>3. CASE j = Len(delivered) + 1
        BY <2>3, <2>6, <3>1, <3>3
      <3>. QED
        BY <2>3, <3>2, <3>3
    <2>. QED
      BY <2>5, <2>7, <2>8 DEF QueueInv
  <1>3. CASE UNCHANGED Diode!vars
    BY <1>3 DEF Diode!vars, QueueInv
  <1>. QED
    BY <1>1, <1>2, <1>3 DEF Diode!Next

(* From the PubSub to Send: what was passed to Send is in the order in which it *)
(* was published and without repetition; and of the envelopes published up to   *)
(* the last one that the reader goroutine took, each was passed to Send, is in  *)
(* the batch or in that goroutine's hand, or was reported as dropped.           *)
EndToEnd ==
    /\ \A i, j \in 1 .. Len(sent) : i < j => sent[i] < sent[j]
    /\ next = Len(sent) + Len(batch) + (IF env = None THEN 0 ELSE 1) + lost
    /\ next <= written

(* For every buffer and batch size, any timing and any failures, a stream gets *)
(* its envelopes in order and once, and each one it does not get is counted.   *)
THEOREM EndToEndHolds == StreamSpec => []EndToEnd
  <1>1. StreamInit => QueueInv
    BY DEF StreamInit, Diode!Init, QueueInv
  <1>2. StreamInv /\ QueueInv /\ [Diode!Next]_Diode!vars => QueueInv'
    BY QueueStep DEF StreamInv
  <1>3. ASSUME StreamInv, QueueInv
        PROVE  EndToEnd
    <2>. DEFINE hand == IF env = None THEN <<>> ELSE <<env>>
                sb == sent \o batch
    <2>1. /\ sent \in Seq(Nat) /\ batch \in Seq(Nat) /\ env \in Nat \cup {None}
          /\ lost \in Nat
      BY <1>3 DEF StreamInv, Values
    <2>2. hand \in Seq(Nat) /\ Len(hand) = IF env = None THEN 0 ELSE 1
      BY <2>1 DEF None
    <2>3. delivered = sb \o hand
      BY <1>3 DEF StreamInv, Conservation
    <2>. HIDE DEF hand
    <2>4. /\ sb \in Seq(Nat) /\ Len(sb) = Len(sent) + Len(batch)
          /\ \A i \in 1 .. Len(sent) : sb[i] = sent[i]
      BY <2>1
    <2>. HIDE DEF sb
    <2>5. /\ Len(delivered) = Len(sb) + Len(hand)
          /\ \A i \in 1 .. Len(sb) : delivered[i] = sb[i]
      <3>1. hand \in Seq(Nat) /\ sb \in Seq(Nat)
        BY <2>2, <2>4
      <3>. QED
        BY <2>3, <3>1
    <2>6. Len(sent) \in Nat /\ Len(batch) \in Nat /\ Len(hand) \in Nat
      BY <2>1, <2>2
    <2>7. \A i \in 1 .. Len(sent) : i \in 1 .. Len(delivered) /\ delivered[i] = sent[i]
      BY <2>4, <2>5, <2>6
    <2>8. \A i, j \in 1 .. Len(sent) : i < j => sent[i] < sent[j]
      BY <1>3, <2>7 DEF QueueInv
    <2>9. next = Len(sent) + Len(batch) + (IF env = None THEN 0 ELSE 1) + lost
      <3>1. next = Len(sent) + Len(batch) + Len(hand) + lost
        BY <1>3, <2>1, <2>4, <2>5, <2>6 DEF QueueInv
      <3>. QED
        BY <2>2, <3>1
    <2>. QED
      BY <1>3, <2>8, <2>9 DEF EndToEnd, QueueInv
  <1>. QED
    BY <1>1, <1>2, <1>3, StreamInvHolds, ImplementsDiode, PTL DEF StreamSpec, Diode!Spec

(* The handler takes the timer's value at most once for each time it sets the  *)
(* timer, and sets it again before it takes an envelope.                       *)
TimerInv ==
    /\ hpc \in {"select", "stop"} => timer # "received"
    /\ hpc \in {"send", "report"} /\ then = "stop" => timer # "received"

(* The value of the timer that the handler stops was not received: Stop        *)
(* returns true, and the code does not wait for a value that will never come.  *)
StopNeverBlocks == hpc = "stop" => timer # "received"

(* For every order of envelopes, flushes and timer events, the handler never   *)
(* waits in vain behind its Stop of the timer.                                 *)
THEOREM StopNeverBlocksHolds == StreamSpec => []StopNeverBlocks
  <1>1. StreamInit => TimerInv
    BY DEF StreamInit, TimerInv
  <1>2. StreamInv /\ TimerInv /\ [StreamNext]_streamVars => TimerInv'
    BY DEF StreamInv, Values, TimerInv, StreamNext, streamVars, diodeVars, handlerVars, timerVars,
       SetEnvelope, Cancel, Reader, ReaderGet, ReaderWait, ReaderWake, ReaderExit,
       Start, ReturnOnDone, ReturnOnError, Return, TimerFires, TimerFlush, Receive,
       Send, SendOk, SendErr, Report, StopTimer, ResetTimer
  <1>3. TimerInv => StopNeverBlocks
    BY DEF TimerInv, StopNeverBlocks
  <1>. QED
    BY <1>1, <1>2, <1>3, StreamInvHolds, PTL DEF StreamSpec
=============================================================================
