-------------------------- MODULE LruCacheTheorems --------------------------
(***************************************************************************)
(* Proofs about LruCache, with every operation of its interface and for    *)
(* every set of keys, values and nodes: the list and the hash agree, and   *)
(* no call leaves more than m_cacheSize entries.                           *)
(*                                                                         *)
(* ListMatchesHash is made inductive by the types and by the fact that the *)
(* nodes of the list hold keys: otherwise the hash could be looked up with *)
(* what a freed node holds.  A list is used through two facts only, that   *)
(* no node is in it twice and which nodes are.                             *)
(***************************************************************************)
EXTENDS LruCache, TLAPS, FiniteSetTheorems

Distinct(s) == \A i, j \in DOMAIN s : s[i] = s[j] => i = j

Hashes(nodes, keys, hash) ==
    /\ \A n \in nodes : keys[n] \in Key /\ hash[keys[n]] = n
    /\ \A k \in Key : hash[k] # None => hash[k] \in nodes /\ keys[hash[k]] = k

Agree(s, keys, hash) ==
    /\ s \in Seq(Node)
    /\ keys \in [Node -> Key \cup {None}]
    /\ hash \in [Key -> Node \cup {None}]
    /\ Distinct(s)
    /\ Hashes(Nodes(s), keys, hash)

CacheInv == Agree(m_cacheItems, keyOf, m_cacheHash)

-----------------------------------------------------------------------------
(* A function on 1..n is a sequence of length n. *)
LEMMA IsSequence ==
    ASSUME NEW S, NEW n \in Nat, NEW f \in [1..n -> S]
    PROVE  f \in Seq(S) /\ Len(f) = n /\ DOMAIN f = 1..n
  OBVIOUS

(* The iterator of a node of the list. *)
LEMMA PositionOfNode ==
    ASSUME NEW n \in Nodes(m_cacheItems)
    PROVE  /\ Position(n) \in DOMAIN m_cacheItems
           /\ m_cacheItems[Position(n)] = n
<1>1. \E i \in DOMAIN m_cacheItems : m_cacheItems[i] = n
  BY DEF Nodes
<1> QED
  BY <1>1 DEF Position

(* list::erase removes its node and no other. *)
LEMMA WithoutNode ==
    ASSUME m_cacheItems \in Seq(Node), Distinct(m_cacheItems),
           NEW n \in Nodes(m_cacheItems)
    PROVE  /\ Without(n) \in Seq(Node)
           /\ Distinct(Without(n))
           /\ Nodes(Without(n)) = Nodes(m_cacheItems) \ {n}
<1> DEFINE p == Position(n)
           s == m_cacheItems
           w == Without(n)
<1>1. p \in 1..Len(s) /\ s[p] = n /\ DOMAIN s = 1..Len(s) /\ Len(s) \in Nat
  BY PositionOfNode
<1>2. w = [i \in 1..(Len(s) - 1) |-> IF i < p THEN s[i] ELSE s[i + 1]]
  BY DEF Without
<1> HIDE DEF p, w
<1>3. w \in [1..(Len(s) - 1) -> Node]
  BY <1>1, <1>2
<1>4. w \in Seq(Node) /\ DOMAIN w = 1..(Len(s) - 1)
  BY <1>1, <1>3, IsSequence
<1>5. Distinct(w)
  <2> SUFFICES ASSUME NEW i \in 1..(Len(s) - 1), NEW j \in 1..(Len(s) - 1), w[i] = w[j]
               PROVE  i = j
    BY <1>4 DEF Distinct
  <2> DEFINE at(l) == IF l < p THEN l ELSE l + 1
  <2>1. w[i] = s[at(i)] /\ w[j] = s[at(j)] /\ at(i) \in DOMAIN s /\ at(j) \in DOMAIN s
    BY <1>1, <1>2
  <2>2. at(i) = at(j)
    BY <2>1 DEF Distinct
  <2> QED
    BY <1>1, <2>2
<1>6. ASSUME NEW x \in Nodes(w) PROVE x \in Nodes(s) \ {n}
  <2>1. PICK i \in 1..(Len(s) - 1) : x = w[i]
    BY <1>4 DEF Nodes
  <2>2. CASE i < p
    BY <1>1, <1>2, <2>1, <2>2 DEF Nodes, Distinct
  <2>3. CASE ~(i < p)
    BY <1>1, <1>2, <2>1, <2>3 DEF Nodes, Distinct
  <2> QED
    BY <2>2, <2>3
<1>7. ASSUME NEW x \in Nodes(s) \ {n} PROVE x \in Nodes(w)
  <2>1. PICK i \in 1..Len(s) : x = s[i]
    BY <1>1 DEF Nodes
  <2>2. CASE i < p
    <3>1. i \in 1..(Len(s) - 1) /\ w[i] = x
      BY <1>1, <1>2, <2>1, <2>2
    <3> QED
      BY <1>4, <3>1 DEF Nodes
  <2>3. CASE i > p
    <3>1. i - 1 \in 1..(Len(s) - 1) /\ w[i - 1] = x
      BY <1>1, <1>2, <2>1, <2>3
    <3> QED
      BY <1>4, <3>1 DEF Nodes
  <2> QED
    BY <1>1, <2>1, <2>2, <2>3
<1> QED
  BY <1>4, <1>5, <1>6, <1>7 DEF w

(* list::splice moves a node to the front and changes nothing else. *)
LEMMA NodeToFront ==
    ASSUME m_cacheItems \in Seq(Node), Distinct(m_cacheItems),
           NEW n \in Nodes(m_cacheItems)
    PROVE  /\ ToFront(n) \in Seq(Node)
           /\ Distinct(ToFront(n))
           /\ Nodes(ToFront(n)) = Nodes(m_cacheItems)
<1> DEFINE p == Position(n)
           s == m_cacheItems
           w == ToFront(n)
<1>1. p \in 1..Len(s) /\ s[p] = n /\ DOMAIN s = 1..Len(s) /\ Len(s) \in Nat
  BY PositionOfNode
<1>2. w = [i \in 1..Len(s) |-> IF i = 1 THEN n
                               ELSE IF i <= p THEN s[i - 1] ELSE s[i]]
  BY <1>1 DEF ToFront
<1> HIDE DEF p, w
<1>3. w \in [1..Len(s) -> Node]
  BY <1>1, <1>2
<1>4. w \in Seq(Node) /\ DOMAIN w = 1..Len(s)
  BY <1>1, <1>3, IsSequence
<1> DEFINE at(l) == IF l = 1 THEN p ELSE IF l <= p THEN l - 1 ELSE l
<1>a. \A l \in 1..Len(s) : at(l) \in 1..Len(s) /\ w[l] = s[at(l)]
  BY <1>1, <1>2
<1>b. \A i, j \in 1..Len(s) : at(i) = at(j) => i = j
  BY <1>1
<1> HIDE DEF at
<1>5. Distinct(w)
  BY <1>1, <1>4, <1>a, <1>b DEF Distinct
<1>6. ASSUME NEW x \in Nodes(w) PROVE x \in Nodes(s)
  BY <1>1, <1>4, <1>a DEF Nodes
<1>7. ASSUME NEW x \in Nodes(s) PROVE x \in Nodes(w)
  <2>1. PICK i \in 1..Len(s) : x = s[i]
    BY <1>1 DEF Nodes
  <2>2. CASE i = p
    <3>1. 1 \in 1..Len(s) /\ w[1] = x
      BY <1>1, <1>2, <2>1, <2>2
    <3> QED
      BY <1>4, <3>1 DEF Nodes
  <2>3. CASE i < p
    <3>1. i + 1 \in 1..Len(s) /\ w[i + 1] = x
      BY <1>1, <1>2, <2>1, <2>3
    <3> QED
      BY <1>4, <3>1 DEF Nodes
  <2>4. CASE i > p
    <3>1. w[i] = x
      BY <1>1, <1>2, <2>1, <2>4
    <3> QED
      BY <1>4, <2>1, <3>1 DEF Nodes
  <2> QED
    BY <1>1, <2>1, <2>2, <2>3, <2>4
<1> QED
  BY <1>4, <1>5, <1>6, <1>7 DEF w

(* list::emplace_front adds a node that is not in the list. *)
LEMMA PushedNode ==
    ASSUME NEW s \in Seq(Node), Distinct(s), NEW n \in Node \ Nodes(s)
    PROVE  /\ Pushed(n, s) \in Seq(Node)
           /\ Distinct(Pushed(n, s))
           /\ Nodes(Pushed(n, s)) = Nodes(s) \cup {n}
<1> DEFINE w == Pushed(n, s)
<1>1. DOMAIN s = 1..Len(s) /\ Len(s) \in Nat
  OBVIOUS
<1>2. w = [i \in 1..(Len(s) + 1) |-> IF i = 1 THEN n ELSE s[i - 1]]
  BY DEF Pushed
<1> HIDE DEF w
<1>3. w \in [1..(Len(s) + 1) -> Node]
  BY <1>1, <1>2
<1>4. w \in Seq(Node) /\ DOMAIN w = 1..(Len(s) + 1)
  BY <1>1, <1>3, IsSequence
<1>5. Distinct(w)
  BY <1>1, <1>2, <1>4 DEF Distinct, Nodes
<1>6. ASSUME NEW x \in Nodes(w) PROVE x \in Nodes(s) \cup {n}
  <2>1. PICK i \in 1..(Len(s) + 1) : x = w[i]
    BY <1>4 DEF Nodes
  <2> QED
    BY <1>1, <1>2, <2>1 DEF Nodes
<1>7. ASSUME NEW x \in Nodes(s) PROVE x \in Nodes(w)
  <2>1. PICK i \in 1..Len(s) : x = s[i]
    BY <1>1 DEF Nodes
  <2>2. i + 1 \in 1..(Len(s) + 1) /\ w[i + 1] = x
    BY <1>1, <1>2, <2>1
  <2> QED
    BY <1>4, <2>2 DEF Nodes
<1>8. n \in Nodes(w)
  BY <1>1, <1>2, <1>4 DEF Nodes
<1> QED
  BY <1>4, <1>5, <1>6, <1>7, <1>8 DEF w

-----------------------------------------------------------------------------
(***************************************************************************)
(* cleanCache: cutting the list's end off and erasing the keys of what is  *)
(* cut off keeps them in agreement.                                        *)
(***************************************************************************)
LEMMA CutAgrees ==
    ASSUME NEW s, NEW keys, NEW values, NEW hash, NEW m \in 0..Len(s),
           Agree(s, keys, hash), Cut(s, m, keys, values, hash)
    PROVE  CacheInv'
<1> DEFINE w == [i \in 1..m |-> s[i]]
           gone == Removed(s, m, keys)
<1>1. /\ s \in Seq(Node) /\ Distinct(s) /\ Hashes(Nodes(s), keys, hash)
      /\ keys \in [Node -> Key \cup {None}] /\ hash \in [Key -> Node \cup {None}]
      /\ DOMAIN s = 1..Len(s) /\ Len(s) \in Nat /\ m \in Nat /\ m <= Len(s)
  BY DEF Agree
<1>2. /\ m_cacheItems' = w
      /\ keyOf' = [n \in Node |-> IF n \in Nodes(w) THEN keys[n] ELSE None]
      /\ m_cacheHash' = [k \in Key |-> IF k \in gone THEN None ELSE hash[k]]
  BY DEF Cut, Held
<1>3. w \in [1..m -> Node] /\ \A i \in 1..m : w[i] = s[i] /\ i \in DOMAIN s
  BY <1>1
<1> HIDE DEF w, gone
<1>4. w \in Seq(Node) /\ DOMAIN w = 1..m
  BY <1>1, <1>3, IsSequence
<1>5. Distinct(w)
  BY <1>1, <1>3, <1>4 DEF Distinct
<1>6. Nodes(w) \subseteq Nodes(s) /\ Nodes(w) \subseteq Node
  BY <1>1, <1>3, <1>4 DEF Nodes
<1>7. ASSUME NEW n \in Nodes(w)
      PROVE  keyOf'[n] \in Key /\ m_cacheHash'[keyOf'[n]] = n
  <2>1. keyOf'[n] = keys[n] /\ keys[n] \in Key /\ hash[keys[n]] = n
    BY <1>1, <1>2, <1>6 DEF Hashes
  <2>2. PICK i \in 1..m : n = s[i]
    BY <1>3, <1>4 DEF Nodes
  <2>3. ASSUME keys[n] \in gone PROVE FALSE
    <3>1. PICK j \in (m + 1)..Len(s) : keys[n] = keys[s[j]]
      BY <2>3 DEF gone, Removed
    <3>2. j \in DOMAIN s /\ s[j] \in Nodes(s)
      BY <1>1 DEF Nodes
    <3>3. s[j] = s[i]
      BY <1>1, <2>1, <2>2, <3>1, <3>2 DEF Hashes
    <3> QED
      BY <1>1, <1>3, <2>2, <3>2, <3>3 DEF Distinct
  <2> QED
    BY <1>2, <2>1, <2>3
<1>8. ASSUME NEW k \in Key, m_cacheHash'[k] # None
      PROVE  m_cacheHash'[k] \in Nodes(w) /\ keyOf'[m_cacheHash'[k]] = k
  <2>1. k \notin gone /\ m_cacheHash'[k] = hash[k] /\ hash[k] # None
    BY <1>2, <1>8
  <2>2. hash[k] \in Nodes(s) /\ keys[hash[k]] = k
    BY <1>1, <2>1 DEF Hashes
  <2>3. PICK i \in 1..Len(s) : s[i] = hash[k]
    BY <1>1, <2>2 DEF Nodes
  <2>4. i \in 1..m
    <3>1. SUFFICES ASSUME i \notin 1..m PROVE FALSE
      OBVIOUS
    <3>2. i \in (m + 1)..Len(s)
      BY <1>1, <2>3, <3>1
    <3> QED
      BY <2>1, <2>2, <2>3, <3>2 DEF gone, Removed
  <2>5. hash[k] \in Nodes(w)
    BY <1>3, <1>4, <2>3, <2>4 DEF Nodes
  <2> QED
    BY <1>2, <1>6, <2>1, <2>2, <2>5
<1>9. Hashes(Nodes(w), keyOf', m_cacheHash')
  BY <1>7, <1>8 DEF Hashes
<1>10. keyOf' \in [Node -> Key \cup {None}] /\ m_cacheHash' \in [Key -> Node \cup {None}]
  BY <1>1, <1>2
<1> QED
  BY <1>2, <1>4, <1>5, <1>9, <1>10 DEF CacheInv, Agree

(* cleanCache leaves no more than size entries in the hash. *)
LEMMA CleanCacheFits ==
    ASSUME NEW s, NEW keys, NEW values, NEW hash, NEW size,
           cleanCache(s, keys, values, hash, size)
    PROVE  Cardinality(Hashed(m_cacheHash')) <= size
<1>1. PICK m \in 0..Len(s) : Fits(s, m, keys, hash, size)
                             /\ Cut(s, m, keys, values, hash)
  BY DEF cleanCache
<1>2. Hashed(m_cacheHash') = Hashed(hash) \ Removed(s, m, keys)
  BY <1>1 DEF Hashed, Cut
<1> QED
  BY <1>1, <1>2 DEF Fits

LEMMA CleanCacheAgrees ==
    ASSUME NEW s, NEW keys, NEW values, NEW hash, NEW size,
           Agree(s, keys, hash), cleanCache(s, keys, values, hash, size)
    PROVE  CacheInv'
<1>1. PICK m \in 0..Len(s) : Cut(s, m, keys, values, hash)
  BY DEF cleanCache
<1> QED
  BY <1>1, CutAgrees

-----------------------------------------------------------------------------
(***************************************************************************)
(* put: the new entry is pushed on a list that has lost the key's old      *)
(* node, if there was one, and the key is hashed to the new node.          *)
(***************************************************************************)
LEMMA PushAgrees ==
    ASSUME CacheInv, NEW k \in Key, NEW items \in Seq(Node), Distinct(items),
           Nodes(items) = Nodes(m_cacheItems) \ {m_cacheHash[k]},
           NEW n \in Node \ Nodes(items)
    PROVE  Agree(Pushed(n, items), [keyOf EXCEPT ![n] = k],
                 [m_cacheHash EXCEPT ![k] = n])
<1> DEFINE w == Pushed(n, items)
           keys == [keyOf EXCEPT ![n] = k]
           hash == [m_cacheHash EXCEPT ![k] = n]
<1>1. w \in Seq(Node) /\ Distinct(w) /\ Nodes(w) = Nodes(items) \cup {n}
  BY PushedNode
<1>2. /\ keyOf \in [Node -> Key \cup {None}]
      /\ m_cacheHash \in [Key -> Node \cup {None}]
      /\ Hashes(Nodes(m_cacheItems), keyOf, m_cacheHash)
      /\ None \notin Node
  BY CacheAssumption DEF CacheInv, Agree
<1>3. keys \in [Node -> Key \cup {None}] /\ hash \in [Key -> Node \cup {None}]
  BY <1>2
<1>4. /\ keys[n] = k /\ hash[k] = n
      /\ \A o \in Node \ {n} : keys[o] = keyOf[o]
      /\ \A l \in Key \ {k} : hash[l] = m_cacheHash[l]
  BY <1>2
<1>5. Nodes(items) \subseteq Node
  BY DEF Nodes
<1> HIDE DEF w, keys, hash
<1>6. ASSUME NEW o \in Nodes(w) PROVE keys[o] \in Key /\ hash[keys[o]] = o
  <2>1. CASE o = n
    BY <1>4, <2>1
  <2>2. CASE o # n
    <3>1. o \in Nodes(items) /\ o \in Nodes(m_cacheItems) /\ o # m_cacheHash[k]
      BY <1>1, <2>2
    <3>2. keyOf[o] \in Key /\ m_cacheHash[keyOf[o]] = o
      BY <1>2, <3>1 DEF Hashes
    <3>3. keys[o] = keyOf[o] /\ keyOf[o] # k
      BY <1>4, <1>5, <2>2, <3>1, <3>2
    <3> QED
      BY <1>4, <3>2, <3>3
  <2> QED
    BY <2>1, <2>2
<1>7. ASSUME NEW l \in Key, hash[l] # None
      PROVE  hash[l] \in Nodes(w) /\ keys[hash[l]] = l
  <2>1. CASE l = k
    BY <1>1, <1>4, <2>1
  <2>2. CASE l # k
    <3>1. hash[l] = m_cacheHash[l]
      BY <1>4, <2>2
    <3>2. hash[l] \in Nodes(m_cacheItems) /\ keyOf[hash[l]] = l
      BY <1>2, <1>7, <3>1 DEF Hashes
    <3>3. hash[l] # m_cacheHash[k]
      <4>1. m_cacheHash[k] # None => keyOf[m_cacheHash[k]] = k
        BY <1>2 DEF Hashes
      <4> QED
        BY <1>7, <2>2, <3>2, <4>1
    <3>4. hash[l] \in Nodes(items) /\ hash[l] # n
      BY <3>2, <3>3
    <3> QED
      BY <1>1, <1>4, <1>5, <3>2, <3>4
  <2> QED
    BY <2>1, <2>2
<1>8. Hashes(Nodes(w), keys, hash)
  BY <1>6, <1>7 DEF Hashes
<1>9. Agree(w, keys, hash)
  BY <1>1, <1>3, <1>8 DEF Agree
<1> QED
  BY <1>9 DEF w, keys, hash

LEMMA PutKeeps ==
    ASSUME CacheInv, NEW k \in Key, NEW v, put(k, v)
    PROVE  CacheInv'
<1> DEFINE items == IF m_cacheHash[k] # None THEN Without(m_cacheHash[k])
                                             ELSE m_cacheItems
<1>1. PICK n \in Node \ Nodes(items) : Insert(n, k, v, items)
  BY DEF put
<1>2. items \in Seq(Node) /\ Distinct(items)
      /\ Nodes(items) = Nodes(m_cacheItems) \ {m_cacheHash[k]}
  <2>1. m_cacheItems \in Seq(Node) /\ Distinct(m_cacheItems)
        /\ Hashes(Nodes(m_cacheItems), keyOf, m_cacheHash)
    BY DEF CacheInv, Agree
  <2>2. CASE m_cacheHash[k] # None
    <3>1. m_cacheHash[k] \in Nodes(m_cacheItems)
      BY <2>1, <2>2 DEF Hashes
    <3> QED
      BY <2>1, <2>2, <3>1, WithoutNode
  <2>3. CASE m_cacheHash[k] = None
    <3>1. None \notin Nodes(m_cacheItems)
      BY <2>1, CacheAssumption DEF Nodes
    <3> QED
      BY <2>1, <2>3, <3>1
  <2> QED
    BY <2>2, <2>3
<1> HIDE DEF items
<1>3. Agree(Pushed(n, items), [keyOf EXCEPT ![n] = k], [m_cacheHash EXCEPT ![k] = n])
  BY <1>2, PushAgrees
<1> QED
  BY <1>1, <1>3, CleanCacheAgrees DEF Insert

(* value and reference: the list is the only thing that changes. *)
LEMMA ValueKeeps ==
    ASSUME CacheInv, NEW k \in Key, value(k)
    PROVE  CacheInv'
<1>1. /\ m_cacheItems \in Seq(Node) /\ Distinct(m_cacheItems)
      /\ Hashes(Nodes(m_cacheItems), keyOf, m_cacheHash)
      /\ keyOf \in [Node -> Key \cup {None}]
      /\ m_cacheHash \in [Key -> Node \cup {None}]
      /\ keyOf' = keyOf /\ m_cacheHash' = m_cacheHash
  BY DEF CacheInv, Agree, value
<1>2. m_cacheItems' \in Seq(Node) /\ Distinct(m_cacheItems')
      /\ Nodes(m_cacheItems') = Nodes(m_cacheItems)
  <2>1. CASE exists(k)
    <3>1. m_cacheHash[k] \in Nodes(m_cacheItems)
      BY <1>1, <2>1 DEF exists, Hashes
    <3>2. m_cacheItems' = ToFront(m_cacheHash[k])
      BY <2>1 DEF value
    <3> QED
      BY <1>1, <3>1, <3>2, NodeToFront
  <2>2. CASE ~exists(k)
    BY <1>1, <2>2 DEF value
  <2> QED
    BY <2>1, <2>2
<1> QED
  BY <1>1, <1>2 DEF CacheInv, Agree

(* erase(it): the node goes from the list and its key from the hash. *)
LEMMA EraseKeeps ==
    ASSUME CacheInv, NEW n \in Node, erase(n)
    PROVE  CacheInv'
<1> DEFINE w == Without(n)
<1>1. /\ m_cacheItems \in Seq(Node) /\ Distinct(m_cacheItems)
      /\ Hashes(Nodes(m_cacheItems), keyOf, m_cacheHash)
      /\ keyOf \in [Node -> Key \cup {None}]
      /\ m_cacheHash \in [Key -> Node \cup {None}]
      /\ n \in Nodes(m_cacheItems)
  BY DEF CacheInv, Agree, erase
<1>2. w \in Seq(Node) /\ Distinct(w) /\ Nodes(w) = Nodes(m_cacheItems) \ {n}
  BY <1>1, WithoutNode
<1> HIDE DEF w
<1>3. /\ m_cacheItems' = w
      /\ keyOf' = [o \in Node |-> IF o \in Nodes(w) THEN keyOf[o] ELSE None]
      /\ m_cacheHash' = [m_cacheHash EXCEPT ![keyOf[n]] = None]
  BY DEF erase, Held, w
<1>4. keyOf[n] \in Key /\ m_cacheHash[keyOf[n]] = n
  BY <1>1 DEF Hashes
<1>5. m_cacheHash'[keyOf[n]] = None
      /\ \A k \in Key \ {keyOf[n]} : m_cacheHash'[k] = m_cacheHash[k]
  BY <1>1, <1>3, <1>4
<1>6. Nodes(w) \subseteq Node
  BY <1>2 DEF Nodes
<1>7. ASSUME NEW o \in Nodes(w)
      PROVE  keyOf'[o] \in Key /\ m_cacheHash'[keyOf'[o]] = o
  <2>1. keyOf'[o] = keyOf[o] /\ keyOf[o] \in Key /\ m_cacheHash[keyOf[o]] = o
    BY <1>1, <1>2, <1>3, <1>6 DEF Hashes
  <2>2. keyOf[o] # keyOf[n]
    BY <1>2, <1>4, <2>1
  <2> QED
    BY <1>5, <2>1, <2>2
<1>8. ASSUME NEW k \in Key, m_cacheHash'[k] # None
      PROVE  m_cacheHash'[k] \in Nodes(w) /\ keyOf'[m_cacheHash'[k]] = k
  <2>1. k # keyOf[n] /\ m_cacheHash'[k] = m_cacheHash[k]
    BY <1>5, <1>8
  <2>2. m_cacheHash[k] \in Nodes(m_cacheItems) /\ keyOf[m_cacheHash[k]] = k
    BY <1>1, <1>8, <2>1 DEF Hashes
  <2>3. m_cacheHash[k] \in Nodes(w)
    BY <1>2, <2>1, <2>2
  <2> QED
    BY <1>3, <1>6, <2>1, <2>2, <2>3
<1>9. Hashes(Nodes(w), keyOf', m_cacheHash')
  BY <1>7, <1>8 DEF Hashes
<1>10. keyOf' \in [Node -> Key \cup {None}] /\ m_cacheHash' \in [Key -> Node \cup {None}]
  BY <1>1, <1>3
<1> QED
  BY <1>2, <1>3, <1>9, <1>10 DEF CacheInv, Agree

(* An empty list and an empty hash agree. *)
LEMMA EmptyAgrees ==
    ASSUME NEW keys \in [Node -> Key \cup {None}]
    PROVE  Agree(<<>>, keys, [k \in Key |-> None])
<1>1. Nodes(<<>>) = {} /\ <<>> \in Seq(Node) /\ Distinct(<<>>)
  BY DEF Nodes, Distinct
<1>2. Hashes({}, keys, [k \in Key |-> None])
  BY DEF Hashes
<1> QED
  BY <1>1, <1>2 DEF Agree

LEMMA ClearKeeps ==
    ASSUME clear PROVE CacheInv'
<1>1. m_cacheItems' = <<>> /\ m_cacheHash' = [k \in Key |-> None]
  BY DEF clear
<1>2. Nodes(<<>>) = {}
  BY DEF Nodes
<1>3. keyOf' = [n \in Node |-> None]
  BY <1>2 DEF clear, Held
<1>4. keyOf' \in [Node -> Key \cup {None}]
  BY <1>3
<1> QED
  BY <1>1, <1>4, EmptyAgrees DEF CacheInv

-----------------------------------------------------------------------------
(***************************************************************************)
(* Whatever sequence of put, value, reference, cacheSize, clear and erase  *)
(* a program makes, LruCache's list and hash agree.  (utils.h:168-252)     *)
(***************************************************************************)
THEOREM CacheInvariant == CacheSpec => []CacheInv
<1>1. CacheInit => CacheInv
  <2> SUFFICES ASSUME CacheInit PROVE CacheInv
    OBVIOUS
  <2>1. keyOf \in [Node -> Key \cup {None}]
    BY DEF CacheInit
  <2> QED
    BY <2>1, EmptyAgrees DEF CacheInit, CacheInv
<1>2. CacheInv /\ [CacheNext]_cacheVars => CacheInv'
  <2> SUFFICES ASSUME CacheInv, [CacheNext]_cacheVars PROVE CacheInv'
    OBVIOUS
  <2>1. ASSUME NEW k \in Key, NEW v \in Value, put(k, v) PROVE CacheInv'
    BY <2>1, PutKeeps
  <2>2. ASSUME NEW k \in Key, value(k) \/ reference(k) PROVE CacheInv'
    BY <2>2, ValueKeeps DEF reference
  <2>3. ASSUME NEW size \in CacheSizes, cacheSize(size) PROVE CacheInv'
    BY <2>3, CleanCacheAgrees DEF CacheInv, cacheSize
  <2>4. CASE clear
    BY <2>4, ClearKeeps
  <2>5. ASSUME NEW n \in Node, erase(n) PROVE CacheInv'
    BY <2>5, EraseKeeps
  <2>6. CASE UNCHANGED cacheVars
    BY <2>6 DEF cacheVars, CacheInv
  <2> QED
    BY <2>1, <2>2, <2>3, <2>4, <2>5, <2>6 DEF CacheNext
<1> QED
  BY <1>1, <1>2, PTL DEF CacheSpec

(***************************************************************************)
(* No iterator in m_cacheHash dangles, no key is in the list twice, and    *)
(* the assertion of size() holds.  (utils.h:168-252)                       *)
(***************************************************************************)
THEOREM ListAlwaysMatchesHash == CacheSpec => []ListMatchesHash
<1>1. CacheInv => ListMatchesHash
  <2> SUFFICES ASSUME CacheInv PROVE ListMatchesHash
    OBVIOUS
  <2>1. Distinct(m_cacheItems) /\ Hashes(Nodes(m_cacheItems), keyOf, m_cacheHash)
    BY DEF CacheInv, Agree
  <2>2. \A i \in DOMAIN m_cacheItems : m_cacheItems[i] \in Nodes(m_cacheItems)
    BY DEF Nodes
  <2> QED
    BY <2>1, <2>2 DEF ListMatchesHash, Distinct, Hashes
<1> QED
  BY <1>1, CacheInvariant, PTL

SizeInv == m_cacheSize \in Nat /\ SizeBounded

(***************************************************************************)
(* Every call returns with at most m_cacheSize entries in the hash, also   *)
(* one that lowers m_cacheSize.  (utils.h:245-252)                         *)
(***************************************************************************)
THEOREM SizeAlwaysBounded == CacheSpec => []SizeBounded
<1>1. CacheInit => SizeInv
  <2> SUFFICES ASSUME CacheInit PROVE SizeInv
    OBVIOUS
  <2>1. m_cacheSize \in Nat /\ Hashed(m_cacheHash) = {}
    BY CacheAssumption DEF CacheInit, Hashed
  <2> QED
    BY <2>1, FS_EmptySet DEF SizeInv, SizeBounded
<1>2. SizeInv /\ [CacheNext]_cacheVars => SizeInv'
  <2> SUFFICES ASSUME SizeInv, [CacheNext]_cacheVars PROVE SizeInv'
    OBVIOUS
  <2>1. ASSUME NEW k \in Key, NEW v \in Value, put(k, v) PROVE SizeInv'
    BY <2>1, CleanCacheFits DEF SizeInv, SizeBounded, put, Insert
  <2>2. ASSUME NEW k \in Key, value(k) \/ reference(k) PROVE SizeInv'
    BY <2>2 DEF SizeInv, SizeBounded, Hashed, value, reference
  <2>3. ASSUME NEW size \in CacheSizes, cacheSize(size) PROVE SizeInv'
    BY <2>3, CleanCacheFits, CacheAssumption DEF SizeInv, SizeBounded, cacheSize
  <2>4. CASE clear
    <3>1. Hashed(m_cacheHash') = {} /\ m_cacheSize' = m_cacheSize
      BY <2>4 DEF clear, Hashed
    <3> QED
      BY <3>1, FS_EmptySet DEF SizeInv, SizeBounded
  <2>5. ASSUME NEW n \in Node, erase(n) PROVE SizeInv'
    <3>1. Hashed(m_cacheHash') \subseteq Hashed(m_cacheHash)
          /\ m_cacheSize' = m_cacheSize
      BY <2>5 DEF erase, Hashed
    <3>2. IsFiniteSet(Hashed(m_cacheHash))
      BY CacheAssumption, FS_Subset DEF Hashed
    <3>3. /\ Cardinality(Hashed(m_cacheHash')) \in Nat
          /\ Cardinality(Hashed(m_cacheHash)) \in Nat
          /\ Cardinality(Hashed(m_cacheHash')) <= Cardinality(Hashed(m_cacheHash))
      BY <3>1, <3>2, FS_Subset, FS_CardinalityType
    <3> QED
      BY <3>1, <3>3 DEF SizeInv, SizeBounded
  <2>6. CASE UNCHANGED cacheVars
    BY <2>6 DEF cacheVars, SizeInv, SizeBounded, Hashed
  <2> QED
    BY <2>1, <2>2, <2>3, <2>4, <2>5, <2>6 DEF CacheNext
<1>3. SizeInv => SizeBounded
  BY DEF SizeInv
<1> QED
  BY <1>1, <1>2, <1>3, PTL DEF CacheSpec
=============================================================================
