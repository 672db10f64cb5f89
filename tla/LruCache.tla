------------------------------ MODULE LruCache ------------------------------
(***************************************************************************)
(* Dracon::LruCache: a list of entries, the most recently used first, and  *)
(* a hash of iterators into it.  An iterator is the address of a list      *)
(* node, which the list frees with the entry and may allocate again.       *)
(***************************************************************************)
EXTENDS Integers, Sequences, FiniteSets

CONSTANTS
    Key, Value,
    Node,          \* addresses of list nodes
    CacheSizes,    \* the sizes the cache is given
    None           \* m_cacheHash.end(), V{}

ASSUME CacheAssumption ==
    /\ IsFiniteSet(Key)
    /\ None \notin Node \cup Value \cup Key
    /\ CacheSizes \subseteq Nat

VARIABLES
    m_cacheItems,     \* the list, as a sequence of nodes
    keyOf, valueOf,   \* what the nodes hold
    m_cacheHash,      \* [Key -> Node], None where there is no entry
    m_cacheSize

cacheVars == <<m_cacheItems, keyOf, valueOf, m_cacheHash, m_cacheSize>>

Position(n) == CHOOSE i \in DOMAIN m_cacheItems : m_cacheItems[i] = n

(* m_cacheItems.erase *)
Without(n) ==
    [i \in 1..(Len(m_cacheItems) - 1) |->
        IF i < Position(n) THEN m_cacheItems[i] ELSE m_cacheItems[i + 1]]

(* m_cacheItems.splice(begin(), ...) *)
ToFront(n) ==
    [i \in DOMAIN m_cacheItems |->
        IF i = 1 THEN n
        ELSE IF i <= Position(n) THEN m_cacheItems[i - 1] ELSE m_cacheItems[i]]

Pushed(n, s) ==
    [i \in 1..(Len(s) + 1) |-> IF i = 1 THEN n ELSE s[i - 1]]

Nodes(s) == {s[i] : i \in DOMAIN s}

(* A node that leaves the list is freed: it holds nothing. *)
Held(contents, s) == [n \in Node |-> IF n \in Nodes(s) THEN contents[n] ELSE None]

(***************************************************************************)
(* cleanCache: remove entries from the end of the list until the hash has  *)
(* no more than m_cacheSize.                                               *)
(***************************************************************************)
Removed(s, m, keys) == {keys[s[i]] : i \in (m + 1)..Len(s)}

Hashed(hash) == {k \in Key : hash[k] # None}

FitsOneMore(s, m, keys, hash, size) ==
    Cardinality(Hashed(hash) \ Removed(s, m, keys)) <= size + 1

Fits(s, m, keys, hash, size) ==
    Cardinality(Hashed(hash) \ Removed(s, m, keys)) <= size

KeepsHashEntry(s, m, keys, values, hash) ==
    /\ m_cacheItems' = [i \in 1..m |-> s[i]]
    /\ keyOf' = Held(keys, m_cacheItems')
    /\ valueOf' = Held(values, m_cacheItems')
    /\ m_cacheHash' = hash

Cut(s, m, keys, values, hash) ==
    /\ m_cacheItems' = [i \in 1..m |-> s[i]]
    /\ keyOf' = Held(keys, m_cacheItems')
    /\ valueOf' = Held(values, m_cacheItems')
    /\ m_cacheHash' = [k \in Key |-> IF k \in Removed(s, m, keys) THEN None
                                                                  ELSE hash[k]]

cleanCache(s, keys, values, hash, size) ==
    \E m \in 0..Len(s) :
        /\ Fits(s, m, keys, hash, size)
        /\ \A l \in (m + 1)..Len(s) : ~Fits(s, l, keys, hash, size)
        /\ Cut(s, m, keys, values, hash)

(***************************************************************************)
(* The operations.  A reference or a value is looked up in the same way.   *)
(***************************************************************************)
Insert(n, k, v, items) ==
    /\ cleanCache(Pushed(n, items), [keyOf EXCEPT ![n] = k],
                  [valueOf EXCEPT ![n] = v], [m_cacheHash EXCEPT ![k] = n],
                  m_cacheSize)
    /\ UNCHANGED m_cacheSize

PutAgain(k, v) ==
    \E n \in Node \ Nodes(m_cacheItems) : Insert(n, k, v, m_cacheItems)

put(k, v) ==
    LET items == IF m_cacheHash[k] # None THEN Without(m_cacheHash[k])
                                          ELSE m_cacheItems
    IN \E n \in Node \ Nodes(items) : Insert(n, k, v, items)

exists(k) == m_cacheHash[k] # None

Found(k) == IF exists(k) THEN valueOf[m_cacheHash[k]] ELSE None

Peek(k) == UNCHANGED cacheVars

value(k) ==
    /\ m_cacheItems' = IF exists(k) THEN ToFront(m_cacheHash[k]) ELSE m_cacheItems
    /\ UNCHANGED <<keyOf, valueOf, m_cacheHash, m_cacheSize>>

reference(k) == exists(k) /\ value(k)

cacheSize(size) ==
    /\ m_cacheSize' = size
    /\ cleanCache(m_cacheItems, keyOf, valueOf, m_cacheHash, size)

clear ==
    /\ m_cacheItems' = <<>>
    /\ m_cacheHash' = [k \in Key |-> None]
    /\ keyOf' = Held(keyOf, <<>>) /\ valueOf' = Held(valueOf, <<>>)
    /\ UNCHANGED m_cacheSize

erase(n) ==
    /\ n \in Nodes(m_cacheItems)
    /\ m_cacheHash' = [m_cacheHash EXCEPT ![keyOf[n]] = None]
    /\ m_cacheItems' = Without(n)
    /\ keyOf' = Held(keyOf, m_cacheItems')
    /\ valueOf' = Held(valueOf, m_cacheItems')
    /\ UNCHANGED m_cacheSize

CacheInit ==
    /\ m_cacheItems = <<>>
    /\ m_cacheHash = [k \in Key |-> None]
    /\ m_cacheSize \in CacheSizes
    /\ keyOf = [n \in Node |-> None] /\ valueOf = [n \in Node |-> None]

CacheNext ==
    \/ \E k \in Key, v \in Value : put(k, v)
    \/ \E k \in Key : value(k) \/ reference(k)
    \/ \E size \in CacheSizes : cacheSize(size)
    \/ clear
    \/ \E n \in Node : erase(n)

CacheSpec == CacheInit /\ [][CacheNext]_cacheVars

-----------------------------------------------------------------------------
(***************************************************************************)
(* The list and the hash agree: every entry of the list is the one its key *)
(* leads to, every hashed key leads into the list, and no node is in it    *)
(* twice, so that no iterator dangles and size()'s assertion holds.        *)
(* (utils.h:168-252)                                                       *)
(***************************************************************************)
ListMatchesHash ==
    /\ \A i, j \in DOMAIN m_cacheItems :
          m_cacheItems[i] = m_cacheItems[j] => i = j
    /\ \A i \in DOMAIN m_cacheItems :
          m_cacheHash[keyOf[m_cacheItems[i]]] = m_cacheItems[i]
    /\ \A k \in Key : m_cacheHash[k] # None =>
          m_cacheHash[k] \in Nodes(m_cacheItems) /\ keyOf[m_cacheHash[k]] = k

(***************************************************************************)
(* Every call leaves at most m_cacheSize entries.  (utils.h:245-252)       *)
(***************************************************************************)
SizeBounded == Cardinality(Hashed(m_cacheHash)) <= m_cacheSize
=============================================================================
