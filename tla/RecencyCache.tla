---------------------------- MODULE RecencyCache ----------------------------
(***************************************************************************)
(* What a least recently used cache promises: at most `limit` entries, the *)
(* most recently stored or looked up ones first, and the least recently    *)
(* used one going first.  A user looks a key up, may store it, and lets go *)
(* of it; looking it up is a step, so it cannot fail to count as a use.    *)
(***************************************************************************)
EXTENDS Integers, Sequences

CONSTANTS Key, Value, NoKey

VARIABLES
    entries, limit,
    used     \* the key that is being used, or NoKey

Entry(k, v) == [key |-> k, value |-> v]

Others(k) == SelectSeq(entries, LAMBDA e : e.key # k)

Shortened(s, n) == SubSeq(s, 1, IF Len(s) < n THEN Len(s) ELSE n)

Init == entries = <<>> /\ limit \in Nat /\ used = NoKey

LookUp == \E k \in Key :
    /\ used = NoKey /\ used' = k
    /\ entries' = SelectSeq(entries, LAMBDA e : e.key = k) \o Others(k)
    /\ UNCHANGED limit

Store == \E v \in Value :
    /\ used # NoKey
    /\ entries' = Shortened(<<Entry(used, v)>> \o Others(used), limit)
    /\ UNCHANGED <<limit, used>>

LetGo == used # NoKey /\ used' = NoKey /\ UNCHANGED <<entries, limit>>

Remove == \E S \in SUBSET DOMAIN entries :
    /\ used = NoKey
    /\ entries' = SelectSeq(entries, LAMBDA e : \E i \in S : e = entries[i])
    /\ UNCHANGED <<limit, used>>

Resize ==
    /\ used = NoKey
    /\ limit' \in Nat /\ entries' = Shortened(entries, limit')
    /\ UNCHANGED used

Next == LookUp \/ Store \/ LetGo \/ Remove \/ Resize

Spec == Init /\ [][Next]_<<entries, limit, used>>
=============================================================================
