------------------------------- MODULE LruCache -------------------------------
(***************************************************************************)
(* LRU_Cache<Tkey, Tval> (core/5thdlru_cache.h): a list of entries, the    *)
(* one used last in front, and a map from keys to their places in it.      *)
(*                                                                         *)
(* A call holds _mutex from beginning to end, so it is one action whatever *)
(* threads there are.  The nodes of the list are allocated and freed: a    *)
(* place the map keeps too long may be another entry's by then.            *)
(***************************************************************************)
EXTENDS Naturals, Sequences, FiniteSets

CONSTANTS
  Key, Val, MaxSize,
  Node,  \* memory for the nodes of the list
  NULL,  \* no entry in the map
  MISS   \* get returned false

\* With a size of 0 push would step before the begin of an empty list.
ASSUME LruAssumption ==
  /\ MaxSize \in Nat \ {0}
  /\ IsFiniteSet(Key)
  /\ NULL \notin Node /\ MISS \notin Val

VARIABLES
  list,    \* _cache_items_list
  item,    \* what is in each node
  map,     \* _cache_items_map
  answer,  \* of the last get
  last, newer  \* history: every value pushed last, the order of all uses

vars == <<list, item, map, answer, last, newer>>

Recency == INSTANCE RecencyCache

Item == [key : Key, val : Val]

TypeOK ==
  /\ list \in Seq(Node) /\ Len(list) <= MaxSize
  /\ item \in [Node -> Item]
  /\ map \in [Key -> Node \cup {NULL}]
  /\ answer \in Val \cup {MISS} /\ last \in [Key -> Val \cup {MISS}]
  /\ newer \subseteq Key \X Key

Init ==
  /\ list = <<>> /\ (\E x \in Item : item = [n \in Node |-> x]) /\ map = [k \in Key |-> NULL]
  /\ Recency!Init

-----------------------------------------------------------------------------

Keys(m) == { k \in Key : m[k] # NULL }

Nodes(l) == { l[i] : i \in DOMAIN l }

\* std::list::erase; splicing a node to the front is erasing and putting it
\* there.
Place(l, n) == CHOOSE i \in DOMAIN l : l[i] = n
Erased(l, n) ==
  SubSeq(l, 1, Place(l, n) - 1) \o SubSeq(l, Place(l, n) + 1, Len(l))

\* Mutant of PutInFront: the entry of a known key is not set again.
PutInFrontOnce(l, m, k, v) ==
  \E n \in Node \ Nodes(l) :
    /\ list' = <<n>> \o l
    /\ item' = [item EXCEPT ![n] = [key |-> k, val |-> v]]
    /\ map' = IF m[k] = NULL THEN [m EXCEPT ![k] = n] ELSE m

\* push_front and the assignment to the entry of the map.
PutInFront(l, m, k, v) ==
  \E n \in Node \ Nodes(l) :
    /\ list' = <<n>> \o l
    /\ item' = [item EXCEPT ![n] = [key |-> k, val |-> v]]
    /\ map' = [m EXCEPT ![k] = n]

\* Mutant of Oldest: the entry in front is taken.
OldestFirst(l) == l[1]

Oldest(l) == l[Len(l)]

IsFull == Cardinality(Keys(map)) >= MaxSize

Push(k, v) ==
  /\ \/ map[k] # NULL /\ PutInFront(Erased(list, map[k]), map, k, v)
     \/ map[k] = NULL /\ ~IsFull /\ PutInFront(list, map, k, v)
     \/ /\ map[k] = NULL /\ IsFull
        /\ PutInFront(Erased(list, Oldest(list)),
                      [map EXCEPT ![item[Oldest(list)].key] = NULL], k, v)
  /\ last' = [last EXCEPT ![k] = v] /\ Recency!Use(k)
  /\ UNCHANGED answer

Spliced(n) == list' = <<n>> \o Erased(list, n)

Get(k) ==
  \/ /\ map[k] # NULL
     /\ Spliced(map[k])
     /\ answer' = item[map[k]].val
     /\ Recency!Use(k)
     /\ UNCHANGED <<item, map, last>>
  \/ /\ map[k] = NULL
     /\ answer' = MISS
     /\ UNCHANGED <<list, item, map, last, newer>>

Next == \E k \in Key : Get(k) \/ \E v \in Val : Push(k, v)

Spec == Init /\ [][Next]_vars

-----------------------------------------------------------------------------
(* Properties *)

\* The map has exactly the keys in the list, each with the place of its own
\* entry (5thdlru_cache.h:26, 30, 37): no erase or splice ever works on a
\* node that was freed or that holds another key.
MapMatchesList ==
  /\ \A i, j \in DOMAIN list : list[i] = list[j] => i = j
  /\ \A i \in DOMAIN list : map[item[list[i]].key] = list[i]
  /\ \A k \in Keys(map) : map[k] \in Nodes(list) /\ item[map[k]].key = k

\* Every answer of get is that of a cache which remembers all uses and looks
\* at the order of the last ones: what an eviction (5thdlru_cache.h:33)
\* throws away is the key that was not used for the longest time.
ImplementsRecency == Recency!Spec
=============================================================================
