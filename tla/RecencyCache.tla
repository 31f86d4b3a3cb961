----------------------------- MODULE RecencyCache -----------------------------
(***************************************************************************)
(* What a cache by recency promises, without a list or a map: a lookup     *)
(* finds a key exactly when fewer than MaxSize keys were used after it,    *)
(* with the value pushed last.  A push and a lookup that finds its key are *)
(* uses of it.  Nothing is ever forgotten here.                            *)
(***************************************************************************)
EXTENDS Naturals, FiniteSets

CONSTANTS Key, Val, MaxSize, MISS

VARIABLES
  last,   \* the value pushed last for each key, MISS if there was none
  newer,  \* <<j, k>>: the last use of j is later than that of k
  answer  \* of the last lookup

vars == <<last, newer, answer>>

Init == last = [k \in Key |-> MISS] /\ newer = {} /\ answer = MISS

Seen == { k \in Key : last[k] # MISS }

Cached == { k \in Seen : Cardinality({ j \in Key : <<j, k>> \in newer }) < MaxSize }

Use(k) ==
  newer' = { p \in newer : p[2] # k } \cup { <<k, j>> : j \in Seen \ {k} }

Push(k, v) ==
  /\ last' = [last EXCEPT ![k] = v]
  /\ Use(k)
  /\ UNCHANGED answer

Get(k) ==
  \/ k \in Cached /\ answer' = last[k] /\ Use(k) /\ UNCHANGED last
  \/ k \notin Cached /\ answer' = MISS /\ UNCHANGED <<last, newer>>

Next == \E k \in Key : Get(k) \/ \E v \in Val : Push(k, v)

Spec == Init /\ [][Next]_vars
=============================================================================
