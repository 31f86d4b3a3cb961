------------------------------ MODULE KeyVault ------------------------------
(***************************************************************************)
(* What the programs of a node may count on for their keys, without files, *)
(* tables, locks and transactions: a vault that keeps one pair for each    *)
(* module, the first one that is put into it.                              *)
(*                                                                         *)
(* A program either fetches the pair that is kept, all of it at once, or   *)
(* draws a new one, whether a pair is kept or not.  At most one program is *)
(* told that its pair is kept, and of that pair the public half may be     *)
(* missing.  Then nobody of the module fetches anything ever again.        *)
(***************************************************************************)
EXTENDS Naturals

CONSTANTS
  RouterProc, PeerProc,  \* programs of the bus and of the peer
  NONE

VARIABLES
  kept,     \* the pair of each module
  using,    \* the pair each program uses
  assured,  \* the programs told that theirs is kept
  known,    \* the public key of the bus, as each program looked it up
  drawn     \* pairs drawn so far, each different

vars == <<kept, using, assured, known, drawn>>

Proc == RouterProc \cup PeerProc
Module == {"ipcrout", "peerxxx"}
ModuleOf(p) == IF p \in RouterProc THEN "ipcrout" ELSE "peerxxx"

Pairing(pub, prv) == [h \in {"pub", "prv"} |-> IF h = "pub" THEN pub ELSE prv]
NoPair == Pairing(NONE, NONE)

Init ==
  /\ kept = [m \in Module |-> NoPair] /\ using = [p \in Proc |-> NoPair]
  /\ assured = {} /\ known = [p \in Proc |-> NONE] /\ drawn = 0

-----------------------------------------------------------------------------

Draw(p) ==
  /\ using[p] = NoPair
  /\ drawn' = drawn + 1
  /\ using' = [using EXCEPT ![p] = Pairing(drawn + 1, drawn + 1)]
  /\ UNCHANGED <<kept, assured, known>>

Fetch(p) ==
  LET pair == kept[ModuleOf(p)]
  IN /\ using[p] = NoPair
     /\ pair.pub # NONE /\ pair.prv = pair.pub
     /\ using' = [using EXCEPT ![p] = pair]
     /\ UNCHANGED <<kept, assured, known, drawn>>

\* Only into an empty place, and always with the private half.
Keep(p) ==
  LET key == using[p].prv
  IN /\ kept[ModuleOf(p)] = NoPair /\ key # NONE
     /\ \E pub \in {key, NONE} :
          kept' = [kept EXCEPT ![ModuleOf(p)] = Pairing(pub, key)]
     /\ assured' = assured \cup {p}
     /\ UNCHANGED <<using, known, drawn>>

LookUp(p) ==
  /\ kept["ipcrout"].pub # NONE
  /\ known' = [known EXCEPT ![p] = kept["ipcrout"].pub]
  /\ UNCHANGED <<kept, using, assured, drawn>>

\* The vault outlives the programs.
End(p) ==
  /\ using' = [using EXCEPT ![p] = NoPair]
  /\ assured' = assured \ {p}
  /\ known' = [known EXCEPT ![p] = NONE]
  /\ UNCHANGED <<kept, drawn>>

Next == \E p \in Proc : Draw(p) \/ Fetch(p) \/ Keep(p) \/ LookUp(p) \/ End(p)

Spec == Init /\ [][Next]_vars
=============================================================================
