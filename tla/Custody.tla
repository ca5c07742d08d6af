------------------------------- MODULE Custody -------------------------------
(***************************************************************************)
(* What filing promises of the files in its care (jobs/nas.py:15-20,       *)
(* README.md:35-37), whatever its steps are: an item enters the library    *)
(* whole, at a free place; its staging file goes only when the library     *)
(* holds it; and within the library files only move, to free places.       *)
(***************************************************************************)

CONSTANTS
    Items,      \* recordings and sidecars, each identified by its bytes
    Places,     \* paths of the library
    Nothing     \* what a free place holds; not an item

VARIABLES
    waiting,    \* the items that are in staging
    shelf       \* the item whose bytes each place of the library holds

custodyVars == <<waiting, shelf>>

TypeOK ==
    /\ waiting \subseteq Items
    /\ shelf \in [Places -> Items \cup {Nothing}]

Free(p) == shelf[p] = Nothing

Init ==
    /\ waiting = Items
    /\ shelf = [p \in Places |-> Nothing]

Store(i, p) ==
    /\ i \in waiting
    /\ Free(p)
    /\ shelf' = [shelf EXCEPT ![p] = i]
    /\ UNCHANGED waiting

Release(i) ==
    /\ \E p \in Places : shelf[p] = i
    /\ waiting' = waiting \ {i}
    /\ UNCHANGED shelf

Move(p, q) ==
    /\ Free(q)
    /\ shelf' = [shelf EXCEPT ![q] = shelf[p], ![p] = Nothing]
    /\ UNCHANGED waiting

Next ==
    \/ \E i \in Items : Release(i) \/ \E p \in Places : Store(i, p)
    \/ \E p, q \in Places : Move(p, q)

Spec == Init /\ [][Next]_custodyVars

-----------------------------------------------------------------------------
(* The bytes of every item are in staging or in the library.               *)
NothingLost ==
    \A i \in Items : i \in waiting \/ \E p \in Places : shelf[p] = i

(* A file that leaves a place of the library is at another one.            *)
NothingOverwritten ==
    [][\A p \in Places : ~Free(p) /\ shelf'[p] # shelf[p] =>
          \E q \in Places : shelf'[q] = shelf[p]]_custodyVars

=============================================================================
