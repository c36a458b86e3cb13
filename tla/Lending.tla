------------------------------- MODULE Lending -------------------------------
(***************************************************************************)
(* What the users of a pool rely on: an item is lent to one holder at a    *)
(* time.  The pool of database clients and CodecFactory promise it.        *)
(***************************************************************************)

CONSTANTS
  Holders,  \* who may hold an item
  Items,    \* what the pool may lend, made in advance or on demand
  Nothing   \* what a holder without an item holds

VARIABLE held  \* held[h]: the item holder h works with

Init == held = [h \in Holders |-> Nothing]

\* A holder gets an item that nobody has.
Lend(h) ==
  /\ held[h] = Nothing
  /\ \E x \in Items :
       /\ \A g \in Holders : held[g] # x
       /\ held' = [held EXCEPT ![h] = x]

\* One holder gives its item back, or all do when the process ends.
Return(S) == held' = [h \in Holders |-> IF h \in S THEN Nothing ELSE held[h]]

Next == \/ \E h \in Holders : Lend(h) \/ Return({h})
        \/ Return(Holders)

Spec == Init /\ [][Next]_held
=============================================================================
