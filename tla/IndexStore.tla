----------------------------- MODULE IndexStore -----------------------------
(***************************************************************************)
(* What the indexing core promises of its table of blocks, without workers,*)
(* fetches or epochs: blocks are added one at a time, a rewind deletes     *)
(* everything above a fork point, and every height a rewind deletes stays  *)
(* in a durable debt that is written off only when all of it is back.      *)
(***************************************************************************)
EXTENDS Integers

CONSTANTS Heights, Hashes, NoRow

VARIABLES
  rows,   \* the hash stored at each height, or NoRow
  debt    \* the heights recovery still answers for

Present == {h \in Heights : rows[h] # NoRow}

Init == rows = [h \in Heights |-> NoRow] /\ debt = {}

Insert == \E h \in Heights, x \in Hashes :
  rows' = [rows EXCEPT ![h] = x] /\ debt' = debt

Rewind == \E fork \in Heights, D \in SUBSET Heights :
  /\ rows' = [h \in Heights |-> IF fork < h THEN NoRow ELSE rows[h]]
  /\ debt \cup {h \in Present : fork < h} \subseteq D
  /\ debt' = D

WriteOff == debt \subseteq Present /\ debt' = {} /\ rows' = rows

Next == Insert \/ Rewind \/ WriteOff
Spec == Init /\ [][Next]_<<rows, debt>>
=============================================================================
