---------------------------- MODULE Selections -----------------------------
(***************************************************************************)
(* Filtering and sorting, as Array.prototype.filter and sort do: operators *)
(* on the set of indices that pass and on the order of what is sorted, so  *)
(* that a lemma about them holds for every test and every comparison.      *)
(***************************************************************************)
EXTENDS Integers, Sequences, Folds

\* The elements of S in order, Ahead[x] being those that come before x.
InOrder(S, Ahead) ==
  MapThenFoldSet(LAMBDA first, rest : <<first>> \o rest, <<>>, LAMBDA x : x,
                 LAMBDA T : CHOOSE x \in T : Ahead[x] \cap T = {}, S)

Increasing(S) == InOrder(S, [x \in S |-> {y \in S : y < x}])

\* The elements of a sequence at the indices I.
Where(s, I) ==
  LET at == Increasing(I)
  IN [k \in DOMAIN at |-> s[at[k]]]

\* By descending key, key[i] being that of s[i]; stable.
SortByDesc(s, key) ==
  LET D == DOMAIN s
      order == InOrder(D, [j \in D |-> {i \in D : \/ key[i] > key[j]
                                                  \/ key[i] = key[j] /\ i < j}])
  IN [k \in D |-> s[order[k]]]

=============================================================================
