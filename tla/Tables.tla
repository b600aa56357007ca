------------------------------- MODULE Tables -------------------------------
(* Partial functions as the std::unordered_maps of the code: what erase and    *)
(* insert_or_assign do to them, and the rank of an entry of a sequence.  TLC's *)
(* @@ is not used because the provers cannot expand it.                        *)
EXTENDS Functions, Sequences, FiniteSets

Empty == [x \in {} |-> x]
Drop(f, S) == Restrict(f, DOMAIN f \ S)
Put(f, g) == [x \in DOMAIN f \cup DOMAIN g |-> IF x \in DOMAIN g THEN g[x] ELSE f[x]]

(* Index of the first occurrence of a in s. *)
FirstAt(s, a) == CHOOSE i \in DOMAIN s : s[i] = a /\ \A j \in DOMAIN s : s[j] = a => i <= j

(* How many members of S come before a in s. *)
Rank(s, S, a) == Cardinality({b \in S : FirstAt(s, b) < FirstAt(s, a)})
=============================================================================
