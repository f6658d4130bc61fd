------------------------------- MODULE Tables -------------------------------
(***************************************************************************)
(* The program keeps its state in std::collections::HashMap tables keyed   *)
(* by ObjectId.  A table is a function whose domain is the set of keys     *)
(* present.                                                                *)
(***************************************************************************)
EXTENDS Functions

EmptyTable == <<>>

(* insert(k, v): adds the entry, or replaces the one there was.            *)
Insert(f, k, v) == [x \in DOMAIN f \cup {k} |-> IF x = k THEN v ELSE f[x]]

(* remove(k) *)
Remove(f, k) == Restrict(f, DOMAIN f \ {k})

IsTable(f) == f = [x \in DOMAIN f |-> f[x]]

=============================================================================
