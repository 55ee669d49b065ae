---------------------------- MODULE ConfigMerge ----------------------------
(***************************************************************************)
(* Recipes as trees, and what an override does to one (core/config.py,     *)
(* core/yaml_utils.py).                                                    *)
(*                                                                         *)
(* A tree of nested mappings is a function from the paths of its leaves to *)
(* their values; a path is the sequence of the keys that lead to a leaf.   *)
(* A value is a scalar, a list or None (YAML's null).  A mapping without   *)
(* leaves is not distinguished from an absent one.                         *)
(***************************************************************************)
EXTENDS Naturals, Sequences, FiniteSets

CONSTANT None  \* YAML's null

Under(p, q) == Len(p) <= Len(q) /\ SubSeq(q, 1, Len(p)) = p
Meets(p, q) == Under(p, q) \/ Under(q, p)
Parent(p) == SubSeq(p, 1, Len(p) - 1)

\* isinstance(tree[...path], dict)
IsMapping(tree, path) == \E q \in DOMAIN tree : q # path /\ Under(path, q)

\* What the override leaves alone: no key of it is above or below.
Kept(base, over) == {p \in DOMAIN base : \A q \in DOMAIN over : ~Meets(p, q)}

\* What it sets.  null deletes a key of a mapping that both have; in a mapping that
\* only the override has, it is copied like any other value.
SetBy(base, over) ==
    {q \in DOMAIN over : over[q] # None \/ ~IsMapping(base, Parent(q))}

\* deep_merge, and comment_aware_merge, which differ in the order of the keys.
Merge(base, over) ==
    [p \in Kept(base, over) \cup SetBy(base, over) |->
        IF p \in SetBy(base, over) THEN over[p] ELSE base[p]]

NamePath == <<"name">>

\* config.get("name", "unnamed"): a name is the sequence of its parts, joined by "_".
NameOf(config) == IF NamePath \in DOMAIN config THEN config[NamePath] ELSE <<"unnamed">>

WithName(config, name) ==
    [p \in DOMAIN config \cup {NamePath} |-> IF p = NamePath THEN name ELSE config[p]]

-----------------------------------------------------------------------------
(* zip_override_*: every list of the section holds one value per variant.  *)
(* A leaf of a section is [list, items]; a scalar has one item.            *)

ListLengths(section) == {Len(section[p].items) : p \in {q \in DOMAIN section : section[q].list}}

\* _determine_zip_length: 0 where it raises ValueError.
ZipLength(section) ==
    LET dims == ListLengths(section) \ {1}
    IN  IF ListLengths(section) = {} \/ 0 \in dims \/ Cardinality(dims) > 1 THEN 0
        ELSE IF dims = {} THEN 1 ELSE CHOOSE n \in dims : TRUE

\* _apply_zip_slice for the variant i, counted from 0; a list of one is broadcast.
Slice(section, i) ==
    [p \in DOMAIN section |->
        IF Len(section[p].items) = 1 THEN section[p].items[1] ELSE section[p].items[i + 1]]
=============================================================================
