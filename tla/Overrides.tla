------------------------------ MODULE Overrides ------------------------------
(***************************************************************************)
(* apply_overrides (app/services/simulation.py): a problem is dumped to a  *)
(* document, a patch is merged into it, and the result validated again.    *)
(* Scenarios, sensitivity searches and the structuring workflow use it.    *)
(*                                                                         *)
(* A document is null, an object with fields, or a value of some other     *)
(* kind, which merging does not look into.                                 *)
(***************************************************************************)
EXTENDS Integers, SequencesExt

Null == [kind |-> "null"]
Value(kind, x) == [kind |-> kind, value |-> x]
Object(fields) == [kind |-> "object", fields |-> fields]
NoFields == <<>>

(* The fields of f, and those of g that f has not.                         *)
Over(f, g) == [k \in DOMAIN f \cup DOMAIN g |-> IF k \in DOMAIN f THEN f[k] ELSE g[k]]

FieldsOf(doc) == IF doc.kind = "object" THEN doc.fields ELSE NoFields

Missing == [kind |-> "missing"]
Has(doc, key) == key \in DOMAIN FieldsOf(doc)
Get(doc, key) == IF Has(doc, key) THEN doc.fields[key] ELSE Missing

-----------------------------------------------------------------------------
(* Mutant: an object in the patch replaces what is there.                  *)
ShallowMerge(base, patch) ==
    LET keys == {k \in DOMAIN FieldsOf(patch) : patch.fields[k] # Null}
        gone == DOMAIN FieldsOf(patch)
    IN  IF patch.kind # "object" THEN patch
        ELSE Object([k \in (DOMAIN FieldsOf(base) \ gone) \cup keys |->
                         IF k \in keys THEN patch.fields[k] ELSE base.fields[k]])

(* _deep_merge: null removes a key, objects are merged into objects, and   *)
(* everything else is replaced, by an object too as it stands.  `inner` is *)
(* what the recursive calls return, for the keys that are objects in both. *)
Both(base, patch) ==
    {k \in DOMAIN FieldsOf(base) \cap DOMAIN FieldsOf(patch) :
        base.fields[k].kind = "object" /\ patch.fields[k].kind = "object"}

Merged(base, patch, inner) ==
    LET old == FieldsOf(base)
        new == FieldsOf(patch)
        gone == {k \in DOMAIN new : new[k] = Null}
        into(k) == IF k \in DOMAIN inner THEN inner[k] ELSE IF k \in DOMAIN new THEN new[k] ELSE old[k]
    IN  IF patch.kind # "object" THEN patch
        ELSE Object([k \in (DOMAIN old \cup DOMAIN new) \ gone |-> into(k)])

(* The calls go as deep as the objects of the base: a problem has its data,*)
(* these the preferences, and these have numbers.                          *)
DeepMerge(base, patch) ==
    LET values(b, d) == Merged(b, d, NoFields)
        data(b, d) == Merged(b, d, [k \in Both(b, d) |-> values(b.fields[k], d.fields[k])])
    IN  Merged(base, patch, [k \in Both(base, patch) |-> data(base.fields[k], patch.fields[k])])

(* _set_path: the patch that sets one value under a path of keys.          *)
SetPath(path, x) == FoldRight(LAMBDA key, inner : Object(key :> inner), path, x)

-----------------------------------------------------------------------------
(* RFC 7386 without its recursion on two documents: what a document has at *)
(* each place along a path of keys, and what a merged one has at its end.  *)

Trail(doc, path) ==
    LET docs[i \in 0..Len(path)] == IF i = 0 THEN doc ELSE Get(docs[i - 1], path[i])
    IN  docs

At(doc, path) == Trail(doc, path)[Len(path)]

(* The first thing along the path that is no object of the patch, which is *)
(* one itself, decides: a key it has not leaves what was there, null       *)
(* removes it, a value replaces it.                                        *)
Expected(base, patch, path) ==
    LET patched == Trail(patch, path)
        leaves == {i \in 0..Len(path) : patched[i].kind # "object"}
        i == CHOOSE i \in leaves : \A j \in leaves : i <= j
    IN  IF leaves = {} THEN Object(NoFields)
        ELSE IF ~Has(patched[i - 1], path[i]) THEN At(base, path)
        ELSE IF patched[i] = Null \/ i < Len(path) THEN Missing
        ELSE patched[i]

(* The paths of up to four keys: to the values of a patch that replaces a  *)
(* number of the preferences by an object.                                 *)
Paths(doc) ==
    LET longer(paths) == UNION {{Append(path, k) : k \in DOMAIN FieldsOf(At(doc, path))} : path \in paths}
        one == longer({<<>>})
        two == longer(one)
        three == longer(two)
    IN  {<<>>} \cup one \cup two \cup three \cup longer(three)

(* Where an object replaces what is no object, RFC 7386 drops the nulls in *)
(* it, and the code keeps them: one of them is on the path.                *)
KeepsNull(base, patch, path) ==
    \E i \in DOMAIN path : Trail(patch, path)[i] = Null /\ Trail(base, path)[i - 1].kind # "object"

(* Two objects agree if what they have at every path does.                 *)
IsMergePatch(base, patch, merged) ==
    \A path \in Paths(base) \cup Paths(patch) \cup Paths(merged) :
        LET found == At(merged, path)
            expected == Expected(base, patch, path)
        IN  \/ KeepsNull(base, patch, path)
            \/ /\ found.kind = expected.kind
               /\ found.kind # "object" => found = expected

(* The calls of DeepMerge go deep enough.                                  *)
ThreeDeep(doc) ==
    \A k \in DOMAIN FieldsOf(doc) : \A l \in DOMAIN FieldsOf(doc.fields[k]) :
        \A value \in Range(FieldsOf(doc.fields[k].fields[l])) : value.kind # "object"
=============================================================================
