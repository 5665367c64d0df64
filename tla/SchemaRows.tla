----------------------------- MODULE SchemaRows ------------------------------
(***************************************************************************)
(* The rows of CompoundSchema and IndexSchema, which GenerateDs reads.     *)
(***************************************************************************)
EXTENDS Naturals, Sequences

(* A row: the form of the class, the attributes and the children that      *)
(* buildAttributes and buildChildren know, in the order of exportChildren, *)
(* the attributes that are int()s, those that exportAttributes writes      *)
(* without asking whether they are set.                                    *)
Row(form, attrs, kids) ==
    [form |-> form, attrs |-> attrs, kids |-> kids, ints |-> {}, unguarded |-> {}]

Children(attrs, kids) == Row("children", attrs, kids)   (* elements only          *)
Mixed(attrs, kids) == Row("mixed", attrs, kids)         (* elements between text  *)
Textual(attrs) == Row("textual", attrs, << >>)          (* text, kept twice       *)
Valued(attrs) == Row("valued", attrs, << >>)            (* text                   *)
WithInts(ints, row) == [row EXCEPT !.ints = ints]
Unguarded(unguarded, row) == [row EXCEPT !.unguarded = unguarded]

(* What becomes of a child element: an object of a class, the last of the  *)
(* name or each of them, its text, or an item of the mixed content.        *)
Kid(tag, how, cls) == [tag |-> tag, how |-> how, cls |-> cls]
One(tag, cls) == Kid(tag, "one", cls)
Many(tag, cls) == Kid(tag, "many", cls)
Str(tag) == Kid(tag, "str", "")
Strs(tag) == Kid(tag, "strs", "")
Complex(tag, cls) == Kid(tag, "complex", cls)
Simple(tag) == Kid(tag, "simple", "")
==============================================================================
