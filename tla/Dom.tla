--------------------------------- MODULE Dom ---------------------------------
(***************************************************************************)
(* The trees that minidom makes of a file, and that export writes.  A text *)
(* is a sequence of words.                                                 *)
(***************************************************************************)
EXTENDS Naturals, Sequences, SequencesExt

Element(tag, attrs, kids) ==
    [node |-> "element", tag |-> tag, attrs |-> attrs, kids |-> kids]
Text(words) == [node |-> "text", words |-> words]
Cdata(words) == [node |-> "cdata", words |-> words]

IsElement(n) == n.node = "element"
NoAttrs == [a \in {} |-> ""]

(* nodeValue, which an element does not have                               *)
NodeValues(n) == FlattenSeq([i \in DOMAIN n.kids |-> n.kids[i].words])

(* A file that expat cannot parse.                                         *)
Broken == [node |-> "broken"]
==============================================================================
