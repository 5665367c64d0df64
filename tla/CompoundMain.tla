----------------------------- MODULE CompoundMain ----------------------------
(***************************************************************************)
(* compoundsuper.py as a program: parse() reads a document into objects    *)
(* and writes them back as XML, parseLiteral() writes them as Python.  Any *)
(* class of the module can be built from an element in this way, not only  *)
(* the one of the root.                                                    *)
(***************************************************************************)
EXTENDS DoxyXml

CONSTANT Documents      (* pairs <<class, element>>                          *)

VARIABLES
    phase,     (* "parse", "write", "written", "literal", "raised" or "idle" *)
    doc,       (* the pair that is read                                      *)
    root,      (* rootObj                                                    *)
    written    (* the element written, or NotWritten                         *)

mainVars == <<phase, doc, root, written>>

NotWritten == [node |-> "none"]

MainIdle ==
    /\ phase = "idle" /\ doc = << >>
    /\ root = Super!None /\ written = NotWritten

MainInit ==
    /\ phase = "parse" /\ doc \in Documents
    /\ root = Super!None /\ written = NotWritten

ParseDocument ==
    /\ phase = "parse"
    /\ IF Super!BuildRaises(doc[1], doc[2])
       THEN phase' = "raised" /\ UNCHANGED root
       ELSE phase' = "write" /\ root' = Super!Build(doc[1], doc[2])
    /\ UNCHANGED <<doc, written>>

WriteXml ==
    /\ phase = "write"
    /\ written' = Super!Export(root, doc[2].tag)
    /\ phase' = "written"
    /\ UNCHANGED <<doc, root>>

WriteLiteral ==
    /\ phase = "write"
    /\ phase' = IF Super!LiteralRaises(root) THEN "raised" ELSE "literal"
    /\ UNCHANGED <<doc, root, written>>

MainNext == ParseDocument \/ WriteXml \/ WriteLiteral

-----------------------------------------------------------------------------
(* What a class keeps of an element, said of the document itself.          *)

Row(cls) == C!Schema[cls]
Texts(kids) == SelectSeq(kids, LAMBDA k : ~IsElement(k))
Tagged(kids, tag) == SelectSeq(kids, LAMBDA k : IsElement(k) /\ k.tag = tag)

LastOnly(s) == IF s = << >> THEN s ELSE <<Last(s)>>

(* Text nodes next to each other are one text node to a reader.            *)
RECURSIVE Merged(_)
Merged(kids) ==
    IF Len(kids) < 2 THEN kids
    ELSE IF kids[1].node = "text" /\ kids[2].node = "text"
         THEN Merged(<<Text(kids[1].words \o kids[2].words)>> \o SubSeq(kids, 3, Len(kids)))
         ELSE <<kids[1]>> \o Merged(Tail(kids))

RECURSIVE Normal(_)
Normal(n) ==
    IF IsElement(n)
    THEN [n EXCEPT !.kids = Merged([i \in DOMAIN n.kids |-> Normal(n.kids[i])])]
    ELSE n

PlainText(n) ==
    Element(n.tag, NoAttrs, Super!NonEmpty(Text, NodeValues(n)))

RECURSIVE Kept(_, _)

KeptKid(k, n) == IF k.cls = "" THEN PlainText(n) ELSE Kept(k.cls, n)

KeptOf(kid, kids) ==
    LET all == [i \in DOMAIN Tagged(kids, kid.tag) |-> KeptKid(kid, Tagged(kids, kid.tag)[i])]
    IN  IF kid.how \in {"many", "strs"} THEN all ELSE LastOnly(all)

(* Elements the class does not know are gone.  Between elements there is   *)
(* no text and the order is that of the schema; mixed content keeps its    *)
(* order and its text, but not its CDATA sections.                         *)
Kept(cls, n) ==
    LET row == Row(cls)
        known == {k.tag : k \in Range(row.kids)}
        KidOf(tag) == CHOOSE k \in Range(row.kids) : k.tag = tag
        attrs == [a \in (Range(row.attrs) \cap DOMAIN n.attrs) \cup row.unguarded |->
                     IF a \in DOMAIN n.attrs THEN n.attrs[a] ELSE "None"]
        mixed == SelectSeq(n.kids, LAMBDA k : \/ k.node = "text"
                                              \/ IsElement(k) /\ k.tag \in known)
        kids == CASE row.form = "children" ->
                        FlattenSeq([i \in DOMAIN row.kids |-> KeptOf(row.kids[i], n.kids)])
                  [] row.form = "mixed" ->
                        [i \in DOMAIN mixed |-> IF mixed[i].node = "text" THEN mixed[i]
                                                ELSE KeptKid(KidOf(mixed[i].tag), mixed[i])]
                  [] OTHER -> Texts(n.kids)
    IN  Element(n.tag, attrs, kids)

(* The documents whose export says something else: the title of a          *)
(* compounddef is written as the name of an object, and a CDATA section    *)
(* with markup is quoted once more.                                        *)
RECURSIVE Altered(_)
Altered(n) ==
    \/ n.node = "cdata" /\ Range(n.words) \cap Super!Sensitive # {}
    \/ /\ IsElement(n)
       /\ \/ n.tag = "compounddef" /\ Tagged(n.kids, "title") # << >>
          \/ doc[1] = "compounddefType" /\ n = doc[2] /\ Tagged(n.kids, "title") # << >>
          \/ \E i \in DOMAIN n.kids : Altered(n.kids[i])

(* What parse() writes is, to a reader, what the classes keep of the       *)
(* document: nothing is duplicated, renamed or moved between parents, no   *)
(* text is lost from an element the schema knows, and in mixed content     *)
(* nothing changes places (build, buildChildren and exportChildren of the  *)
(* classes of compoundsuper.py).                                           *)
ExportKeepsTheKnown ==
    phase = "written" /\ ~Altered(doc[2])
        => Normal(Super!Reread(written)) = Normal(Kept(doc[1], doc[2]))

(* Text with markup among the items of mixed content, where it is written  *)
(* as it is.                                                               *)
RECURSIVE MarkupInMixed(_)
MarkupInMixed(obj) ==
    \/ \E i \in DOMAIN obj.content_ :
          LET c == obj.content_[i]
          IN  IF c.category = "complex" THEN MarkupInMixed(c.value)
              ELSE /\ Row(obj.cls).form = "mixed"
                   /\ Range(c.value) \cap Super!Sensitive # {}
    \/ \E k \in Range(Row(obj.cls).kids) :
          CASE k.tag \notin DOMAIN obj.kids -> FALSE
            [] k.how = "one" -> MarkupInMixed(obj.kids[k.tag])
            [] k.how = "many" -> \E i \in DOMAIN obj.kids[k.tag] : MarkupInMixed(obj.kids[k.tag][i])
            [] OTHER -> FALSE

(* The file written is XML again, whatever the text of strings, paragraphs *)
(* and CDATA sections: only the text of mixed content, which is written    *)
(* without quote_xml, can spoil it (exportChildren and MixedContainer).    *)
WellFormedUnlessMixed ==
    phase = "written" => (Super!Malformed(written) <=> MarkupInMixed(root))
=============================================================================
