----------------------------- MODULE GenerateDs ------------------------------
(***************************************************************************)
(* What generateDS.py makes of one class of a schema: the methods that the *)
(* ninety classes of compoundsuper.py and indexsuper.py repeat, written    *)
(* once and driven by the rows of Schema.  The lines the map names are     *)
(* those of one class with the respective branch; the other classes differ *)
(* in nothing but what their row says.                                     *)
(*                                                                         *)
(* Indentation and line ends, which export adds between elements, are left *)
(* out.                                                                    *)
(***************************************************************************)
EXTENDS Dom, TLC

CONSTANTS
    Schema,     (* class name -> row, see CompoundSchema and IndexSchema     *)
    Extended,   (* classes whose `subclass` is set, so that factory() makes  *)
                (* an instance of that subclass                              *)
    OwnKids     (* class name -> what its subclass's buildChildren adds      *)

-----------------------------------------------------------------------------
(* Classes and objects.                                                    *)

(* The class that factory() instantiates: a row and what its subclass adds. *)
Subclassed(cls, row) ==
    [cls |-> cls, form |-> row.form, attrs |-> row.attrs, kids |-> row.kids,
     sub |-> cls \in Extended,
     own |-> IF cls \in DOMAIN OwnKids THEN OwnKids[cls] ELSE << >>]
Class(cls) == Subclassed(cls, Schema[cls])

Kids(class) == Range(class.kids \o class.own)
KidFor(class, tag) == {k \in Kids(class) : k.tag = tag}

None == [cls |-> "NoneType"]

(* What a new object has: lists, and an empty string where the constructor *)
(* of a subclass in compound.py or index.py says so.  A child that is None *)
(* is not in the domain of kids.  content_ is the mixed content, own what  *)
(* docParaTypeSub calls content.                                           *)
HasDefault(class, kid) ==
    \/ kid.how \in {"many", "strs"}
    \/ kid.how \in {"str", "titled"} /\ class.sub

New(class) ==
    [cls |-> class.cls, attrs |-> NoAttrs,
     kids |-> [t \in {k.tag : k \in {u \in Kids(class) : HasDefault(class, u)}} |-> << >>],
     valueOf_ |-> << >>, content_ |-> << >>, own |-> << >>]

HasValue(class) == class.form \in {"valued", "textual"}
HasContent(class) == class.form \in {"mixed", "textual"}
HasOwn(class) == class.own # << >>

Container(category, tag, value) == [category |-> category, name |-> tag, value |-> value]

(* buildAttributes: the attributes the class knows.                        *)
Attributes(class, n) ==
    [a \in Range(class.attrs) \cap DOMAIN n.attrs |-> n.attrs[a]]

TextAdded(class, obj, words) ==
    LET c == Container("text", "", words)
    IN  [obj EXCEPT
            !.content_ = IF HasContent(class) THEN Append(@, c) ELSE @,
            !.valueOf_ = IF HasValue(class) THEN @ \o words ELSE @,
            !.own = IF HasOwn(class) THEN Append(@, c) ELSE @]

CdataLost(class, obj, words) == obj
CdataAdded(class, obj, words) ==
    IF HasValue(class)
    THEN [obj EXCEPT !.valueOf_ = @ \o <<"![CDATA[">> \o words \o <<"]]">>]
    ELSE obj

(* One branch of buildChildren: what an element becomes, when it is a      *)
(* string and when it was made an object.                                  *)
WithKid(obj, kid, v) == [obj EXCEPT !.kids = (kid.tag :> v) @@ @]
WithOneMore(obj, kid, v) == [obj EXCEPT !.kids[kid.tag] = Append(@, v)]

StringAdded(obj, kid, words) ==
    CASE kid.how = "str" -> WithKid(obj, kid, words)
      [] kid.how = "strs" -> WithOneMore(obj, kid, words)
      [] kid.how = "simple" ->
             [obj EXCEPT !.content_ = Append(@, Container("simple", kid.tag, words))]

ObjectAdded(obj, kid, made) ==
    CASE kid.how \in {"one", "titled"} -> WithKid(obj, kid, made)
      [] kid.how = "many" -> WithOneMore(obj, kid, made)
      [] kid.how = "complex" ->
             [obj EXCEPT !.content_ = Append(@, Container("complex", kid.tag, made))]
      [] kid.how = "own" -> [obj EXCEPT !.own = Append(@, Container("complex", kid.tag, made))]

RECURSIVE Build(_, _)

ElementAdded(obj, kid, child) ==
    IF kid.cls = "" THEN StringAdded(obj, kid, NodeValues(child))
    ELSE ObjectAdded(obj, kid, Build(kid.cls, child))

(* buildChildren: an element the class does not know leaves no trace.      *)
ChildAdded(class, obj, child) ==
    CASE child.node = "text" -> TextAdded(class, obj, child.words)
      [] child.node = "cdata" -> CdataAdded(class, obj, child.words)
      [] KidFor(class, child.tag) = {} -> obj
      [] OTHER -> ElementAdded(obj, CHOOSE k \in KidFor(class, child.tag) : TRUE, child)

(* factory() and build()                                                   *)
Built(class, n) ==
    FoldLeft(LAMBDA obj, child : ChildAdded(class, obj, child),
             [New(class) EXCEPT !.attrs = Attributes(class, n)], n.kids)
Build(cls, n) == Built(Class(cls), n)

(* Where build() raises: a number that is none (ValueError), an element    *)
(* inside of what is read as a string, whose nodeValue is None (TypeError).*)
IsNumber(v) == v # "NaN"

RECURSIVE BuildRaises(_, _)
BuildRaises(cls, n) ==
    \/ \E a \in Schema[cls].ints \cap DOMAIN n.attrs : ~IsNumber(n.attrs[a])
    \/ \E i \in DOMAIN n.kids :
          /\ IsElement(n.kids[i])
          /\ \E k \in KidFor(Class(cls), n.kids[i].tag) :
                IF k.cls = ""
                THEN \E j \in DOMAIN n.kids[i].kids : IsElement(n.kids[i].kids[j])
                ELSE BuildRaises(k.cls, n.kids[i])

-----------------------------------------------------------------------------
(* export().  What it writes is again a tree; raw is text that was written *)
(* without quoting, as MixedContainer does.                                *)

Raw(words) == [node |-> "raw", words |-> words]
Sensitive == {"<", "&"}
Quoted(w) ==
    CASE w = "<" -> "&lt;" [] w = "&" -> "&amp;" [] OTHER -> w

NonEmpty(leaf(_), words) == IF words = << >> THEN << >> ELSE <<leaf(words)>>

(* exportChildren for valueOf_: quoted text.  A CDATA section gets its     *)
(* brackets back, after its text was quoted like the rest.                 *)
RECURSIVE ValueExported(_)
ValueExported(words) ==
    LET opens == SelectInSeq(words, LAMBDA w : w = "![CDATA[")
        closes == SelectInSeq(words, LAMBDA w : w = "]]")
    IN  IF opens = 0 THEN NonEmpty(Text, words)
        ELSE NonEmpty(Text, SubSeq(words, 1, opens - 1))
             \o <<Cdata([i \in 1 .. closes - opens - 1 |-> Quoted(words[opens + i])])>>
             \o ValueExported(SubSeq(words, closes + 1, Len(words)))

(* exportAttributes: most are guarded by `is not None`; one that is not is *)
(* written as None.                                                        *)
AttrsExported(row, obj) ==
    [a \in DOMAIN obj.attrs \cup row.unguarded |->
        IF a \in DOMAIN obj.attrs THEN obj.attrs[a] ELSE "None"]

StrUnquoted(tag, words) == Element(tag, NoAttrs, NonEmpty(Raw, words))
StrExported(tag, words) == Element(tag, NoAttrs, NonEmpty(Text, words))

RECURSIVE Export(_, _)

ObjectsExported(objs, tag) == [i \in DOMAIN objs |-> Export(objs[i], tag)]

FieldExported(obj, kid) ==
    CASE kid.tag \notin DOMAIN obj.kids -> << >>
      [] kid.how = "many" -> ObjectsExported(obj.kids[kid.tag], kid.tag)
      [] kid.how = "strs" ->
             [i \in DOMAIN obj.kids[kid.tag] |-> StrExported(kid.tag, obj.kids[kid.tag][i])]
      [] kid.how = "one" -> ObjectsExported(<<obj.kids[kid.tag]>>, kid.tag)
      [] kid.how = "str" -> <<StrExported(kid.tag, obj.kids[kid.tag])>>
      [] kid.how = "titled" -> <<StrExported(kid.tag, <<"instance">>)>>

(* MixedContainer.export and exportSimple                                  *)
ContainerExported(c) ==
    CASE c.category = "text" -> Raw(c.value)
      [] c.category = "simple" -> Element(c.name, NoAttrs, NonEmpty(Raw, c.value))
      [] c.category = "complex" -> Export(c.value, c.name)

ChildrenExported(row, obj) ==
    CASE row.form = "children" ->
             FlattenSeq([i \in DOMAIN row.kids |-> FieldExported(obj, row.kids[i])])
      [] row.form = "mixed" ->
             [i \in DOMAIN obj.content_ |-> ContainerExported(obj.content_[i])]
      [] OTHER -> ValueExported(obj.valueOf_)

Exported(row, obj, tag) ==
    Element(tag, AttrsExported(row, obj), ChildrenExported(row, obj))
Export(obj, tag) == Exported(Schema[obj.cls], obj, tag)

(* What a reader makes of the file: raw text cannot hold markup.           *)
RECURSIVE Malformed(_)
Malformed(n) ==
    \/ n.node = "raw" /\ Range(n.words) \cap Sensitive # {}
    \/ IsElement(n) /\ \E i \in DOMAIN n.kids : Malformed(n.kids[i])

RECURSIVE Reread(_)
Reread(n) ==
    CASE n.node = "raw" -> Text(n.words)
      [] IsElement(n) -> [n EXCEPT !.kids = [i \in DOMAIN n.kids |-> Reread(n.kids[i])]]
      [] OTHER -> n

-----------------------------------------------------------------------------
(* exportLiteral() raises AttributeError if it meets an object of mixed    *)
(* content, whose hasContent_ asks for fields that no constructor sets, or *)
(* a string child that is None.                                            *)
RECURSIVE LiteralRaises(_)
LiteralRaises(obj) ==
    \/ Schema[obj.cls].form = "mixed"
    \/ \E k \in Range(Schema[obj.cls].kids) :
          LET v == obj.kids[k.tag]
          IN  CASE k.tag \notin DOMAIN obj.kids -> k.how = "str"
                [] k.how \in {"one", "titled"} -> LiteralRaises(v)
                [] k.how = "many" -> \E i \in DOMAIN v : LiteralRaises(v[i])
                [] OTHER -> FALSE
=============================================================================
