-------------------------------- MODULE MCDoxy --------------------------------
(* Instances for TLC: a small block with its header and class, and around   *)
(* it everything that swig_doc.py treats in a way of its own; one document  *)
(* per class of the schema and way of filling it.                           *)
EXTENDS DoxyPrograms

E(tag, attrs, kids) == Element(tag, attrs, kids)
T(words) == <<Text(words)>>
Plain(tag, words) == E(tag, NoAttrs, T(words))

Desc(tag, words) ==
    E(tag, NoAttrs, IF words = << >> THEN << >> ELSE <<Plain("para", words)>>)

(* A paragraph with all that can be in one.                                 *)
FullPara ==
    E("para", NoAttrs,
      T(<<"see">>) \o <<Plain("bold", <<"lost">>), Plain("ref", <<"e-acute">>)>>
      \o T(<<"more">>) \o <<E("parameterlist", [kind |-> "param"], << >>)>>)

MemberDef(kind, nm, brief, detailed, params) ==
    E("memberdef", [kind |-> kind, id |-> "member"],
      <<Plain("name", nm)>>
      \o [i \in DOMAIN params |-> E("param", NoAttrs, <<Plain("declname", params[i])>>)]
      \o <<Desc("briefdescription", brief), Desc("detaileddescription", detailed)>>)

File(refid, kind, nm, brief, inner, memberdefs) ==
    E("doxygen", NoAttrs,
      <<E("compounddef", [kind |-> kind, id |-> refid],
          <<Plain("compoundname", nm)>> \o inner
          \o <<E("sectiondef", NoAttrs, memberdefs),
               Desc("briefdescription", brief),
               E("detaileddescription", NoAttrs,
                 IF brief = << >> THEN << >> ELSE <<FullPara, Plain("para", <<"end">>)>>)>>)>>)

Listed(refid, kind, nm) ==
    E("compound", [kind |-> kind, refid |-> refid], <<Plain("name", nm)>>)

Ref(tag, refid) == E(tag, [refid |-> refid], T(<<refid>>))

Blk == <<"x", "_", "y">>
MakeY == <<"x", "_", "make", "_", "y">>
OperatorBool == <<"operator ", "bool">>

(* header: the block's header; make: how many headers have the make         *)
(* function; class: the block's class; second: the other header; docs: is   *)
(* everything documented; odd: a member or a compound of a kind nobody      *)
(* parses; broken: the second class                                         *)
MakeFunction(words) == MemberDef("function", MakeY, words, << >>, <<<<"n">>>>)

HeaderMembers(p) ==
    (IF p.make \in {"one", "two"}
     THEN <<MakeFunction(IF p.docs THEN <<"make", "\"", "quoted">> ELSE << >>)>> ELSE << >>)
    \o <<MemberDef("function", <<"free">>, <<"first">>, << >>, << >>),
         MemberDef("function", <<"free">>, <<"second">>, << >>, <<<<"a">>>>),
         MemberDef("define", <<"LIMIT">>, << >>, << >>, << >>)>>
    \o (IF p.odd = "member" THEN <<MemberDef("signal", <<"odd">>, << >>, << >>, << >>)>>
        ELSE << >>)

ClassMembers(p) ==
    (IF p.class = "shadowed" THEN <<MemberDef("function", MakeY, << >>, << >>, << >>)>>
     ELSE << >>)
    \o (IF p.class = "noctor" THEN << >>
     ELSE <<MemberDef("function", Blk, << >>, << >>, <<<<"n">>, << >>>>)>>)
    \o (IF p.class = "nofriend" THEN << >>
        ELSE <<MemberDef("friend", MakeY, << >>, << >>, << >>)>>)
    \o <<MemberDef("function", <<"work">>, <<"works">>, <<"well">>, << >>),
         MemberDef("function", OperatorBool, << >>, << >>, << >>)>>

If(p, w) == IF p.docs THEN <<w>> ELSE << >>

Files(p) ==
    [classY |-> IF p.class = "broken" THEN Broken
                ELSE File("classY", "class", Blk, If(p, "class"), << >>,
                          ClassMembers(p)),
     classZ |-> IF p.broken THEN Broken
                ELSE File("classZ", "class", <<"ns", "::", "z">>, << >>, << >>,
                          <<MemberDef("function", <<"work">>, << >>, << >>, << >>)>>),
     headerY |-> IF p.header = "broken" THEN Broken
                 ELSE File("headerY", "file", Blk \o <<".h">>, If(p, "header"), << >>,
                           HeaderMembers(p)),
     headerW |-> File("headerW", "file", << >>, << >>, << >>,
                      (IF p.make = "two" THEN <<MakeFunction(<<"again">>)>> ELSE << >>)
                      \o (IF p.second = "same function"
                          THEN <<MemberDef("function", <<"free">>, << >>, << >>, << >>)>> ELSE << >>)
                      \o <<MemberDef("function", <<"other">>, << >>, << >>, << >>)>>),
     source |-> Broken,
     groupA |-> File("groupA", "group", <<"A">>, << >>,
                     <<Ref("innerclass", "classY"), Ref("innergroup", "groupB")>>, << >>),
     groupB |-> File("groupB", "group", <<"B">>, << >>,
                     <<Ref("innerclass", "classY"), Ref("innerclass", "classZ")>>, << >>)]

IndexOf(p) ==
    E("doxygenindex", NoAttrs,
      <<Listed("classY", "class", Blk), Listed("classZ", "class", <<"ns", "::", "z">>)>>
      \o (IF p.odd = "compound" THEN <<Listed("classY", "interface", <<"odd">>)>> ELSE << >>)
      \o <<Listed("source", "file", <<"x", ".cc">>),
           Listed("headerY", "file", IF p.second = "no header" THEN <<"q", ".h">>
                                     ELSE Blk \o <<".h">>),
           Listed("headerW", "file", IF p.second = "same name" THEN Blk \o <<".h">>
                                     ELSE <<"w", ".h">>),
           Listed("groupA", "group", <<"A">>), Listed("groupB", "group", <<"B">>),
           Listed("structS", "struct", <<"s">>)>>)

Variants ==
    [header : {"ok"}, make : {"none", "one", "two"},
     class : {"ok", "broken", "noctor", "nofriend", "shadowed"},
     second : {"ok", "same name", "same function", "no header"}, docs : BOOLEAN,
     odd : {"none", "member", "compound"}, broken : BOOLEAN]

DirectoryOf(p) == [index |-> IndexOf(p), files |-> Files(p)]

(* One header that expat cannot parse.                                      *)
BrokenHeader ==
    {DirectoryOf([header |-> "broken", make |-> "one", class |-> "ok", second |-> "ok",
                  docs |-> TRUE, odd |-> "none", broken |-> FALSE])}

MCDirectories ==
    {DirectoryOf(p) : p \in Variants} \cup BrokenHeader \cup {[index |-> Broken, files |-> << >>]}

MCLibraries ==
    {DirectoryOf(p) : p \in {v \in Variants : v.make = "one" /\ v.docs /\ v.second = "ok"}}
    \cup BrokenHeader
MCCategories == {AnyCategory, "DoxyGroup"}

-----------------------------------------------------------------------------
S == C!Schema
AllAttrs(cls) == [a \in Range(S[cls].attrs) |-> "7"]
NoNumbers(cls) == [a \in Range(S[cls].attrs) |-> "NaN"]

Filling(cls) ==
    IF S[cls].form = "children" THEN << >> ELSE T(<<"in">>)
Leaf(kid) ==
    IF kid.cls = "" THEN Plain(kid.tag, <<"str", "&">>)
    ELSE E(kid.tag, AllAttrs(kid.cls), Filling(kid.cls))
Leaves(kids) == [i \in DOMAIN kids |-> Leaf(kids[i])]

(* The children of a class, a few at a time, and the first with the last.   *)
Few == 5
Window(kids, i) == SubSeq(kids, i, IF i + Few < Len(kids) THEN i + Few ELSE Len(kids))
Windows(cls) ==
    LET kids == S[cls].kids
    IN  {Window(kids, i) : i \in {k \in DOMAIN kids : k % Few = 1}}
        \cup {IF kids = << >> THEN << >> ELSE <<Last(kids), Head(kids)>>}

Branch(kid) ==
    IF kid.cls = "" THEN Leaf(kid)
    ELSE E(kid.tag, NoAttrs, Leaves(Window(S[kid.cls].kids, 1)))
Branches(kids) == [i \in DOMAIN kids |-> Branch(kids[i])]

Unknown == E("nobody", [a |-> "1"], T(<<"lost">>))
Section(words) == <<Cdata(words)>>

(* An element among what is read as text.                                   *)
Nested(kids) ==
    [i \in DOMAIN kids |-> E(kids[i].tag, NoAttrs, <<Unknown>>)]

Contents(kids) ==
    {Leaves(kids) \o Reverse(Leaves(kids)),
     <<Unknown>> \o Branches(kids) \o T(<<"a">>) \o Leaves(kids),
     T(<<"a", "<">>) \o Leaves(kids), T(<<"a">>) \o Section(<<"c", "&">>) \o T(<<"b">>),
     T(<<"a">>) \o Section(<<"c">>) \o T(<<"b">>), Nested(kids)}

MCDocuments ==
    {<<cls, E("root", AllAttrs(cls), << >>)>> : cls \in DOMAIN S}
    \cup {<<cls, E("root", NoNumbers(cls), << >>)>> : cls \in DOMAIN S}
    \cup UNION {UNION {{<<cls, E("root", NoAttrs, kids)>> : kids \in Contents(window)}
                       : window \in Windows(cls)} : cls \in DOMAIN S}
===============================================================================
