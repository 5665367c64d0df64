------------------------------- MODULE DoxyXml -------------------------------
(***************************************************************************)
(* docs/doxygen/doxyxml: what a client sees of the xml that doxygen wrote. *)
(* text.py gathers the text of a description, base.py and doxyindex.py     *)
(* make objects of the index's entries and parse their files when first    *)
(* asked.                                                                  *)
(*                                                                         *)
(* The library's memory is a record lib:                                   *)
(*   heap    the objects, by the order of their creation; 1 is the DoxyIndex *)
(*   refs    top._refs: refid -> position in heap                          *)
(*   reads   history: the files read                                       *)
(*   raised  the exception that the last call ended with, or ""            *)
(* Functions are parsed when first asked as well; that reads no file and   *)
(* cannot fail, so their descriptions are computed where they are used.    *)
(*                                                                         *)
(* Of doxygen's output it is assumed that every refid has a file, which    *)
(* holds a compounddef, and that compounds and members have both           *)
(* descriptions.  A name is a sequence of words, with "_" and "::" words   *)
(* of their own and the ending of a file's name as its last word.          *)
(***************************************************************************)
EXTENDS Dom, FiniteSets

C == INSTANCE CompoundSchema
I == INSTANCE IndexSchema

(* compound.py gives these classes a subclass.                             *)
SubClasses ==
    DOMAIN C!Schema \ {"scope", "name", "definition", "argsstring", "read",
        "write", "bitfield", "declname", "defname", "array", "label",
        "edgelabel", "sp", "docTitleType", "docMarkupType", "docCaptionType",
        "docVariableListType", "docEmptyType"}

(* docParaTypeSub.buildChildren keeps what a paragraph's text refers to and *)
(* its lists of parameters and of remarks.                                 *)
ParaOwnKids ==
    <<C!Kid("ref", "own", "docRefTextType"),
      C!Many("parameterlist", "docParamListType"),
      C!Many("simplesect", "docSimpleSectType")>>

OwnKidsOf == [docParaType |-> ParaOwnKids]

(* compound.py and index.py import the subclasses; compoundsuper.py, run on *)
(* its own, has none.                                                      *)
Compound == INSTANCE GenerateDs
                WITH Schema <- C!Schema, Extended <- SubClasses, OwnKids <- OwnKidsOf
Index == INSTANCE GenerateDs
             WITH Schema <- I!Schema, Extended <- DOMAIN I!Schema,
                  OwnKids <- << >>
Super == INSTANCE GenerateDs
             WITH Schema <- C!Schema, Extended <- {}, OwnKids <- << >>

-----------------------------------------------------------------------------
(* text.py                                                                 *)

Break == "\n\n"

RECURSIVE Stripped(_)
Stripped(words) ==
    CASE words # << >> /\ Head(words) = Break -> Stripped(Tail(words))
      [] words # << >> /\ Last(words) = Break -> Stripped(Front(words))
      [] OTHER -> words

RECURSIVE description_bit(_)

(* A container of mixed content: its value, which is a string or an object; *)
(* a paragraph is set off.                                                 *)
ContainerBit(c) ==
    (IF c.category = "complex" THEN description_bit(c.value) ELSE c.value)
    \o (IF c.name = "para" THEN <<Break>> ELSE << >>)

description_bit(obj) ==
    LET items == IF obj.cls = "docParaType" THEN obj.own ELSE obj.content_
    IN  FlattenSeq([i \in DOMAIN items |-> ContainerBit(items[i])])

description(obj) == Stripped(description_bit(obj))

-----------------------------------------------------------------------------
(* base.py and doxyindex.py                                                *)

KindClass ==
    [function |-> "DoxyFunction", class |-> "DoxyClass", file |-> "DoxyFile",
     namespace |-> "DoxyNamespace", group |-> "DoxyGroup",
     friend |-> "DoxyFriend", variable |-> "DoxyOther", struct |-> "DoxyOther",
     union |-> "DoxyOther", define |-> "DoxyOther", typedef |-> "DoxyOther",
     enum |-> "DoxyOther", dir |-> "DoxyOther", page |-> "DoxyOther"]

HasClass(data) == data.attrs["kind"] \in DOMAIN KindClass

NoData == [cls |-> "NoneType"]
Nobody == 0     (* None among the members *)

Instance(cls, refid, data) ==
    [cls |-> cls, refid |-> refid, data |-> data, parsed |-> FALSE,
     error |-> FALSE, members |-> << >>, brief |-> << >>, detailed |-> << >>]

NewLibrary ==
    [heap |-> <<Instance("DoxyIndex", "index", NoData)>>,
     refs |-> [r \in {} |-> 0], reads |-> << >>, raised |-> ""]

Raised(lib, exception) == [lib EXCEPT !.raised = exception]
Failed(lib) == lib.raised # ""

Registered(lib, refid, i) ==
    [lib EXCEPT !.refs = [r \in DOMAIN @ \cup {refid} |-> IF r = refid THEN i ELSE @[r]]]

(* The new object is the last one of the heap.                             *)
Allocated(lib, obj) == [lib EXCEPT !.heap = Append(@, obj)]
Found(lib, i) == [lib |-> lib, id |-> i]

FromNothing(lib, cls, refid) ==
    LET l == Allocated(lib, Instance(cls, refid, NoData))
    IN  Found(Registered(l, refid, Len(l.heap)), Len(l.heap))
FromRefidAnew(lib, cls, refid) == FromNothing(lib, cls, refid)
from_refid(lib, cls, refid) ==
    IF refid \in DOMAIN lib.refs THEN Found(lib, lib.refs[refid])
    ELSE FromNothing(lib, cls, refid)

(* Only what comes from the index has a refid: a memberdef has an id.      *)
from_parse_data(lib, cls, data) ==
    IF "refid" \notin DOMAIN data.attrs
    THEN LET l == Allocated(lib, Instance(cls, "", data)) IN Found(l, Len(l.heap))
    ELSE LET refid == data.attrs["refid"]
         IN  IF refid \in DOMAIN lib.refs THEN Found(lib, lib.refs[refid])
             ELSE LET l == Allocated(lib, Instance(cls, refid, data))
                  IN  Found(Registered(l, refid, Len(l.heap)), Len(l.heap))

(* get_cls() raises for a kind that no class parses; convert_mem() prints  *)
(* that and returns None.                                                  *)
convert_mem(lib, data) ==
    IF HasClass(data) THEN from_parse_data(lib, KindClass[data.attrs["kind"]], data)
    ELSE Found(lib, Nobody)

NameOf(data) == data.kids["name"]

AddMember(lib, i, m) == [lib EXCEPT !.heap[i].members = Append(@, m)]

MemberConvertedAnyway(acc, mem, i) ==
    LET c == convert_mem(acc.lib, mem)
    IN  [acc EXCEPT !.lib = AddMember(c.lib, i, c.id)]

(* One of the first of each name becomes a member: the class that is       *)
(* compared as well is that of the memberdef, the same for all.            *)
MemberConverted(acc, mem, i) ==
    LET c == convert_mem(acc.lib, mem)
    IN  IF NameOf(mem) \in acc.uniques THEN [acc EXCEPT !.lib = c.lib]
        ELSE [lib |-> AddMember(c.lib, i, c.id), uniques |-> acc.uniques \cup {NameOf(mem)}]

process_memberdefs(lib, i, cdef) ==
    LET secs == cdef.kids["sectiondef"]
        mdtss == FlattenSeq([s \in DOMAIN secs |-> secs[s].kids["memberdef"]])
    IN  FoldLeft(LAMBDA acc, mem : MemberConverted(acc, mem, i),
                 [lib |-> lib, uniques |-> {}], mdtss).lib

(* The members of a group are made from their refids.                      *)
InnerAdded(lib, i, cls, refs) ==
    FoldLeft(LAMBDA l, r : LET f == from_refid(l, cls, r.attrs["refid"])
                           IN  AddMember(f.lib, i, f.id), lib, refs)

(* What _parse takes from the compounddef.                                 *)
Described(lib, i, cdef) ==
    [lib EXCEPT !.heap[i].brief = description(cdef.kids["briefdescription"]),
                !.heap[i].detailed = description(cdef.kids["detaileddescription"])]

Grouped(lib, i, cdef) ==
    InnerAdded(InnerAdded(lib, i, "DoxyGroup", cdef.kids["innergroup"]),
               i, "DoxyClass", cdef.kids["innerclass"])

FilledFrom(cdef, lib, i) ==
    IF lib.heap[i].cls = "DoxyGroup" THEN process_memberdefs(Grouped(lib, i, cdef), i, cdef)
    ELSE process_memberdefs(Described(lib, i, cdef), i, cdef)

(* retrieve_data(), and what a file that does not parse leaves:            *)
(* DoxyFile._parse takes the descriptions before it looks for an error.    *)
Retrieved(lib, i) == [lib EXCEPT !.reads = Append(@, lib.heap[i].refid)]
Unreadable(lib, i) ==
    [lib EXCEPT !.heap[i].error = TRUE,
                !.raised = IF lib.heap[i].cls = "DoxyFile" THEN "AttributeError" ELSE @]
Compounds(file) == Compound!Build("DoxygenType", file).kids["compounddef"]

ReadFrom(file, lib, i) ==
    IF file = Broken THEN Unreadable(lib, i) ELSE FilledFrom(Compounds(file), lib, i)

Readers == {"DoxyFile", "DoxyClass", "DoxyGroup"}
ParseAgain(xml, lib, i) ==
    IF lib.heap[i].cls \notin Readers THEN lib
    ELSE ReadFrom(xml.files[lib.heap[i].refid],
                  Retrieved([lib EXCEPT !.heap[i].parsed = TRUE], i), i)

(* check_parsed() of everything but the index: only files, classes and     *)
(* groups have something to read.                                          *)
Parse(xml, lib, i) ==
    IF lib.heap[i].parsed \/ lib.heap[i].cls \notin Readers THEN lib
    ELSE ReadFrom(xml.files[lib.heap[i].refid],
                  Retrieved([lib EXCEPT !.heap[i].parsed = TRUE], i), i)

(* confirm_no_error()                                                      *)
WithoutError(lib, i) ==
    IF ~Failed(lib) /\ lib.heap[i].error THEN Raised(lib, "ParsingError") ELSE lib
Confirmed(xml, lib, i) == WithoutError(Parse(xml, lib, i), i)

EndsInAny(nm) == TRUE
EndsInH(nm) == Last(nm) = ".h"

(* One entry of the index: the members of a header come before itself, no  *)
(* other file is looked at.  c is the converted entry.                     *)
HeaderTaken(lib, i) ==
    IF Failed(lib) THEN lib
    ELSE [lib EXCEPT !.heap[1].members = (@ \o lib.heap[i].members) \o <<i>>]

Taken(xml, c, mem) ==
    CASE KindClass[mem.attrs["kind"]] # "DoxyFile" -> AddMember(c.lib, 1, c.id)
      [] ~EndsInH(NameOf(mem)) -> c.lib
      [] OTHER -> HeaderTaken(Confirmed(xml, c.lib, c.id), c.id)

EntryConverted(xml, lib, mem) ==
    CASE Failed(lib) -> lib
      [] ~HasClass(mem) -> Raised(lib, "StandardError")
      [] OTHER -> Taken(xml, convert_mem(lib, mem), mem)

(* DoxyIndex._parse                                                        *)
EntriesConverted(xml, lib) ==
    FoldLeft(LAMBDA acc, mem : EntryConverted(xml, acc, mem), lib,
             Index!Build("DoxygenType", xml.index).kids["compound"])
ParseIndex(xml, lib) ==
    IF lib.heap[1].parsed THEN lib
    ELSE IF xml.index = Broken
         THEN Raised([lib EXCEPT !.heap[1].parsed = TRUE], "ExpatError")
         ELSE EntriesConverted(xml, [lib EXCEPT !.heap[1].parsed = TRUE])

(* check_parsed() and confirm_no_error() of any object.                    *)
Checked(xml, lib, i) == IF i = 1 THEN ParseIndex(xml, lib) ELSE Confirmed(xml, lib, i)

-----------------------------------------------------------------------------
(* Questions to an object.  The caches _in_category and _dict_members hold *)
(* what is computed here: members do not change after the parse.           *)

AnyCategory == "None"
InCategory(lib, i, cat) ==
    SelectSeq(lib.heap[i].members,
              LAMBDA m : cat = AnyCategory \/ (m # Nobody /\ lib.heap[m].cls = cat))

(* name() asks the data; an object made from a refid alone has none, and   *)
(* what it asks its file for is not there.                                 *)
HasName(lib, m) == m # Nobody /\ lib.heap[m].data # NoData
NameIs(lib, m, nm) == NameOf(lib.heap[m].data) = nm

Pos(nm, w) == SelectInSeq(nm, LAMBDA x : x = w)
FirstBit(nm) == IF Pos(nm, "::") = 0 THEN nm ELSE SubSeq(nm, 1, Pos(nm, "::") - 1)
OtherBits(nm) ==
    IF Pos(nm, "::") = 0 THEN << >> ELSE SubSeq(nm, Pos(nm, "::") + 1, Len(nm))

RECURSIVE get_member(_, _, _, _, _)

(* The one member of that name, or the exceptions.                         *)
TheOne(xml, lib, named, nm, cat) ==
    CASE Len(named) = 0 -> Found(Raised(lib, "NoSuchMember"), Nobody)
      [] Len(named) > 1 -> Found(Raised(lib, "Duplicate"), Nobody)
      [] OtherBits(nm) = << >> -> Found(lib, named[1])
      [] OTHER -> get_member(xml, lib, named[1], OtherBits(nm), cat)

Among(xml, lib, candidates, nm, cat) ==
    IF \E k \in DOMAIN candidates : ~HasName(lib, candidates[k])
    THEN Found(Raised(lib, "AttributeError"), Nobody)
    ELSE TheOne(xml, lib, SelectSeq(candidates, LAMBDA m : NameIs(lib, m, FirstBit(nm))),
                nm, cat)

MemberOf(xml, lib, i, nm, cat) ==
    IF Failed(lib) THEN Found(lib, Nobody)
    ELSE Among(xml, lib, InCategory(lib, i, cat), nm, cat)

get_member(xml, lib, i, nm, cat) == MemberOf(xml, Checked(xml, lib, i), i, nm, cat)
=============================================================================
