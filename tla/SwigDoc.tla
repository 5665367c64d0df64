------------------------------- MODULE SwigDoc -------------------------------
(***************************************************************************)
(* docs/doxygen/swig_doc.py, which writes the docstrings of the blocks,    *)
(* functions and classes that doxygen found, and any other client of       *)
(* doxyxml, which asks its objects in an order of its own.                 *)
(***************************************************************************)
EXTENDS DoxyXml

CONSTANTS
    Directories,     (* what doxygen may have written: its index and files   *)
    Libraries,       (* the directories that another client is tried on      *)
    Categories       (* the categories it looks for                          *)

VARIABLES
    xml,          (* the directory                                           *)
    lib,          (* the library's memory, see DoxyXml                       *)
    pc,           (* where swig_doc.py is, or "client" or "idle"             *)
    blocks,       (* the blocks                                              *)
    todo,         (* what the loop it is in has not come to                  *)
    makeFuncs,    (* make_funcs, names                                       *)
    output        (* the entries of the interface file                       *)

swigVars == <<xml, lib, pc, blocks, todo, makeFuncs, output>>

NoXml == [index |-> Broken, files |-> << >>]

SwigIdle ==
    /\ xml = NoXml /\ lib = NewLibrary /\ pc = "idle"
    /\ blocks = << >> /\ todo = << >> /\ makeFuncs = {} /\ output = << >>

SwigInit ==
    /\ \/ xml \in Directories /\ pc = "start"
       \/ xml \in Libraries /\ pc = "client"
    /\ lib = NewLibrary
    /\ blocks = << >> /\ todo = << >> /\ makeFuncs = {} /\ output = << >>

-----------------------------------------------------------------------------
(* Names and texts.                                                        *)

make_name(nm) ==
    LET p == Pos(nm, "_")
        bits0 == IF p = 0 THEN nm ELSE SubSeq(nm, 1, p - 1)
        rest == IF p = 0 THEN << >> ELSE SubSeq(nm, p + 1, Len(nm))
    IN  bits0 \o <<"_", "make", "_">> \o rest

Joined(a, b) == IF a = << >> \/ b = << >> THEN a \o b ELSE a \o <<Break>> \o b

(* Quotes are escaped; what is not ascii becomes a question mark.          *)
utoascii(words) ==
    [i \in DOMAIN words |->
        CASE words[i] = "\"" -> "\\\""
          [] words[i] = "e-acute" -> "?"
          [] OTHER -> words[i]]

combine_descriptions(brief, detailed) == utoascii(Joined(brief, detailed))

FunctionText(data) ==
    combine_descriptions(description(data.kids["briefdescription"]),
                         description(data.kids["detaileddescription"]))
BriefText(l, i) == combine_descriptions(l.heap[i].brief, << >>)
CompoundText(l, i) == combine_descriptions(l.heap[i].brief, l.heap[i].detailed)

Params(data) ==
    [k \in DOMAIN data.kids["param"] |-> data.kids["param"][k].kids["declname"]]

-----------------------------------------------------------------------------
(* Entries.  The docstring of a class is its description, that of a        *)
(* function has its parameters as well.                                    *)

NoParams == <<<<"no parameters">>>>
Entry(nm, text, params) == [name |-> nm, text |-> text, params |-> params]

make_entry(nm, text, params) ==
    IF Pos(nm, "operator ") # 0 \/ (text = << >> /\ params = NoParams) THEN << >>
    ELSE <<Entry(nm, text, params)>>

make_func_entry(nm, text, params) == make_entry(nm, text, params)

FunctionEntry(l, f, nm) ==
    LET data == l.heap[f].data
    IN  make_func_entry(nm, FunctionText(data), Params(data))

make_class_entry(l, k, text) ==
    LET funcs == InCategory(l, k, "DoxyFunction")
        nm == NameOf(l.heap[k].data)
        Method(f) == nm \o <<"::">> \o NameOf(l.heap[f].data)
    IN  make_entry(nm, text, NoParams)
        \o FlattenSeq([i \in DOMAIN funcs |-> FunctionEntry(l, funcs[i], Method(funcs[i]))])

(* What make_block_entry adds, or the exception that ends it.  A block     *)
(* without a header of its name does without, one without a constructor    *)
(* does not.  header and creator are what get_member() found.              *)
BlockEntries(l, b, make, creator, super) ==
    make_class_entry(l, b, super)
    \o make_func_entry(NameOf(l.heap[make].data), super, Params(l.heap[creator].data))

SuperDescription(l, b, make, header) ==
    Joined(Joined(CompoundText(l, b), FunctionText(l.heap[make].data)),
           IF header = Nobody THEN << >> ELSE CompoundText(l, header))

Nothing(l) == [lib |-> l, entries |-> << >>]

WithCreator(l, b, make, header, creator) ==
    IF Failed(creator.lib) THEN Nothing(creator.lib)
    ELSE [lib |-> creator.lib,
          entries |-> BlockEntries(l, b, make, creator.id,
                                   SuperDescription(l, b, make, header))]

WithHeader(l, b, make, header) ==
    IF header.lib.raised \notin {"", "NoSuchMember"} THEN Nothing(header.lib)
    ELSE WithCreator(l, b, make, header.id,
                     get_member(xml, l, b, NameOf(l.heap[b].data), "DoxyFunction"))

make_block_entry(l, b, make) ==
    WithHeader(l, b, make,
               get_member(xml, l, 1, NameOf(l.heap[b].data) \o <<".h">>, "DoxyFile"))

-----------------------------------------------------------------------------
(* make_swig_interface_file                                                *)

Died(l) == pc' = "died" /\ lib' = l /\ UNCHANGED <<blocks, todo, makeFuncs, output>>

IsClass(l, m) == m # Nobody /\ l.heap[m].cls = "DoxyClass"

(* Block.includes                                                          *)
WithFriend(acc, l, m, friend) ==
    IF friend.lib.raised = "NoSuchMember" THEN [acc EXCEPT !.lib = l]
    ELSE [lib |-> friend.lib, found |-> Append(acc.found, m)]

IfReadable(acc, l, m) ==
    IF l.heap[m].error THEN [acc EXCEPT !.lib = l]
    ELSE WithFriend(acc, l, m,
                    get_member(xml, l, m, make_name(NameOf(l.heap[m].data)), "DoxyFriend"))

BlockIncluded(acc, m) ==
    IF IsClass(acc.lib, m) THEN IfReadable(acc, Parse(xml, acc.lib, m), m) ELSE acc

BlocksOf(l) == FoldLeft(BlockIncluded, [lib |-> l, found |-> << >>], l.heap[1].members)

BlocksCollected(all) ==
    /\ lib' = all.lib
    /\ blocks' = all.found /\ todo' = all.found
    /\ pc' = "blocks"
    /\ UNCHANGED <<makeFuncs, output>>

FromIndex(l) == IF Failed(l) THEN Died(l) ELSE BlocksCollected(BlocksOf(l))

CollectBlocks ==
    /\ pc = "start"
    /\ FromIndex(ParseIndex(xml, lib))
    /\ UNCHANGED xml

(* One block.  Of the exceptions only ParsingError is caught.              *)
Documented(make, made) ==
    IF Failed(made.lib) THEN Died(made.lib)
    ELSE /\ makeFuncs' = makeFuncs \cup {NameOf(made.lib.heap[make].data)}
         /\ output' = output \o made.entries
         /\ lib' = made.lib
         /\ todo' = Tail(todo)
         /\ UNCHANGED <<pc, blocks>>

WithMake(b, make) ==
    IF Failed(make.lib) THEN Died(make.lib)
    ELSE Documented(make.id, make_block_entry(make.lib, b, make.id))

DocumentBlock ==
    /\ pc = "blocks" /\ todo # << >>
    /\ WithMake(Head(todo), get_member(xml, lib, 1, make_name(NameOf(lib.heap[Head(todo)].data)),
                                       "DoxyFunction"))
    /\ UNCHANGED xml

(* The functions of all headers except the make functions of blocks.       *)
CollectFuncs ==
    /\ pc = "blocks" /\ todo = << >>
    /\ todo' = SelectSeq(InCategory(lib, 1, "DoxyFunction"),
                         LAMBDA f : NameOf(lib.heap[f].data) \notin makeFuncs)
    /\ pc' = "funcs"
    /\ UNCHANGED <<xml, lib, blocks, makeFuncs, output>>

DocumentFunc ==
    /\ pc = "funcs" /\ todo # << >>
    /\ LET f == Head(todo)
       IN  output' = output \o FunctionEntry(lib, f, NameOf(lib.heap[f].data))
    /\ todo' = Tail(todo)
    /\ UNCHANGED <<xml, lib, pc, blocks, makeFuncs>>

BlockNames == {NameOf(lib.heap[blocks[i]].data) : i \in DOMAIN blocks}

CollectClasses ==
    /\ pc = "funcs" /\ todo = << >>
    /\ todo' = SelectSeq(InCategory(lib, 1, "DoxyClass"),
                         LAMBDA k : NameOf(lib.heap[k].data) \notin BlockNames)
    /\ pc' = "classes"
    /\ UNCHANGED <<xml, lib, blocks, makeFuncs, output>>

(* A class whose file is broken has no entry.                              *)
DocumentClass ==
    /\ pc = "classes" /\ todo # << >>
    /\ LET k == Head(todo)
           l == Confirmed(xml, lib, k)
       IN  /\ lib' = [l EXCEPT !.raised = ""]
           /\ output' = IF Failed(l) THEN output
                        ELSE output \o make_class_entry(l, k, CompoundText(l, k))
    /\ todo' = Tail(todo)
    /\ UNCHANGED <<xml, pc, blocks, makeFuncs>>

WriteFile ==
    /\ pc = "classes" /\ todo = << >>
    /\ pc' = "done"
    /\ UNCHANGED <<xml, lib, blocks, todo, makeFuncs, output>>

-----------------------------------------------------------------------------
(* A client.  It can reach the index, its members and theirs.              *)

RECURSIVE ReachableFrom(_)
ReachableFrom(some) ==
    LET next == some \cup {m \in UNION {Range(lib.heap[i].members) : i \in some} : m # Nobody}
    IN  IF next = some THEN some ELSE ReachableFrom(next)

Handled(l) == [l EXCEPT !.raised = ""]

(* members(), in_category(), a description or a title of an object.        *)
ClientAsks ==
    /\ pc = "client"
    /\ \E i \in ReachableFrom({1}) : lib' = Handled(Checked(xml, lib, i))
    /\ UNCHANGED <<xml, pc, blocks, todo, makeFuncs, output>>

(* A client knows the names of the index.                                  *)
CompoundNames ==
    IF xml.index = Broken THEN {}
    ELSE {NameOf(c) : c \in Range(Index!Build("DoxygenType", xml.index).kids["compound"])}

ClientLooksUp ==
    /\ pc = "client"
    /\ \E a, b \in CompoundNames, cat \in Categories :
          \E nm \in {a, a \o <<"::">> \o b} :
              lib' = Handled(get_member(xml, lib, 1, nm, cat).lib)
    /\ UNCHANGED <<xml, pc, blocks, todo, makeFuncs, output>>

SwigNext ==
    \/ CollectBlocks \/ DocumentBlock
    \/ CollectFuncs \/ DocumentFunc
    \/ CollectClasses \/ DocumentClass \/ WriteFile
    \/ ClientAsks \/ ClientLooksUp

-----------------------------------------------------------------------------
(* What the directory says, read off the documents themselves.             *)

Elements(n, tag) == SelectSeq(n.kids, LAMBDA k : k.node = "element" /\ k.tag = tag)
Words(n) == FlattenSeq([i \in DOMAIN n.kids |->
                            IF n.kids[i].node = "text" THEN n.kids[i].words ELSE << >>])
DomName(n) == Words(Elements(n, "name")[1])

Listings(kind) ==
    IF xml.index = Broken THEN {}
    ELSE {c \in Range(Elements(xml.index, "compound")) : c.attrs["kind"] = kind}
Headers == {c \in Listings("file") : Last(DomName(c)) = ".h"}
HeadersNamed(nm) == {c \in Headers : DomName(c) = nm}
DocumentOf(c) == xml.files[c.attrs["refid"]]
Readable(cs) == {c \in cs : DocumentOf(c) # Broken}
Classes == Readable(Listings("class"))

DefOf(c) == DocumentOf(c).kids[1]
Memberdefs(c) ==
    LET secs == Elements(DefOf(c), "sectiondef")
    IN  FlattenSeq([i \in DOMAIN secs |-> Elements(secs[i], "memberdef")])

(* Of the members with one name, overloads or a friend and a function,     *)
(* doxyxml keeps the first.                                                *)
Firsts(c, kind) ==
    LET defs == Memberdefs(c)
    IN  {defs[i] : i \in {j \in DOMAIN defs :
            /\ defs[j].attrs["kind"] = kind
            /\ \A before \in 1 .. j - 1 : DomName(defs[before]) # DomName(defs[j])}}
Named(defs, nm) == {n \in defs : DomName(n) = nm}

Functions(c) == {DomName(n) : n \in Firsts(c, "function")}
HeadersWith(f) == {c \in Readable(Headers) : f \in Functions(c)}
Method(c, f) == DomName(c) \o <<"::">> \o f

BlockClasses ==
    {c \in Classes : /\ Pos(DomName(c), "::") = 0
                     /\ Named(Firsts(c, "friend"), make_name(DomName(c))) # {}}

(* The text of a description: that of its paragraphs and of the references *)
(* in them, without what is marked up otherwise.                           *)
ParaWords(para) ==
    FlattenSeq([i \in DOMAIN para.kids |->
        LET k == para.kids[i]
        IN  CASE k.node = "text" -> k.words
              [] k.node = "element" /\ k.tag = "ref" -> Words(k)
              [] OTHER -> << >>])
DescriptionWords(n) ==
    LET Of(tag) == LET paras == Elements(Elements(n, tag)[1], "para")
                   IN  FlattenSeq([i \in DOMAIN paras |-> ParaWords(paras[i])])
    IN  utoascii(Of("briefdescription") \o Of("detaileddescription"))

-----------------------------------------------------------------------------
(* Properties of swig_doc.py.                                              *)

(* The program ends without writing its file exactly if the index does not *)
(* parse or lists a kind nobody knows, a header does not parse, a block's  *)
(* make function is in no header or in several, two headers have the       *)
(* block's name, or the block's first member of that name is not its       *)
(* constructor: the files of classes and whatever else is odd only cost    *)
(* their entries (make_swig_interface_file, make_block_entry,              *)
(* DoxyIndex._parse).                                                      *)
Fatal ==
    \/ xml.index = Broken
    \/ \E c \in Range(Elements(xml.index, "compound")) :
          c.attrs["kind"] \notin DOMAIN KindClass
    \/ Readable(Headers) # Headers
    \/ \E b \in BlockClasses :
          \/ Cardinality(HeadersWith(make_name(DomName(b)))) # 1
          \/ Cardinality(HeadersNamed(DomName(b) \o <<".h">>)) > 1
          \/ DomName(b) \notin Functions(b)

DiesOnlyIfFatal == (pc = "died" => Fatal) /\ (pc = "done" => ~Fatal)

(* The file has one entry for every function that a header declares and    *)
(* for every method of every class that could be read, and for nothing     *)
(* else; a class with a description has one as well.  Only operators like  *)
(* operator bool are left out, and only a function of two headers comes    *)
(* twice: a make function, which its block documents, is not repeated      *)
(* among the functions, nor a block among the classes.                     *)
EveryoneDocumentedOnce ==
    pc = "done" =>
        LET functions == {i \in DOMAIN output : output[i].params # NoParams}
            declared == UNION {Functions(h) : h \in Headers}
            methods == UNION {{Method(c, f) : f \in Functions(c)} : c \in Classes}
            classes == {output[i].name : i \in DOMAIN output \ functions}
        IN  /\ {output[i].name : i \in functions}
                  = {f \in declared \cup methods : Pos(f, "operator ") = 0}
            /\ {DomName(c) : c \in {k \in Classes : DescriptionWords(DefOf(k)) # << >>}}
                  \subseteq classes
            /\ classes \subseteq {DomName(c) : c \in Classes}
            /\ \A i, j \in DOMAIN output :
                  i # j /\ output[i].name = output[j].name
                      => Cardinality(HeadersWith(output[i].name)) > 1

(* A user of a block sees the same text whether he asks for help on the    *)
(* class or on the function that makes it: what is written at the class,   *)
(* at the make function and at the top of the header, with its quotes      *)
(* escaped once, and the parameters of the constructor (make_block_entry). *)
BlockTextEverywhere ==
    pc = "done" =>
        \A b \in BlockClasses :
            LET make == make_name(DomName(b))
                maker == CHOOSE n \in Firsts(CHOOSE h \in HeadersWith(make) : TRUE, "function") :
                             DomName(n) = make
                headers == HeadersNamed(DomName(b) \o <<".h">>)
                creator == CHOOSE n \in Firsts(b, "function") : DomName(n) = DomName(b)
                text == DescriptionWords(DefOf(b)) \o DescriptionWords(maker)
                        \o (IF headers = {} THEN << >>
                            ELSE DescriptionWords(DefOf(CHOOSE h \in headers : TRUE)))
                Says(e) == SelectSeq(e.text, LAMBDA w : w # Break) = text
                params == Elements(creator, "param")
            IN  \A i \in DOMAIN output :
                    output[i].name \in {make, DomName(b)} =>
                        /\ Says(output[i])
                        /\ output[i].name = make =>
                              output[i].params = [k \in DOMAIN params |->
                                  Words(Elements(params[k], "declname")[1])]

-----------------------------------------------------------------------------
(* Properties of the library, whoever uses it.                             *)

(* What an object says of itself.                                          *)
View(l, i) ==
    [error |-> l.heap[i].error, brief |-> l.heap[i].brief, detailed |-> l.heap[i].detailed,
     members |-> [k \in DOMAIN l.heap[i].members |->
                     LET m == l.heap[i].members[k]
                     IN  IF m = Nobody THEN << >>
                         ELSE <<l.heap[m].cls, l.heap[m].refid, NameOf(l.heap[m].data)>>]]

(* The order of the questions does not matter: an object that was parsed   *)
(* has the descriptions and members that it would have had if nobody had   *)
(* asked for anything else, after an exception too (check_parsed, _parse,  *)
(* process_memberdefs, from_refid).                                        *)
AsIfAskedFirst ==
    LET fresh == Handled(ParseIndex(xml, NewLibrary))
    IN  \A i \in {k \in DOMAIN lib.heap : lib.heap[k].parsed} :
            View(lib, i) = View(Checked(xml, fresh, i), i)

(* However an entity is reached, by the index or from a group that it is   *)
(* in, there is one object of it, which top._refs knows, and its file is   *)
(* read once at most: what nobody asked for costs nothing, and of the      *)
(* files only headers are opened at all (from_refid, from_parse_data,      *)
(* check_parsed, DoxyIndex._parse).                                        *)
OneObjectOneRead ==
    /\ \A i \in DOMAIN lib.heap \ {1} :
          lib.heap[i].refid # "" => lib.refs[lib.heap[i].refid] = i
    /\ \A r \in DOMAIN lib.refs : lib.heap[lib.refs[r]].refid = r
    /\ \A i, j \in DOMAIN lib.reads : lib.reads[i] = lib.reads[j] => i = j
    /\ Range(lib.reads) \subseteq
          {c.attrs["refid"] : c \in Headers \cup Listings("class") \cup Listings("group")}

(* What swig_doc.py checks for, a parsing error, is what it gets for a     *)
(* file that does not parse.                                               *)
BrokenFileIsParsingError == pc = "died" => lib.raised = "ParsingError"
=============================================================================
