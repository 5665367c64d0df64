---------------------------- MODULE CompoundSchema ----------------------------
(***************************************************************************)
(* compoundsuper.py: the classes that generateDS.py made of doxygen's      *)
(* schema of a compound, one row each.  A row and the methods of GenerateDs *)
(* together are the class: its constructor, accessors, build*(), export*() *)
(* and hasContent_().  A field named for a Python keyword (type_, raisexx, *)
(* classxx) has the name of its attribute or child here.                   *)
(***************************************************************************)
EXTENDS SchemaRows

(* compounddef is told to build its title as an object and to write it as a *)
(* string.                                                                  *)
Titled(tag, cls) == Kid(tag, "titled", cls)

DoxygenType ==
    Unguarded({"version"},
    Children(<<"version">>,
    <<One("compounddef", "compounddefType")>>))

compounddefAttributes ==
    <<"kind", "prot", "id">>

compounddefChildren ==
    <<Str("compoundname"), Titled("title", "docTitleType"),
      Many("basecompoundref", "compoundRefType"),
      Many("derivedcompoundref", "compoundRefType"),
      Many("includes", "incType"), Many("includedby", "incType"),
      One("incdepgraph", "graphType"), One("invincdepgraph", "graphType"),
      Many("innerdir", "refType"), Many("innerfile", "refType"),
      Many("innerclass", "refType"), Many("innernamespace", "refType"),
      Many("innerpage", "refType"), Many("innergroup", "refType"),
      One("templateparamlist", "templateparamlistType"),
      Many("sectiondef", "sectiondefType"),
      One("briefdescription", "descriptionType"),
      One("detaileddescription", "descriptionType"),
      One("inheritancegraph", "graphType"),
      One("collaborationgraph", "graphType"),
      One("programlisting", "listingType"), One("location", "locationType"),
      One("listofallmembers", "listofallmembersType")>>

compounddefType == Children(compounddefAttributes, compounddefChildren)
listofallmembersType == Children(<< >>, <<Many("member", "memberRefType")>>)

memberRefType ==
    Children(<<"virt", "prot", "refid", "ambiguityscope">>,
    <<Str("scope"), Str("name")>>)

scope == Valued(<< >>)
name == Valued(<< >>)
compoundRefType == Textual(<<"virt", "prot", "refid">>)
reimplementType == Textual(<<"refid">>)
incType == Textual(<<"local", "refid">>)
refType == Textual(<<"prot", "refid">>)
refTextType == Textual(<<"refid", "kindref", "external">>)

sectiondefType ==
    Children(<<"kind">>,
    <<Str("header"), One("description", "descriptionType"),
      Many("memberdef", "memberdefType")>>)

memberdefAttributes ==
    <<"initonly", "kind", "volatile", "const", "raise", "virt", "readable",
      "prot", "explicit", "new", "final", "writable", "add", "static",
      "remove", "sealed", "mutable", "gettable", "inline", "settable", "id">>

memberdefChildren ==
    <<One("templateparamlist", "templateparamlistType"),
      One("type", "linkedTextType"), Str("definition"), Str("argsstring"),
      Str("name"), Str("read"), Str("write"), Str("bitfield"),
      Many("reimplements", "reimplementType"),
      Many("reimplementedby", "reimplementType"), Many("param", "paramType"),
      Many("enumvalue", "enumvalueType"),
      One("initializer", "linkedTextType"),
      One("exceptions", "linkedTextType"),
      One("briefdescription", "descriptionType"),
      One("detaileddescription", "descriptionType"),
      One("inbodydescription", "descriptionType"),
      One("location", "locationType"), Many("references", "referenceType"),
      Many("referencedby", "referenceType")>>

memberdefType == Children(memberdefAttributes, memberdefChildren)
definition == Valued(<< >>)
argsstring == Valued(<< >>)
read == Valued(<< >>)
write == Valued(<< >>)
bitfield == Valued(<< >>)

descriptionType ==
    Mixed(<< >>,
    <<Complex("title", "docTitleType"), Complex("para", "docParaType"),
      Complex("sect1", "docSect1Type"),
      Complex("internal", "docInternalType")>>)

enumvalueType ==
    Mixed(<<"prot", "id">>,
    <<Simple("name"), Complex("initializer", "linkedTextType"),
      Complex("briefdescription", "descriptionType"),
      Complex("detaileddescription", "descriptionType")>>)

templateparamlistType == Children(<< >>, <<Many("param", "paramType")>>)

paramType ==
    Children(<< >>,
    <<One("type", "linkedTextType"), Str("declname"), Str("defname"),
      Str("array"), One("defval", "linkedTextType"),
      One("briefdescription", "descriptionType")>>)

declname == Valued(<< >>)
defname == Valued(<< >>)
array == Valued(<< >>)
linkedTextType == Mixed(<< >>, <<Complex("ref", "docRefTextType")>>)
graphType == Children(<< >>, <<Many("node", "nodeType")>>)

nodeType ==
    Children(<<"id">>,
    <<Str("label"), One("link", "linkType"),
      Many("childnode", "childnodeType")>>)

label == Valued(<< >>)
childnodeType == Children(<<"relation", "refid">>, <<Strs("edgelabel")>>)
edgelabel == Valued(<< >>)
linkType == Valued(<<"refid", "external">>)
listingType == Children(<< >>, <<Many("codeline", "codelineType")>>)

codelineType ==
    WithInts({"lineno"},
    Children(<<"external", "lineno", "refkind", "refid">>,
    <<Many("highlight", "highlightType")>>))

highlightType ==
    Mixed(<<"class">>,
    <<Simple("sp"), Complex("ref", "docRefTextType")>>)

sp == Valued(<< >>)

referenceType ==
    WithInts({"endline", "startline"},
    Textual(<<"endline", "startline", "refid", "compoundref">>))

locationType ==
    WithInts({"bodystart", "line", "bodyend"},
    Valued(<<"bodystart", "line", "bodyend", "bodyfile", "file">>))

docSect1Type ==
    Mixed(<<"id">>,
    <<Complex("title", "docTitleType"), Complex("para", "docParaType"),
      Complex("sect2", "docSect2Type"),
      Complex("internal", "docInternalS1Type")>>)

docSect2Type ==
    Mixed(<<"id">>,
    <<Complex("title", "docTitleType"), Complex("para", "docParaType"),
      Complex("sect3", "docSect3Type"),
      Complex("internal", "docInternalS2Type")>>)

docSect3Type ==
    Mixed(<<"id">>,
    <<Complex("title", "docTitleType"), Complex("para", "docParaType"),
      Complex("sect4", "docSect4Type"),
      Complex("internal", "docInternalS3Type")>>)

docSect4Type ==
    Mixed(<<"id">>,
    <<Complex("title", "docTitleType"), Complex("para", "docParaType"),
      Complex("internal", "docInternalS4Type")>>)

docInternalType ==
    Mixed(<< >>,
    <<Complex("para", "docParaType"), Complex("sect1", "docSect1Type")>>)

docInternalS1Type ==
    Mixed(<< >>,
    <<Complex("para", "docParaType"), Complex("sect2", "docSect2Type")>>)

docInternalS2Type ==
    Mixed(<< >>,
    <<Complex("para", "docParaType"), Complex("sect3", "docSect3Type")>>)

docInternalS3Type ==
    Mixed(<< >>,
    <<Complex("para", "docParaType"), Complex("sect3", "docSect4Type")>>)

docInternalS4Type == Mixed(<< >>, <<Complex("para", "docParaType")>>)
docTitleType == Textual(<< >>)
docParaType == Textual(<< >>)
docMarkupType == Textual(<< >>)
docURLLink == Textual(<<"url">>)
docAnchorType == Textual(<<"id">>)
docFormulaType == Textual(<<"id">>)

docIndexEntryType ==
    Children(<< >>,
    <<Str("primaryie"), Str("secondaryie")>>)

docListType == Children(<< >>, <<Many("listitem", "docListItemType")>>)
docListItemType == Children(<< >>, <<Many("para", "docParaType")>>)

docSimpleSectType ==
    Children(<<"kind">>,
    <<One("title", "docTitleType"), Many("para", "docParaType")>>)

docVarListEntryType == Children(<< >>, <<One("term", "docTitleType")>>)
docVariableListType == Valued(<< >>)
docRefTextType == Textual(<<"refid", "kindref", "external">>)

docTableType ==
    WithInts({"rows", "cols"},
    Children(<<"rows", "cols">>,
    <<Many("row", "docRowType"), One("caption", "docCaptionType")>>))

docRowType == Children(<< >>, <<Many("entry", "docEntryType")>>)
docEntryType == Children(<<"thead">>, <<Many("para", "docParaType")>>)
docCaptionType == Textual(<< >>)

docHeadingType ==
    WithInts({"level"},
    Textual(<<"level">>))

docImageType == Textual(<<"width", "type", "name", "height">>)
docDotFileType == Textual(<<"name">>)
docTocItemType == Textual(<<"id">>)
docTocListType == Children(<< >>, <<Many("tocitem", "docTocItemType")>>)
docLanguageType == Children(<<"langid">>, <<Many("para", "docParaType")>>)

docParamListType ==
    Children(<<"kind">>,
    <<Many("parameteritem", "docParamListItem")>>)

docParamListItem ==
    Children(<< >>,
    <<Many("parameternamelist", "docParamNameList"),
      One("parameterdescription", "descriptionType")>>)

docParamNameList ==
    Children(<< >>,
    <<Many("parametername", "docParamName")>>)

docParamName == Mixed(<<"direction">>, <<Complex("ref", "docRefTextType")>>)

docXRefSectType ==
    Children(<<"id">>,
    <<Strs("xreftitle"), One("xrefdescription", "descriptionType")>>)

docCopyType ==
    Children(<<"link">>,
    <<Many("para", "docParaType"), Many("sect1", "docSect1Type"),
      One("internal", "docInternalType")>>)

docCharType == Valued(<<"char">>)
docEmptyType == Valued(<< >>)

(* The classes by name.  *)
Schema ==
   [DoxygenType |-> DoxygenType, compounddefType |-> compounddefType,
    listofallmembersType |-> listofallmembersType, memberRefType |->
    memberRefType, scope |-> scope, name |-> name, compoundRefType |->
    compoundRefType, reimplementType |-> reimplementType, incType |-> incType,
    refType |-> refType, refTextType |-> refTextType, sectiondefType |->
    sectiondefType, memberdefType |-> memberdefType, definition |->
    definition, argsstring |-> argsstring, read |-> read, write |-> write,
    bitfield |-> bitfield, descriptionType |-> descriptionType, enumvalueType
    |-> enumvalueType, templateparamlistType |-> templateparamlistType,
    paramType |-> paramType, declname |-> declname, defname |-> defname, array
    |-> array, linkedTextType |-> linkedTextType, graphType |-> graphType,
    nodeType |-> nodeType, label |-> label, childnodeType |-> childnodeType,
    edgelabel |-> edgelabel, linkType |-> linkType, listingType |->
    listingType, codelineType |-> codelineType, highlightType |->
    highlightType, sp |-> sp, referenceType |-> referenceType, locationType
    |-> locationType, docSect1Type |-> docSect1Type, docSect2Type |->
    docSect2Type, docSect3Type |-> docSect3Type, docSect4Type |->
    docSect4Type, docInternalType |-> docInternalType, docInternalS1Type |->
    docInternalS1Type, docInternalS2Type |-> docInternalS2Type,
    docInternalS3Type |-> docInternalS3Type, docInternalS4Type |->
    docInternalS4Type, docTitleType |-> docTitleType, docParaType |->
    docParaType, docMarkupType |-> docMarkupType, docURLLink |-> docURLLink,
    docAnchorType |-> docAnchorType, docFormulaType |-> docFormulaType,
    docIndexEntryType |-> docIndexEntryType, docListType |-> docListType,
    docListItemType |-> docListItemType, docSimpleSectType |->
    docSimpleSectType, docVarListEntryType |-> docVarListEntryType,
    docVariableListType |-> docVariableListType, docRefTextType |->
    docRefTextType, docTableType |-> docTableType, docRowType |-> docRowType,
    docEntryType |-> docEntryType, docCaptionType |-> docCaptionType,
    docHeadingType |-> docHeadingType, docImageType |-> docImageType,
    docDotFileType |-> docDotFileType, docTocItemType |-> docTocItemType,
    docTocListType |-> docTocListType, docLanguageType |-> docLanguageType,
    docParamListType |-> docParamListType, docParamListItem |->
    docParamListItem, docParamNameList |-> docParamNameList, docParamName |->
    docParamName, docXRefSectType |-> docXRefSectType, docCopyType |->
    docCopyType, docCharType |-> docCharType, docEmptyType |-> docEmptyType]
==============================================================================
