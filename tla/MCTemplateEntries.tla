--------------------------- MODULE MCTemplateEntries ---------------------------
(***************************************************************************)
(* Values and bounds for the entries of the prompt templates: three texts, of    *)
(* which the second is as long as a stored one may be, and too long for a file   *)
(* of the index, and the third has a variable nobody knows.  All doors are looked *)
(* at by themselves, the page while other pages import, activate and delete      *)
(* entries, and the job while the active version changes.                         *)
(***************************************************************************)
EXTENDS TemplateEntries

Text(bytes, variables) ==
    [blank |-> FALSE, nul |-> FALSE, stray |-> FALSE, bytes |-> bytes, variables |-> variables]
MCInstructions == {Text(1, {"size"}), Text(2, {}), Text(1, {"other"})}

PlainItem == [name |-> 1, text |-> Text(1, {"size"}), sort |-> {}]
LongItem == [name |-> 2, text |-> Text(2, {}), sort |-> {1}]
BadItem == [name |-> 2, text |-> Text(1, {"other"}), sort |-> {}]
MCTemplateItems == {PlainItem, LongItem, BadItem}
MCTemplateLists == {<<PlainItem>>, <<LongItem, PlainItem>>, <<PlainItem, BadItem>>}

OtherPages ==
    \/ \E items \in TemplateLists : importPromptTemplates(items, TRUE)
    \/ \E s \in DOMAIN templateSets :
         activateTemplates(s) \/ \E e \in EntriesOf(s) : deletePromptTemplateEntry(s, e)

PageMoves == PageNext \/ OtherPages

\* Bound on what happens to the versions while the job is preprocessed.
FewImports ==
    /\ Len(templateSets) < 2
    /\ \E items \in TemplateLists : setupTemplatesImport(items)

PreprocessingMoves == JobNext \/ FewImports
=============================================================================
