--------------------------- MODULE MCSuggestions ---------------------------
(* Values for model checking Suggestions.                                   *)
EXTENDS Suggestions

\* ann may only suggest; ed edits; eve suggests in the editor.
MCUsers  == {"ann", "ed", "eve"}
MCRoleOf == [ann |-> "suggester", ed |-> "editor", eve |-> "editor"]

OneReplace  == [x |-> "replace"]
ByAnn       == [x |-> "ann"]

\* An inline insertion and a deletion that may overlap it.
TwoKinds    == [x |-> "inline", y |-> "delete"]
TwoAuthors  == [x |-> "eve", y |-> "ann"]

RequestSymmetry == Permutations(Requests)
=============================================================================
