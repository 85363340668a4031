---------------------------- MODULE JsonLibrary -----------------------------
(***************************************************************************)
(* Both views of the JSON library: of its trees and of its texts.  They    *)
(* share nothing, so that one is looked at while the other is at rest.     *)
(***************************************************************************)
EXTENDS JsonTree, JsonText

LibraryInit == Init /\ TextInit

LibraryNext ==
  \/ TextInit /\ Next /\ UNCHANGED textvars
  \/ Init /\ TextNext /\ UNCHANGED vars

LibrarySpec == LibraryInit /\ [][LibraryNext]_<<vars, textvars>>
=============================================================================
