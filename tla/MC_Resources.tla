---------------------------- MODULE MC_Resources ----------------------------
(***************************************************************************)
(* Small instances of Resources for TLC.                                   *)
(***************************************************************************)
EXTENDS Resources

\* Handlers that between them open connections from both kinds of route, are
\* handed results and hold two in turn, and lose each kind of object that is
\* lost.  One project page fills the memory of the instance.
SomeOps == {"api_login", "form_new_project", "project_keys"}
=============================================================================
