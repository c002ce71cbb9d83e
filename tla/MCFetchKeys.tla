---------------------------- MODULE MCFetchKeys ----------------------------
(* FetchKeys with the statements of the application, for TLC. *)
EXTENDS FetchKeys, Statements

AllStatements == DOMAIN Selected
Tables ==
    {column[1] : column \in UNION {{Selected[s][i] : i \in DOMAIN Selected[s]} : s \in AllStatements}}
Fields ==
    {column[2] : column \in UNION {{Selected[s][i] : i \in DOMAIN Selected[s]} : s \in AllStatements}}
=============================================================================
