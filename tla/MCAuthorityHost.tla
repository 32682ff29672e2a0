--------------------------- MODULE MCAuthorityHost ---------------------------
(* Instances of AuthorityHost for TLC. *)
EXTENDS AuthorityHost

CONSTANTS s1, s2

\* The environment of a process names one scope or the other.
OneScopeEach == {{s1}, {s2}}
=============================================================================
