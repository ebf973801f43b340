-------------------------- MODULE MCServerOptions ---------------------------
(***************************************************************************)
(* plug_init on every text of up to MaxLen symbols.                        *)
(***************************************************************************)
EXTENDS ServerOptions

CONSTANT MaxLen

Symbols == {"i", "k", SP, TAB}

MCLists == {NULL} \cup UNION {[1 .. n -> Symbols] : n \in 0 .. MaxLen}

MCScopes == {NULL, <<"r">>}
=============================================================================
