--------------------------- MODULE MCProtections ---------------------------
(***************************************************************************)
(* Small trees for Protections: one slice over the compositor and a        *)
(* terminal, or over a terminal and an editor.                             *)
(***************************************************************************)
EXTENDS ProtectionsHistory

CONSTANTS Root, Compositor, Terminal, Editor, loop, h1, h2

AppTree == {Root, Terminal, Editor}
SharedTree == {Root, Compositor, Terminal}

Paths == [c \in Cgroups |-> {c, Root}]
=============================================================================
