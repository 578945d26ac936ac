----------------------------- MODULE MCFavour ------------------------------
(***************************************************************************)
(* Small desktops for Favour: a browser and an editor with a window each,  *)
(* a pane with a window that also sends touches, an agent that has none,   *)
(* and the compositor.                                                     *)
(***************************************************************************)
EXTENDS FavourHistory, TLC

CONSTANTS Browser, Editor, Pane, Agent, Compositor, BrowserWin, EditorWin, PaneWin,
          h1, h2, loop

NoNesting == [s \in Scopes |-> {}]

ScopeOf == [w \in Windows |-> CASE w = BrowserWin -> Browser
                               [] w = EditorWin  -> Editor
                               [] w = PaneWin    -> Pane]

NoKin == [w \in Windows |-> {}]

\* The browser and the editor, each with its window, differ in nothing but names,
\* nor do the two connection threads.
Alike == {p \in Permutations({Browser, Editor, BrowserWin, EditorWin} \cup Handlers) :
            /\ \A s \in {Browser, Editor} : p[s] \in {Browser, Editor}
            /\ p[Browser] = Browser <=> p[BrowserWin] = BrowserWin
            /\ \A h \in Handlers : p[h] \in Handlers}
=============================================================================
