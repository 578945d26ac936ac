------------------------------ MODULE MCLadder ------------------------------
(***************************************************************************)
(* Small machines for Ladder: a browser, a terminal whose window shows a   *)
(* tmux pane with a Claude session in it, the compositor, and (nested) a   *)
(* helper unit inside the browser's.                                       *)
(***************************************************************************)
EXTENDS Ladder

CONSTANTS Browser, Terminal, Pane, Compositor, Helper,
          BrowserWin, TerminalWin, ShellWin, HelperWin, h1, h2

Desktop == {Browser, Terminal, Pane, Compositor}
NoCompositor == {Browser, Terminal, Pane}
Sessions == {Browser, Pane}
NestedPair == {Browser, Helper}

NoNesting == [s \in Scopes |-> {}]
HelperInBrowser == [s \in Scopes |-> IF s = Helper THEN {Browser} ELSE {}]

AllWindows == {BrowserWin, TerminalWin, ShellWin}
PlainWindows == {BrowserWin, TerminalWin}
NestedWindows == {HelperWin}
ScopeOf == [w \in Windows |-> CASE w = BrowserWin -> Browser
                               [] w = TerminalWin -> Terminal
                               [] w = ShellWin -> Compositor
                               [] w = HelperWin -> Helper]
NoKin == [w \in Windows |-> {}]

\* The browser and the pane are the two units above every floor; the terminal
\* emulator itself is small, as it is on the machine the docs describe.
Sizes == [s \in Scopes |-> CASE s = Browser -> 3
                            [] s \in {Pane, Helper, Compositor} -> 2
                            [] OTHER -> 0]

=============================================================================
