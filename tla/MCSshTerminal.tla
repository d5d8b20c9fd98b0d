--------------------------- MODULE MCSshTerminal ---------------------------
(* One terminal, two operations on its foreground group. *)
EXTENDS SshTerminal
CONSTANTS o1, o2
MCBytes == {"a", "b"}
MCNoises == {<<>>, <<"a">>, <<"b", "a">>}
MCOps == {o1, o2}
=============================================================================
