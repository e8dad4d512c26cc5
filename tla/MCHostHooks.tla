---------------------------- MODULE MCHostHooks ----------------------------
(***************************************************************************)
(* Two homes, one event per host for each of the calls: a prompt and two     *)
(* shell commands of one generation at Cursor, an excluded tool at Claude.   *)
(***************************************************************************)
EXTENDS HostHooks, TLC

CONSTANTS e1, e2, alt, dflt, x, j1, j2, t1, t2

CallOf(host, slot, kind, tool, ids, text) ==
    [host |-> host, slot |-> slot, kind |-> kind, tool |-> tool, ids |-> ids, text |-> text]

Prompt   == CallOf("cursor", e1, "beforeSubmitPrompt", Nil, {"gen1"}, "t0")
Shell    == CallOf("cursor", e2, "afterShellExecution", "Shell", {"gen1"}, t1)
Shell2   == CallOf("cursor", e2, "afterShellExecution", "Shell", {"gen1"}, t2)
Secret   == CallOf("claude", e1, "PostToolUse", "secret", {"toolu1"}, "t0")
MCCall   == {Prompt, Shell, Shell2, Secret}
MCEvent == {e1, e2}
MCHome == {dflt, alt}
MCForeign == {x}
MCSlot == {j1, j2}
MCExcluded == {"secret"}
MCUnembedded == {"Shell"}
Symmetry == Permutations(MCSlot) \cup Permutations({t1, t2})
=============================================================================
