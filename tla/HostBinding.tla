---------------------------- MODULE HostBinding ----------------------------
(***************************************************************************)
(* How haunt gets into the editors' configuration: install, cursor-install, *)
(* bootstrap and doctor's repair merge one entry per event into files the   *)
(* editors and their users write too.  A file is                            *)
(* [ok, foreign, cmd, own, odd, snags]: ok when it parses; foreign is what    *)
(* others keep beside haunt's entries; cmd gives every slot (an event of a   *)
(* hooks file, the server of an MCP file) its haunt entry [home, leaf, n],    *)
(* n equal copies of one launcher's path, or None; own are the slots whose    *)
(* entry carries settings of its user (an MCP server's env and args, a       *)
(* hook's timeout); odd are those where a value of another shape stands (a    *)
(* string for an event's list, or for the object that holds all of them);    *)
(* snags is what doctor objects to and no install touches.  Files are        *)
(* replaced atomically, and read long before that.                         *)
(***************************************************************************)
EXTENDS FiniteSets, Naturals, Sequences

CONSTANTS Event,    \* events a host may run a hook for
          Home,     \* haunt homes
          Default,  \* ~/.haunt, the one that may be bound globally
          Foreign,  \* other entries of the editors' files
          MaxEdit, MaxInstall, \* bounds
          None

ASSUME DefaultIsAHome == Default \in Home
ASSUME BindingBounds == {MaxEdit, MaxInstall} \subseteq Nat

VARIABLES file,    \* <<host, part>> |-> contents, or None
          planted, \* hosts that have the rule and the skill
          live,    \* homes whose launchers are there and run
          inst,    \* the running install, or Away
          bhist    \* what users did, how installs ended; counters

bvars == <<file, planted, live, inst, bhist>>

Host == {"cursor", "claude"}
Part == {"hooks", "mcp"}
File == Host \X Part
Away == [pc |-> "away", home |-> None, force |-> FALSE, refusing |-> {}, hosts |-> <<>>,
         part |-> "hooks", read |-> None, wrote |-> {}, alone |-> TRUE]

Slots(f) == IF f[2] = "hooks" THEN Event ELSE {"server"}
LeafOf(f) == IF f[2] = "mcp" THEN "haunt-mcp" ELSE IF f[1] = "cursor" THEN "haunt-hook" ELSE "haunt-hook-claude"
Entry(home, leaf, n) == [home |-> home, leaf |-> leaf, n |-> n]
Entries == [home : Home, leaf : {"haunt-mcp", "haunt-hook", "haunt-hook-claude"}, n : 1..2]

\* In Claude's settings.json: a haunt MCP server, which Claude ignores there, or
\* a matcher group whose hooks are null and cannot be walked.  Install leaves
\* either alone and doctor fails for either.
Snag == {"snag"}
SnagsIn(f) == IF f = <<"claude", "hooks">> THEN Snag ELSE {}

Contents(f) == [ok : BOOLEAN, foreign : SUBSET Foreign, cmd : [Slots(f) -> Entries \cup {None}],
                own : SUBSET Slots(f), odd : SUBSET Slots(f), snags : SUBSET SnagsIn(f)]
ASSUME NoneIsNothing == None \notin Entries /\ \A f \in File : None \notin Contents(f)

EmptyFile(f) == [ok |-> TRUE, foreign |-> {}, cmd |-> [s \in Slots(f) |-> None],
                 own |-> {}, odd |-> {}, snags |-> {}]

\* Claude's events were once bound to the launcher Cursor uses.
OldClaude(f) ==
    [EmptyFile(f) EXCEPT !.cmd = [s \in Slots(f) |->
        Entry(Default, IF f[2] = "mcp" THEN "haunt-mcp" ELSE "haunt-hook", 1)]]

\* What a user or an editor has in a file where haunt's own entry goes: a value
\* of another shape, and the settings of its MCP server.
Claimed(f, c) ==
    ({"shape"} \X c.odd) \cup ({"settings"} \X (IF f[2] = "mcp" THEN c.own ELSE {}))

\* What they have beside it, the settings of a hook's entry included.
Beside(f, c) ==
    ({"entry"} \X c.foreign) \cup ({"settings"} \X (IF f[2] = "mcp" THEN {} ELSE c.own))

BindingInit ==
    /\ \/ /\ file = [f \in File |-> None]
          /\ planted = {} /\ live = {}
       \/ /\ file = [f \in File |-> IF f[1] = "claude" THEN OldClaude(f) ELSE None]
          /\ planted = {"claude"} /\ live = {Default}
    /\ inst = Away
    /\ bhist = [edits |-> 0, installs |-> 0, added |-> [f \in File |-> {}], raced |-> {},
                bound |-> {}, refusedAfter |-> {}]

-----------------------------------------------------------------------------
(* Editors and users. *)

\* An edit of a file an install has read and not yet replaced is overwritten.
Racing(f) == inst.pc = "replace" /\ f = <<Head(inst.hosts), inst.part>>

Edited(f, c) ==
    /\ bhist.edits < MaxEdit
    /\ file' = [file EXCEPT ![f] = c]
    /\ bhist' = [bhist EXCEPT !.edits = @ + 1, !.bound = {},
                              !.added[f] = IF c.ok THEN Beside(f, c) ELSE @,
                              !.raced = IF Racing(f) THEN @ \cup {f} ELSE @]
    /\ inst' = [inst EXCEPT !.alone = inst = Away]
    /\ UNCHANGED <<planted, live>>

AddForeign(f, x) ==
    LET c == IF file[f] = None THEN EmptyFile(f) ELSE file[f]
    IN  c.ok /\ x \notin c.foreign /\ Edited(f, [c EXCEPT !.foreign = @ \cup {x}])

Garble(f) == file[f] # None /\ file[f].ok /\ Edited(f, [file[f] EXCEPT !.ok = FALSE])
Mend(f)   == file[f] # None /\ ~file[f].ok /\ Edited(f, [file[f] EXCEPT !.ok = TRUE])

\* A hook copied into a second matcher group, or deleted.
Copied(f, s) ==
    /\ file[f] # None /\ file[f].ok /\ file[f].cmd[s] # None /\ file[f].cmd[s].n = 1
    /\ Edited(f, [file[f] EXCEPT !.cmd[s].n = 2])
Unbound(f, s) ==
    /\ file[f] # None /\ file[f].ok /\ file[f].cmd[s] # None
    /\ Edited(f, [file[f] EXCEPT !.cmd[s] = None, !.own = @ \ {s}])

\* Settings added to haunt's entry.
Tuned(f, s) ==
    /\ file[f] # None /\ file[f].ok /\ file[f].cmd[s] # None /\ s \notin file[f].own
    /\ Edited(f, [file[f] EXCEPT !.own = @ \cup {s}])

\* A value of another shape where a slot is expected, or all of them.
Misshapen(f, ss) ==
    /\ file[f] # None /\ file[f].ok
    /\ Edited(f, [file[f] EXCEPT !.cmd = [s \in Slots(f) |-> IF s \in ss THEN None ELSE @[s]],
                                 !.own = @ \ ss, !.odd = @ \cup ss])

Snagged(f, x) ==
    /\ file[f] # None /\ file[f].ok /\ x \notin file[f].snags
    /\ Edited(f, [file[f] EXCEPT !.snags = @ \cup {x}])

\* A temporary home is deleted with its launchers.
DropHome(h) ==
    /\ h \in live \ {Default} /\ inst.home # h
    /\ live' = live \ {h}
    /\ bhist' = [bhist EXCEPT !.bound = {}]
    /\ UNCHANGED <<file, planted, inst>>

-----------------------------------------------------------------------------
(* Installing. *)

\* host_install_refusal
AltHomeRefused(home, force) == home # Default /\ ~force

\* check_hook_command_safe and check_host_config_target, whose answers lie in
\* the environment: the adapters they refuse.
Refuses(h) == h \in inst.refusing

\* bind_launchers writes this home's wrappers before anything is asked.
Start(home, force, refusing, hosts) ==
    /\ inst = Away /\ bhist.installs < MaxInstall
    /\ live' = live \cup {home}
    /\ inst' = [Away EXCEPT !.pc = "preflight", !.home = home, !.force = force,
                            !.refusing = refusing, !.hosts = hosts]
    /\ bhist' = [bhist EXCEPT !.installs = @ + 1]
    /\ UNCHANGED <<file, planted>>

Both == <<"cursor", "claude">>

\* haunt install, with --allow-alt-home or without; bootstrap, which asks for
\* the refusal of the home before it binds hosts, and never forces.
Install(home, force, refusing) == Start(home, force, refusing, Both)

\* haunt cursor-install
CursorInstall(home, refusing) == Start(home, FALSE, refusing, <<"cursor">>)

End(how) ==
    /\ inst' = Away
    /\ bhist' = [bhist EXCEPT !.bound = IF how = "ok" /\ inst.alone THEN {<<inst.home, h>> : h \in inst.wrote} ELSE @,
                              !.refusedAfter = IF how = "refused" THEN @ \cup inst.wrote ELSE @]

\* Faulty variant of Preflighted: an adapter asks when its turn comes.
PreflightedFirst == {Head(inst.hosts)}

\* The adapters that are asked before any of them writes.
Preflighted == {inst.hosts[i] : i \in DOMAIN inst.hosts}

Preflight ==
    /\ inst.pc = "preflight"
    /\ IF AltHomeRefused(inst.home, inst.force) \/ \E h \in Preflighted : Refuses(h)
       THEN End("refused")
       ELSE inst' = [inst EXCEPT !.pc = "read"] /\ UNCHANGED bhist
    /\ UNCHANGED <<file, planted, live>>

\* install of one adapter: its own preflight once more, then read_json_object,
\* which raises HostConfigError on a file that does not parse.
Read ==
    LET f == <<Head(inst.hosts), inst.part>>
    IN  /\ inst.pc = "read"
        /\ IF Refuses(f[1]) THEN End("refused")
           ELSE IF file[f] # None /\ ~file[f].ok THEN End("malformed")
           ELSE /\ inst' = [inst EXCEPT !.pc = "replace",
                                        !.read = IF file[f] = None THEN EmptyFile(f) ELSE file[f]]
                /\ UNCHANGED bhist
        /\ UNCHANGED <<file, planted, live>>

\* Cursor knows its entries by one leaf, Claude's adapter by two.
CursorEntry(e) == e # None /\ e.leaf = "haunt-hook"
ClaudeEntry(e) == e # None /\ e.leaf \in {"haunt-hook", "haunt-hook-claude"}
McpEntry(e) == e # None

Ours(f, e) ==
    IF f[2] = "mcp" THEN McpEntry(e) ELSE IF f[1] = "cursor" THEN CursorEntry(e) ELSE ClaudeEntry(e)

\* Faulty variant of Pointed: an entry that is there is left as it is.
Kept(f, e, home) == IF Ours(f, e) THEN e ELSE Entry(home, LeafOf(f), 1)

\* Faulty variant of Pointed: one more entry beside those that are there.
Added(f, e, home) == Entry(home, LeafOf(f), IF Ours(f, e) THEN e.n + 1 ELSE 1)

\* Every entry found is pointed at this home's launcher; a missing one is added.
Pointed(f, e, home) == Entry(home, LeafOf(f), IF Ours(f, e) THEN e.n ELSE 1)

\* Faulty variant of Merged: a file without haunt entries is written anew.
Rewritten(f, c, home) ==
    [EmptyFile(f) EXCEPT !.cmd = [s \in Slots(f) |-> Pointed(f, c.cmd[s], home)]]

\* A hook's entry is changed where it stands; an MCP server's is written anew,
\* and whatever has another shape than expected gives way.
Merged(f, c, home) ==
    [c EXCEPT !.cmd = [s \in Slots(f) |-> Pointed(f, c.cmd[s], home)],
              !.own = IF f[2] = "mcp" THEN {} ELSE @,
              !.odd = {}]

\* write_json_atomic, of a file read some time ago.
Replace ==
    LET f == <<Head(inst.hosts), inst.part>>
    IN  /\ inst.pc = "replace"
        /\ file' = [file EXCEPT ![f] = Merged(f, inst.read, inst.home)]
        /\ inst' = [inst EXCEPT !.pc = IF inst.part = "hooks" THEN "read" ELSE "plant", !.part = "mcp",
                                !.read = None, !.wrote = @ \cup {f[1]}]
        /\ bhist' = [bhist EXCEPT !.bound = {b \in @ : b[2] # f[1]}]
        /\ UNCHANGED <<planted, live>>

\* _install_rule and install_host_skill, then the next adapter.
Plant ==
    /\ inst.pc = "plant"
    /\ planted' = planted \cup {Head(inst.hosts)}
    /\ IF Len(inst.hosts) = 1 THEN End("ok")
       ELSE /\ inst' = [inst EXCEPT !.pc = "read", !.part = "hooks", !.hosts = Tail(@)]
            /\ UNCHANGED bhist
    /\ UNCHANGED <<file, live>>

\* Killed, or out of space, between two writes.
Killed ==
    /\ inst.pc \in {"read", "replace", "plant"} /\ End("killed")
    /\ UNCHANGED <<file, planted, live>>

-----------------------------------------------------------------------------
(* doctor *)

\* hook_command_defect
Runs(e) == e.home \in live

\* Faulty variant of HookIssue: any haunt launcher will do.
HookIssueOfAnyLeaf(f, e, home) == ~Ours(f, e) \/ ~Runs(e)

\* hook_command_issues: the wrapper this host expects, there, and this home's.
HookIssue(f, e, home) == e.leaf # LeafOf(f) \/ ~Runs(e) \/ e.home # home

\* mcp_command_issues
McpIssue(f, e, home) == e.leaf # LeafOf(f) \/ e.home # home

Parses(f) == file[f] # None /\ file[f].ok

CursorHooks(home) ==
    LET f == <<"cursor", "hooks">>
    IN  Parses(f) /\ \A s \in Event : CursorEntry(file[f].cmd[s]) /\ ~HookIssue(f, file[f].cmd[s], home)

ClaudeHooks(home) ==
    LET f == <<"claude", "hooks">>
    IN  Parses(f) /\ \A s \in Event : ClaudeEntry(file[f].cmd[s]) /\ ~HookIssue(f, file[f].cmd[s], home)

McpPresent(h, home) ==
    LET f == <<h, "mcp">>
    IN  Parses(f) /\ McpEntry(file[f].cmd["server"]) /\ ~McpIssue(f, file[f].cmd["server"], home)

\* What the checks find in settings.json beside haunt's hooks.
Snags(h) == IF Parses(<<h, "hooks">>) THEN file[<<h, "hooks">>].snags ELSE {}

\* What an install of this home writes for a host.
Bindings(h, home) ==
    /\ IF h = "cursor" THEN CursorHooks(home) ELSE ClaudeHooks(home)
    /\ McpPresent(h, home) /\ h \in planted

\* _host_checks of one host, as diagnose adds them up.
HostChecks(h, home) == Bindings(h, home) /\ Snags(h) = {}

\* doctor: its launchers, the diagnosis, and a merge when a host check fails.
DoctorRepair(home, refusing) ==
    /\ \E h \in Host : ~HostChecks(h, home)
    /\ ~AltHomeRefused(home, FALSE)
    /\ Start(home, FALSE, refusing, Both)

\* The environment may make one of the adapters object.
Refusals(hosts) == {{}} \cup {{h} : h \in hosts}

\* Force is for another home than the default one, which needs none.
Forces(home) == {FALSE, home # Default}

BindingNext ==
    \/ \E f \in File : Garble(f) \/ Mend(f) \/ \E x \in Foreign : AddForeign(f, x)
    \/ \E h \in Host : \E s \in Event : Copied(<<h, "hooks">>, s) \/ Unbound(<<h, "hooks">>, s)
    \/ \E f \in File : \/ \E s \in Slots(f) : Tuned(f, s) \/ Misshapen(f, {s})
                      \/ Misshapen(f, Slots(f))
                      \/ \E x \in SnagsIn(f) : Snagged(f, x)
    \/ \E h \in Home : DropHome(h)
    \/ \E h \in Home, r \in Refusals(Host) : DoctorRepair(h, r) \/ \E force \in Forces(h) : Install(h, force, r)
    \/ \E h \in Home, r \in Refusals({"cursor"}) : CursorInstall(h, r)
    \/ Preflight \/ Read \/ Replace \/ Plant \/ Killed

-----------------------------------------------------------------------------
(* Properties *)

\* Shapes: entries are of known homes; an install that writes knows what it read.
BindingTypeOK ==
    /\ \A f \in File : file[f] # None => file[f] \in Contents(f)
    /\ planted \subseteq Host /\ live \subseteq Home
    /\ inst.pc = "replace" => inst.read # None

\* The preflight of install_all_hosts: whichever adapter refuses, no host's
\* configuration was written before the refusal.
RefusedWritesNothing == bhist.refusedAfter = {}

\* What a user or an editor put beside haunt's entries stays in a file through
\* every merge, kill and repair, unless the edit fell between an install's read
\* and its replacement.
OthersAreKept ==
    \A f \in File \ bhist.raced : file[f] # None => bhist.added[f] \subseteq Beside(f, file[f])

\* "Do not clobber others" (_merge_hooks_json, _merge_mcp_json) of everything
\* they have in the file.
NothingIsClobbered ==
    [][\A f \in File \ bhist.raced :
          inst.pc = "replace" /\ file'[f] # file[f] /\ file[f] # None =>
              Claimed(f, file[f]) \subseteq Claimed(f, file'[f])]_bvars

\* install and doctor agree, whatever was bound before: of a host that an
\* install bound, and nobody touched since, the doctor of that home reports
\* nothing but the snags of its settings.json, which no install removes.
BoundMeansHealthy ==
    \A b \in bhist.bound : HostChecks(b[2], b[1]) \/ (Snags(b[2]) # {} /\ Bindings(b[2], b[1]))

\* The same without the exception.
BoundIsHealthy == \A b \in bhist.bound : HostChecks(b[2], b[1])
=============================================================================
