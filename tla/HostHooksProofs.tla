-------------------------- MODULE HostHooksProofs --------------------------
(***************************************************************************)
(* Proofs about HookCapture, HostBinding and HostHooks for every number of  *)
(* homes, events, foreign entries, calls, hook processes and bounds.        *)
(*                                                                         *)
(* Capture: a key is looked up again in the INSERT, so rows with one key    *)
(* are one row; every answer without an INSERT is one of a row with the     *)
(* call's key.  Binding: an install that nobody disturbs has, at each of    *)
(* its steps, bound the hosts it is done with and the files it has written  *)
(* of the current one.  A file it has read still has what others put        *)
(* beside haunt's entries, unless it was edited since.                      *)
(***************************************************************************)
EXTENDS HostHooks, TLAPS

-----------------------------------------------------------------------------
(* Capture.                                                                 *)

Jobs == [call : Call, pc : {"start", "insert"}]

CaptureInv ==
    /\ job \in [Slot -> Jobs \cup {Nil}]
    /\ chist \in [handled : SUBSET Call, fails : Nat]
    /\ \A r \in rows : r.call \in Call /\ r.key = KeyOf(r.call) /\ ~Skipped(r.call)
    /\ \A q, r \in rows : q.key = r.key /\ r.key # Nil => q = r
    /\ \A j \in Slot : job[j] # Nil /\ job[j].pc = "insert" => ~Skipped(job[j].call)
    /\ NothingIsLost

LEMMA CaptureStarts == ASSUME CaptureInit PROVE CaptureInv
  BY DEF CaptureInit, CaptureInv, NothingIsLost

\* The key of a call is nothing exactly when the host gave no identifiers.
LEMMA KeysOfCalls ==
    ASSUME NEW c \in Call
    PROVE  /\ KeyOf(c) # Nil <=> c.ids # {}
           /\ \A b \in Call : KeyOf(b) = KeyOf(c) /\ c.ids # {} => SameToHost(b, c)
<1>1. c.ids # {} => KeyOf(c) = <<c.host, c.kind, c.ids>> /\ KeyOf(c) # Nil
  BY NilIsNothing DEF KeyOf
<1>2. c.ids = {} => KeyOf(c) = Nil
  BY DEF KeyOf
<1>3. ASSUME NEW b \in Call, KeyOf(b) = KeyOf(c), c.ids # {} PROVE SameToHost(b, c)
  <2>1. b.ids # {}
    BY <1>1, <1>3 DEF KeyOf
  <2>2. <<b.host, b.kind, b.ids>> = <<c.host, c.kind, c.ids>>
    BY <1>3, <2>1 DEF KeyOf
  <2>3. QED BY <1>3, <2>2 DEF SameToHost
<1>4. QED BY <1>1, <1>2, <1>3

\* What is answered for from the record is on record.
LEMMA AnsweredKeeps ==
    ASSUME CaptureInv, NEW j \in Slot, job[j] # Nil, Answered(j, WithKey(job[j].call))
    PROVE  CaptureInv'
<1>1. PICK c : c = job[j].call
  OBVIOUS
<1>2. c \in Call /\ WithKey(c) # {} /\ job' = [job EXCEPT ![j] = Nil] /\ rows' = rows
      /\ chist' = [chist EXCEPT !.handled = @ \cup {c}]
  BY <1>1 DEF Answered, End1, CaptureInv, Jobs
<1>3. PICK r \in rows : r.key = KeyOf(c) /\ r.key # Nil
  BY <1>2 DEF WithKey
<1>4. SameToHost(r.call, c)
  BY <1>2, <1>3, KeysOfCalls DEF CaptureInv
<1>5. chist' \in [handled : SUBSET Call, fails : Nat] /\ chist'.handled = chist.handled \cup {c}
  BY <1>2 DEF CaptureInv
<1>6. NothingIsLost'
  BY <1>2, <1>4, <1>5 DEF CaptureInv, NothingIsLost
<1>7. job' \in [Slot -> Jobs \cup {Nil}] /\ \A i \in Slot : job'[i] # Nil => job'[i] = job[i]
  BY <1>2 DEF CaptureInv
<1>8. \A r1 \in rows' : r1.call \in Call /\ r1.key = KeyOf(r1.call) /\ ~Skipped(r1.call)
  BY <1>2 DEF CaptureInv
<1>9. QED BY <1>2, <1>5, <1>6, <1>7, <1>8 DEF CaptureInv

LEMMA CaptureKeeps == ASSUME CaptureInv, CaptureNext PROVE CaptureInv'
<1>1. PICK j \in Slot : Skip(j) \/ Lookup(j) \/ Insert(j) \/ Fail(j)
  BY DEF CaptureNext
<1>2. CASE Answered(j, WithKey(job[j].call)) /\ job[j] # Nil
  BY <1>2, AnsweredKeeps
<1>3. CASE job' = [job EXCEPT ![j] = Nil] /\ rows' = rows /\ chist' \in [handled : SUBSET Call, fails : Nat]
           /\ chist'.handled = chist.handled
  <2>1. job' \in [Slot -> Jobs \cup {Nil}] /\ \A i \in Slot : job'[i] # Nil => job'[i] = job[i]
    BY <1>3 DEF CaptureInv
  <2>2. QED BY <1>3, <2>1 DEF CaptureInv, NothingIsLost
<1>4. CASE Skip(j)
  <2>1. chist' = chist /\ job' = [job EXCEPT ![j] = Nil] /\ rows' = rows
    BY <1>4 DEF Skip, End1
  <2>2. QED BY <1>3, <2>1 DEF CaptureInv
<1>5. CASE Fail(j)
  <2>1. chist' = [chist EXCEPT !.fails = @ + 1] /\ job' = [job EXCEPT ![j] = Nil] /\ rows' = rows
    BY <1>5 DEF Fail, End1
  <2>2. chist' \in [handled : SUBSET Call, fails : Nat] /\ chist'.handled = chist.handled
    BY <2>1 DEF CaptureInv
  <2>3. QED BY <1>3, <2>1, <2>2
<1>6. CASE Lookup(j) /\ ~Answered(j, WithKey(job[j].call))
  <2>1. /\ job[j] # Nil /\ ~Skipped(job[j].call) /\ job' = [job EXCEPT ![j].pc = "insert"]
        /\ rows' = rows /\ chist' = chist
    BY <1>6 DEF Lookup
  <2>2. /\ job' \in [Slot -> Jobs \cup {Nil}] /\ job'[j].call = job[j].call
        /\ \A i \in Slot : i # j => job'[i] = job[i]
    BY <2>1 DEF CaptureInv, Jobs
  <2>3. QED BY <2>1, <2>2 DEF CaptureInv, NothingIsLost
<1>7. CASE Insert(j) /\ ~Answered(j, WithKey(job[j].call))
  <2>1. PICK c, n : c = job[j].call /\ n = RowOf(job[j].call)
    OBVIOUS
  <2>2. /\ job[j] # Nil /\ job[j].pc = "insert" /\ WithKey(c) = {}
        /\ rows' = rows \cup {n} /\ chist' = [chist EXCEPT !.handled = @ \cup {c}]
        /\ job' = [job EXCEPT ![j] = Nil]
    BY <1>7, <2>1 DEF Insert, Conflicting, End1
  <2>3. c \in Call /\ ~Skipped(c)
    BY <2>1, <2>2 DEF CaptureInv, Jobs
  <2>4. n.call = c /\ n.key = KeyOf(c)
    BY <2>1 DEF RowOf
  <2>5. chist' \in [handled : SUBSET Call, fails : Nat] /\ chist'.handled = chist.handled \cup {c}
    BY <2>2, <2>3 DEF CaptureInv
  <2>6. NothingIsLost'
    BY <2>2, <2>4, <2>5 DEF CaptureInv, NothingIsLost
  <2>7. \A r \in rows' : r.call \in Call /\ r.key = KeyOf(r.call) /\ ~Skipped(r.call)
    BY <2>2, <2>3, <2>4 DEF CaptureInv
  <2>8. \A r \in rows : r.key = n.key => n.key = Nil
    BY <2>2, <2>4 DEF WithKey
  <2>9. \A q, r \in rows' : q.key = r.key /\ r.key # Nil => q = r
    BY <2>2, <2>8 DEF CaptureInv
  <2>10. job' \in [Slot -> Jobs \cup {Nil}] /\ \A i \in Slot : job'[i] # Nil => job'[i] = job[i]
    BY <2>2 DEF CaptureInv
  <2>11. \A i \in Slot : job'[i] # Nil /\ job'[i].pc = "insert" => ~Skipped(job'[i].call)
    BY <2>10 DEF CaptureInv
  <2>12. QED BY <2>5, <2>6, <2>7, <2>9, <2>10, <2>11 DEF CaptureInv
<1>8. job[j] # Nil \/ Skip(j) \/ Fail(j)
  BY <1>1 DEF Lookup, Insert
<1>9. QED BY <1>1, <1>2, <1>4, <1>5, <1>6, <1>7, <1>8

\* A call's deliveries start without a record.
LEMMA DeliverKeeps == ASSUME CaptureInv, NEW c \in Call, NEW n, Deliver(c, n) PROVE CaptureInv'
<1>1. PICK js \in SUBSET {j \in Slot : job[j] = Nil} :
        job' = [j \in Slot |-> IF j \in js THEN [call |-> c, pc |-> "start"] ELSE job[j]]
  BY DEF Deliver
<1>2. rows' = rows /\ chist' = chist
  BY DEF Deliver
<1>3. \A j \in Slot : job'[j] = [call |-> c, pc |-> "start"] \/ job'[j] = job[j]
  BY <1>1
<1>4. job' \in [Slot -> Jobs \cup {Nil}]
  BY <1>1 DEF CaptureInv, Jobs
<1>5. \A j \in Slot : job'[j] # Nil /\ job'[j].pc = "insert" => ~Skipped(job'[j].call)
  BY <1>3 DEF CaptureInv
<1>6. QED BY <1>2, <1>4, <1>5 DEF CaptureInv, NothingIsLost

-----------------------------------------------------------------------------
(* Binding.                                                                 *)

Steps == {"away", "preflight", "read", "replace", "plant"}
HostLists == {<<>>, <<"cursor">>, <<"claude">>, <<"cursor", "claude">>}
AllContents == {None} \cup UNION {Contents(f) : f \in File}
InstOK == [pc : Steps, home : Home \cup {None}, force : BOOLEAN, refusing : SUBSET Host,
           hosts : HostLists, part : Part, read : AllContents, wrote : SUBSET Host, alone : BOOLEAN]
\* All that others may keep beside haunt's entries.
Theirs == ({"entry"} \X Foreign) \cup ({"settings"} \X UNION {Slots(f) : f \in File})

BHistOK == [edits : Nat, installs : Nat, added : [File -> SUBSET Theirs], raced : SUBSET File,
            bound : SUBSET (Home \X Host), refusedAfter : SUBSET Host]
BindingShapes ==
    /\ file \in [File -> AllContents] /\ \A f \in File : file[f] = None \/ file[f] \in Contents(f)
    /\ planted \subseteq Host /\ live \subseteq Home
    /\ inst \in InstOK /\ bhist \in BHistOK

\* Where the running install is.
Current == Head(inst.hosts)
Now == <<Current, inst.part>>
HostsIn(hs) == {hs[i] : i \in DOMAIN hs}
Underway == inst.pc # "away" =>
    /\ inst.home \in Home /\ inst.home \in live /\ inst.hosts # <<>>
    /\ inst.pc = "preflight" => inst.wrote = {} /\ inst.part = "hooks"
    /\ inst.pc # "preflight" => HostsIn(inst.hosts) \cap inst.refusing = {}
    /\ inst.pc = "replace" => inst.read \in Contents(Now) /\ inst.read.ok
    /\ inst.pc \in {"read", "replace"} => (Current \in inst.wrote <=> inst.part = "mcp")
    /\ inst.pc = "plant" => Current \in inst.wrote
    /\ inst.hosts = Both => inst.wrote \subseteq {"cursor"}

\* What others put into a file is in it, and in what an install has read of it.
Others ==
    /\ \A f \in File : /\ file[f] = None => bhist.added[f] = {}
                       /\ f \notin bhist.raced /\ file[f] # None => bhist.added[f] \subseteq Beside(f, file[f])
    /\ inst.pc = "replace" /\ Now \notin bhist.raced => bhist.added[Now] \subseteq Beside(Now, inst.read)

HooksOf(h, home) == IF h = "cursor" THEN CursorHooks(home) ELSE ClaudeHooks(home)

\* What an undisturbed install is done with is bound to its home.
Healthy ==
    inst.pc # "away" /\ inst.alone =>
        \A h \in inst.wrote :
            IF h # Current THEN Bindings(h, inst.home)
            ELSE HooksOf(h, inst.home) /\ (inst.pc = "plant" => McpPresent(h, inst.home))

\* The hosts an install reported as bound are.
BoundAreBound == \A b \in bhist.bound : Bindings(b[2], b[1])

BindingInv == /\ BindingShapes /\ Underway /\ Others /\ Healthy
              /\ RefusedWritesNothing /\ BoundAreBound

LEMMA ListsOfHosts ==
    ASSUME NEW hs \in HostLists, hs # <<>>
    PROVE  /\ Head(hs) \in Host /\ Head(hs) \in HostsIn(hs) /\ HostsIn(hs) \subseteq Host
           /\ Len(hs) = 1 \/ hs = Both
           /\ hs = Both => /\ Len(hs) # 1 /\ Head(hs) = "cursor" /\ Tail(hs) = <<"claude">>
                           /\ Head(Tail(hs)) = "claude" /\ HostsIn(Tail(hs)) \subseteq HostsIn(hs)
                           /\ Tail(hs) # <<>> /\ Tail(hs) # Both /\ Tail(hs) \in HostLists
<1>1. CASE hs = <<"cursor">>
  BY <1>1 DEF Host, HostsIn, Both
<1>2. CASE hs = <<"claude">>
  BY <1>2 DEF Host, HostsIn, Both
<1>3. CASE hs = <<"cursor", "claude">>
  <2>1. /\ Head(hs) = "cursor" /\ Len(hs) = 2 /\ Tail(hs) = <<"claude">>
        /\ hs[1] = "cursor" /\ hs[2] = "claude" /\ DOMAIN hs = {1, 2}
    BY <1>3
  <2>2. HostsIn(hs) = {"cursor", "claude"}
    BY <2>1 DEF HostsIn
  <2>3. HostsIn(<<"claude">>) = {"claude"} /\ Head(<<"claude">>) = "claude" /\ Len(<<"claude">>) = 1
    BY DEF HostsIn
  <2>4. <<"claude">> # <<>> /\ <<"claude">> # Both
    BY <2>3, <2>1, <1>3 DEF Both
  <2>5. QED BY <1>3, <2>1, <2>2, <2>3, <2>4 DEF Host, Both, HostLists
<1>4. QED BY <1>1, <1>2, <1>3 DEF HostLists

\* What one host's checks look at.
LEMMA ChecksStay ==
    ASSUME NEW h \in Host, NEW home, file'[<<h, "hooks">>] = file[<<h, "hooks">>],
           home \in live => home \in live'
    PROVE  /\ HooksOf(h, home) => HooksOf(h, home)'
           /\ file'[<<h, "mcp">>] = file[<<h, "mcp">>] => (McpPresent(h, home) => McpPresent(h, home)')
           /\ /\ file'[<<h, "mcp">>] = file[<<h, "mcp">>] /\ planted \subseteq planted'
              /\ Bindings(h, home)
              => Bindings(h, home)'
<1>1. HooksOf(h, home) => HooksOf(h, home)'
  BY DEF HooksOf, CursorHooks, ClaudeHooks, Parses, HookIssue, Runs, Host
<1>2. file'[<<h, "mcp">>] = file[<<h, "mcp">>] => (McpPresent(h, home) => McpPresent(h, home)')
  BY DEF McpPresent, Parses
<1>3. Bindings(h, home) <=> HooksOf(h, home) /\ McpPresent(h, home) /\ h \in planted
  BY DEF Bindings, HooksOf
<1>4. Bindings(h, home)' <=> HooksOf(h, home)' /\ McpPresent(h, home)' /\ h \in planted'
  BY DEF Bindings, HooksOf
<1>5. QED BY <1>1, <1>2, <1>3, <1>4

\* Hosts that are bound stay healthy while nobody writes their files.
LEMMA BoundStay ==
    ASSUME BindingShapes, BoundAreBound, bhist'.bound \subseteq bhist.bound,
           \A b \in bhist'.bound : \A p \in Part : file'[<<b[2], p>>] = file[<<b[2], p>>],
           planted \subseteq planted', live \subseteq live'
    PROVE  BoundAreBound'
<1>1. SUFFICES ASSUME NEW b \in bhist'.bound PROVE Bindings(b[2], b[1])'
  BY DEF BoundAreBound
<1>2. PICK h, g : h = b[2] /\ g = b[1]
  OBVIOUS
<1>3. h \in Host /\ Bindings(h, g)
  BY <1>2 DEF BindingShapes, BHistOK, BoundAreBound
<1>4. file'[<<h, "hooks">>] = file[<<h, "hooks">>] /\ file'[<<h, "mcp">>] = file[<<h, "mcp">>]
  BY <1>2 DEF Part
<1>5. Bindings(h, g)'
  BY <1>3, <1>4, ChecksStay
<1>6. QED BY <1>2, <1>5

\* What an undisturbed install is done with stays so while it does not write.
LEMMA HealthyStay ==
    ASSUME BindingShapes, Healthy, inst.pc # "away", inst'.pc # "away", inst'.alone => inst.alone,
           inst'.home = inst.home, inst'.hosts = inst.hosts, inst'.wrote = inst.wrote,
           inst'.pc = "plant" => inst.pc = "plant",
           file' = file, planted \subseteq planted', live \subseteq live'
    PROVE  Healthy'
<1>1. PICK home, cur, w : home = inst.home /\ cur = Current /\ w = inst.wrote
  OBVIOUS
<1>2. w \subseteq Host
  BY <1>1 DEF BindingShapes, InstOK
<1>3. Current' = cur /\ inst'.home = home /\ inst'.wrote = w
  BY <1>1 DEF Current
<1>4. ASSUME inst'.alone, NEW g \in w
      PROVE  IF g # cur THEN Bindings(g, home)'
             ELSE HooksOf(g, home)' /\ (inst'.pc = "plant" => McpPresent(g, home)')
  <2>1. IF g # cur THEN Bindings(g, home)
        ELSE HooksOf(g, home) /\ (inst.pc = "plant" => McpPresent(g, home))
    BY <1>1, <1>4 DEF Healthy
  <2>2. QED BY <1>2, <1>4, <2>1, ChecksStay
<1>5. QED BY <1>3, <1>4 DEF Healthy

LEMMA FilesAre ==
    /\ \A h \in Host : <<h, "hooks">> \in File /\ <<h, "mcp">> \in File
    /\ \A f \in File : f = <<f[1], f[2]>> /\ f[1] \in Host /\ f[2] \in Part
    /\ \A f \in File : EmptyFile(f) \in Contents(f) /\ EmptyFile(f).ok /\ Beside(f, EmptyFile(f)) = {}
    /\ \A f \in File : LeafOf(f) \in {"haunt-mcp", "haunt-hook", "haunt-hook-claude"}
    /\ \A f \in File : None \notin Contents(f) /\ Contents(f) \subseteq AllContents
    /\ None \in AllContents
<1>1. \A f \in File : EmptyFile(f) \in Contents(f) /\ EmptyFile(f).ok
  BY DEF EmptyFile, Contents
<1>2. \A f \in File : Beside(f, EmptyFile(f)) = {}
  BY DEF EmptyFile, Beside
<1>3. QED BY <1>1, <1>2, NoneIsNothing DEF File, Part, LeafOf, AllContents

\* What others keep beside haunt's entries depends on two fields alone.
LEMMA BesideIs ==
    ASSUME NEW f \in File, NEW c \in Contents(f)
    PROVE  /\ Beside(f, c) \subseteq Theirs
           /\ \A d \in Contents(f) : d.foreign = c.foreign /\ d.own = c.own => Beside(f, d) = Beside(f, c)
<1>1. c.foreign \subseteq Foreign /\ c.own \subseteq Slots(f)
  BY DEF Contents
<1>2. QED BY <1>1 DEF Beside, Theirs

LEMMA AwayIs ==
    /\ Away \in InstOK /\ Away.pc = "away" /\ Away.home = None /\ Away.part = "hooks" /\ Away.read = None
    /\ Away.wrote = {} /\ Away.alone
  BY FilesAre DEF Away, InstOK, Steps, HostLists, Part

LEMMA BindingStarts == ASSUME BindingInit PROVE BindingInv
<1>1. inst = Away
  BY DEF BindingInit
<1>2. inst \in InstOK /\ inst.pc = "away"
  BY <1>1, AwayIs
<1>3. bhist = [edits |-> 0, installs |-> 0, added |-> [f \in File |-> {}], raced |-> {},
               bound |-> {}, refusedAfter |-> {}]
  BY DEF BindingInit
<1>4. bhist \in BHistOK /\ bhist.bound = {} /\ bhist.refusedAfter = {} /\ \A f \in File : bhist.added[f] = {}
  BY <1>3 DEF BHistOK
<1>5. \A f \in File : OldClaude(f) \in Contents(f)
  <2>1. SUFFICES ASSUME NEW f \in File PROVE OldClaude(f) \in Contents(f)
    OBVIOUS
  <2>2. PICK e : e = Entry(Default, IF f[2] = "mcp" THEN "haunt-mcp" ELSE "haunt-hook", 1)
    OBVIOUS
  <2>3. e \in Entries
    BY <2>2, DefaultIsAHome DEF Entry, Entries
  <2>4. PICK c : c = [s \in Slots(f) |-> e]
    OBVIOUS
  <2>5. c \in [Slots(f) -> Entries \cup {None}]
    BY <2>3, <2>4
  <2>6. OldClaude(f) = [EmptyFile(f) EXCEPT !.cmd = c]
    BY <2>2, <2>4 DEF OldClaude
  <2>7. EmptyFile(f) \in Contents(f)
    BY FilesAre
  <2>8. QED BY <2>5, <2>6, <2>7 DEF Contents
<1>6. file \in [File -> AllContents] /\ (\A f \in File : file[f] = None \/ file[f] \in Contents(f))
      /\ planted \subseteq Host /\ live \subseteq Home
  <2>1. CASE file = [f \in File |-> None] /\ planted = {} /\ live = {}
    BY <2>1, FilesAre
  <2>2. CASE /\ file = [f \in File |-> IF f[1] = "claude" THEN OldClaude(f) ELSE None]
             /\ planted = {"claude"} /\ live = {Default}
    BY <1>5, <2>2, FilesAre, DefaultIsAHome DEF Host
  <2>3. QED BY <2>1, <2>2 DEF BindingInit
<1>7. QED BY <1>2, <1>4, <1>6 DEF BindingInv, BindingShapes, Underway, Others, Healthy,
             RefusedWritesNothing, BoundAreBound

-----------------------------------------------------------------------------
(* Users and editors.                                                       *)

\* An edit ends what is said of undisturbed installs and bound hosts; what it
\* does to a file that was read and is about to be replaced is a race.
LEMMA EditedKeeps ==
    ASSUME BindingInv, NEW f \in File, NEW c \in Contents(f), Edited(f, c),
           c.ok \/ (file[f] # None /\ Beside(f, c) = Beside(f, file[f]))
    PROVE  BindingInv'
<1>1. /\ inst' = [inst EXCEPT !.alone = inst = Away] /\ file' = [file EXCEPT ![f] = c]
      /\ planted' = planted /\ live' = live
  BY DEF Edited
<1>2. PICK b \in BOOLEAN : b <=> inst = Away
  OBVIOUS
<1>3. inst' \in InstOK /\ (inst'.alone <=> inst = Away) /\ inst \in InstOK
  <2>1. inst' = [inst EXCEPT !.alone = b]
    BY <1>1, <1>2
  <2>2. QED BY <1>2, <2>1 DEF BindingInv, BindingShapes, InstOK
<1>4. /\ inst'.pc = inst.pc /\ inst'.home = inst.home /\ inst'.refusing = inst.refusing
      /\ inst'.hosts = inst.hosts /\ inst'.part = inst.part /\ inst'.read = inst.read
      /\ inst'.wrote = inst.wrote
  BY <1>1 DEF BindingInv, BindingShapes, InstOK
<1>5. PICK a, rc : /\ a = IF c.ok THEN Beside(f, c) ELSE bhist.added[f]
                   /\ rc = IF Racing(f) THEN bhist.raced \cup {f} ELSE bhist.raced
  OBVIOUS
<1>6. bhist' = [bhist EXCEPT !.edits = @ + 1, !.bound = {}, !.added[f] = a, !.raced = rc]
  BY <1>5 DEF Edited
<1>7. bhist \in BHistOK /\ a \subseteq Theirs /\ rc \subseteq File
  BY <1>5, BesideIs DEF BindingInv, BindingShapes, BHistOK
<1>8. /\ bhist' \in BHistOK /\ bhist'.bound = {} /\ bhist'.refusedAfter = bhist.refusedAfter
      /\ bhist'.raced = rc /\ bhist'.added[f] = a
      /\ \A g \in File : g # f => bhist'.added[g] = bhist.added[g]
  <2>1. PICK ad : ad = [bhist.added EXCEPT ![f] = a]
    OBVIOUS
  <2>2. /\ ad \in [File -> SUBSET Theirs] /\ ad[f] = a
        /\ \A g \in File : g # f => ad[g] = bhist.added[g]
    BY <1>7, <2>1 DEF BHistOK
  <2>3. bhist' = [bhist EXCEPT !.edits = @ + 1, !.bound = {}, !.added = ad, !.raced = rc]
    BY <1>6, <2>1
  <2>4. PICK n, bd : n = bhist.edits + 1 /\ bd = {}
    OBVIOUS
  <2>5. n \in Nat /\ bd \subseteq (Home \X Host) /\ bhist \in BHistOK
    BY <1>7, <2>4 DEF BHistOK
  <2>6. bhist' = [bhist EXCEPT !.edits = n, !.bound = bd, !.added = ad, !.raced = rc]
    BY <2>3, <2>4
  <2>7. bhist' \in BHistOK
    BY <1>7, <2>2, <2>5, <2>6 DEF BHistOK
  <2>8. /\ bhist'.bound = bd /\ bhist'.refusedAfter = bhist.refusedAfter
        /\ bhist'.raced = rc /\ bhist'.added = ad
    BY <2>5, <2>6 DEF BHistOK
  <2>9. QED BY <2>2, <2>4, <2>7, <2>8
<1>9. /\ file' \in [File -> AllContents] /\ file'[f] = c
      /\ \A g \in File : g # f => file'[g] = file[g]
      /\ \A g \in File : file'[g] = None \/ file'[g] \in Contents(g)
      /\ c # None
  BY <1>1, FilesAre DEF BindingInv, BindingShapes
<1>10. BindingShapes'
  BY <1>1, <1>3, <1>8, <1>9 DEF BindingInv, BindingShapes
<1>11. Now' = Now /\ Current' = Current
  BY <1>4 DEF Now, Current
<1>12. Underway'
  BY <1>1, <1>4, <1>11 DEF BindingInv, Underway
<1>13. Others'
  <2>1. ASSUME NEW g \in File
        PROVE  /\ file'[g] = None => bhist'.added[g] = {}
               /\ g \notin bhist'.raced /\ file'[g] # None => bhist'.added[g] \subseteq Beside(g, file'[g])
    <3>1. CASE g # f
      BY <1>5, <1>8, <1>9, <3>1 DEF BindingInv, Others
    <3>2. CASE g = f
      BY <1>5, <1>8, <1>9, <3>2 DEF BindingInv, Others
    <3>3. QED BY <3>1, <3>2
  <2>2. ASSUME inst.pc = "replace", Now \notin bhist'.raced
        PROVE  bhist'.added[Now] \subseteq Beside(Now, inst.read)
    <3>1. Now # f /\ Now \notin bhist.raced
      BY <1>5, <1>8, <2>2 DEF Racing, Now, Current
    <3>2. Now \in File
      <4>1. inst.hosts \in HostLists /\ inst.hosts # <<>> /\ inst.part \in Part
        BY <2>2 DEF BindingInv, BindingShapes, InstOK, Underway
      <4>2. QED BY <4>1, ListsOfHosts DEF Now, Current, File
    <3>3. QED BY <1>8, <2>2, <3>1, <3>2 DEF BindingInv, Others
  <2>3. QED BY <1>4, <1>11, <2>1, <2>2 DEF Others
<1>14. Healthy'
  <2>1. inst = Away => inst.pc = "away"
    BY AwayIs
  <2>2. QED BY <1>3, <1>4, <2>1 DEF Healthy
<1>15. QED BY <1>8, <1>10, <1>12, <1>13, <1>14 DEF BindingInv, RefusedWritesNothing, BoundAreBound

LEMMA UsersKeep ==
    ASSUME BindingInv, NEW f \in File,
           \/ Garble(f) \/ Mend(f) \/ \E x \in Foreign : AddForeign(f, x)
           \/ \E s \in Slots(f) : Copied(f, s) \/ Unbound(f, s) \/ Tuned(f, s)
           \/ \E ss \in SUBSET Slots(f) : Misshapen(f, ss)
           \/ \E x \in SnagsIn(f) : Snagged(f, x)
    PROVE  BindingInv'
<1>1. PICK d : d = IF file[f] = None THEN EmptyFile(f) ELSE file[f]
  OBVIOUS
<1>2. d \in Contents(f) /\ (file[f] # None => d = file[f])
  BY <1>1, FilesAre DEF BindingInv, BindingShapes
<1>3. CASE Garble(f)
  <2>1. PICK c : c = [d EXCEPT !.ok = FALSE]
    OBVIOUS
  <2>2. c \in Contents(f) /\ Beside(f, c) = Beside(f, d)
    BY <1>2, <2>1, BesideIs DEF Contents
  <2>3. file[f] # None /\ Edited(f, c)
    BY <1>1, <1>3, <2>1 DEF Garble
  <2>4. QED BY <1>2, <2>2, <2>3, EditedKeeps
<1>4. CASE Mend(f)
  <2>1. PICK c : c = [d EXCEPT !.ok = TRUE]
    OBVIOUS
  <2>2. c \in Contents(f) /\ Beside(f, c) = Beside(f, d)
    BY <1>2, <2>1, BesideIs DEF Contents
  <2>3. file[f] # None /\ Edited(f, c)
    BY <1>1, <1>4, <2>1 DEF Mend
  <2>4. QED BY <1>2, <2>2, <2>3, EditedKeeps
<1>5. CASE \E x \in Foreign : AddForeign(f, x)
  <2>1. PICK x \in Foreign : AddForeign(f, x)
    BY <1>5
  <2>2. PICK c, fs : fs = d.foreign \cup {x} /\ c = [d EXCEPT !.foreign = fs]
    OBVIOUS
  <2>3. c \in Contents(f) /\ c.ok = d.ok
    BY <1>2, <2>2 DEF Contents
  <2>4. d.ok /\ Edited(f, c)
    BY <1>1, <2>1, <2>2 DEF AddForeign
  <2>5. QED BY <2>3, <2>4, EditedKeeps
<1>6. ASSUME NEW m \in [Slots(f) -> Entries \cup {None}], NEW o \in SUBSET Slots(f),
             NEW dd \in SUBSET Slots(f), NEW sn \in SUBSET SnagsIn(f), file[f] # None, d.ok,
             NEW c, c = [d EXCEPT !.cmd = m, !.own = o, !.odd = dd, !.snags = sn], Edited(f, c)
      PROVE  BindingInv'
  <2>1. c \in Contents(f) /\ c.ok
    BY <1>2, <1>6 DEF Contents
  <2>2. QED BY <1>6, <2>1, EditedKeeps
<1>7. /\ d.cmd \in [Slots(f) -> Entries \cup {None}]
      /\ d.own \in SUBSET Slots(f) /\ d.odd \in SUBSET Slots(f) /\ d.snags \in SUBSET SnagsIn(f)
      /\ d = [ok |-> d.ok, foreign |-> d.foreign, cmd |-> d.cmd, own |-> d.own, odd |-> d.odd,
              snags |-> d.snags]
  BY <1>2 DEF Contents
<1>8. CASE \E s \in Slots(f) : Copied(f, s)
  <2>1. PICK s \in Slots(f) : Copied(f, s)
    BY <1>8
  <2>2. file[f] # None /\ d.ok /\ d.cmd[s] \in Entries
    BY <1>2, <1>7, <2>1 DEF Copied
  <2>3. PICK m : m = [d.cmd EXCEPT ![s] = [d.cmd[s] EXCEPT !.n = 2]]
    OBVIOUS
  <2>4. [d.cmd[s] EXCEPT !.n = 2] \in Entries
    BY <2>2 DEF Entries
  <2>5. m \in [Slots(f) -> Entries \cup {None}]
    BY <1>7, <2>3, <2>4
  <2>6. PICK c : c = [d EXCEPT !.cmd[s].n = 2]
    OBVIOUS
  <2>7. c = [d EXCEPT !.cmd = m, !.own = d.own, !.odd = d.odd, !.snags = d.snags]
    BY <1>7, <2>3, <2>6
  <2>8. Edited(f, c)
    BY <1>2, <2>1, <2>2, <2>6 DEF Copied
  <2>9. QED BY <1>6, <1>7, <2>2, <2>5, <2>7, <2>8
<1>9. CASE \E s \in Slots(f) : Unbound(f, s)
  <2>1. PICK s \in Slots(f) : Unbound(f, s)
    BY <1>9
  <2>2. PICK m, o : m = [d.cmd EXCEPT ![s] = None] /\ o = d.own \ {s}
    OBVIOUS
  <2>3. m \in [Slots(f) -> Entries \cup {None}] /\ o \in SUBSET Slots(f)
    BY <1>7, <2>2
  <2>4. PICK c : c = [d EXCEPT !.cmd[s] = None, !.own = @ \ {s}]
    OBVIOUS
  <2>5. c = [d EXCEPT !.cmd = m, !.own = o, !.odd = d.odd, !.snags = d.snags]
    BY <1>7, <2>2, <2>4
  <2>6. file[f] # None /\ d.ok /\ Edited(f, c)
    BY <1>2, <2>1, <2>4 DEF Unbound
  <2>7. QED BY <1>6, <1>7, <2>3, <2>5, <2>6
<1>10. CASE \E s \in Slots(f) : Tuned(f, s)
  <2>1. PICK s \in Slots(f) : Tuned(f, s)
    BY <1>10
  <2>2. PICK o : o = d.own \cup {s}
    OBVIOUS
  <2>3. o \in SUBSET Slots(f)
    BY <1>7, <2>2
  <2>4. PICK c : c = [d EXCEPT !.own = @ \cup {s}]
    OBVIOUS
  <2>5. c = [d EXCEPT !.cmd = d.cmd, !.own = o, !.odd = d.odd, !.snags = d.snags]
    BY <1>7, <2>2, <2>4
  <2>6. file[f] # None /\ d.ok /\ Edited(f, c)
    BY <1>2, <2>1, <2>4 DEF Tuned
  <2>7. QED BY <1>6, <1>7, <2>3, <2>5, <2>6
<1>11. CASE \E ss \in SUBSET Slots(f) : Misshapen(f, ss)
  <2>1. PICK ss \in SUBSET Slots(f) : Misshapen(f, ss)
    BY <1>11
  <2>2. PICK m, o, dd : /\ m = [s \in Slots(f) |-> IF s \in ss THEN None ELSE d.cmd[s]]
                        /\ o = d.own \ ss /\ dd = d.odd \cup ss
    OBVIOUS
  <2>3. /\ m \in [Slots(f) -> Entries \cup {None}]
        /\ o \in SUBSET Slots(f) /\ dd \in SUBSET Slots(f)
    BY <1>7, <2>2
  <2>4. PICK c : c = [d EXCEPT !.cmd = m, !.own = o, !.odd = dd]
    OBVIOUS
  <2>5. file[f] # None /\ d.ok /\ Edited(f, c)
    BY <1>2, <2>1, <2>2, <2>4 DEF Misshapen
  <2>6. c = [d EXCEPT !.cmd = m, !.own = o, !.odd = dd, !.snags = d.snags]
    BY <1>7, <2>4
  <2>7. QED BY <1>6, <1>7, <2>3, <2>5, <2>6
<1>12. CASE \E x \in SnagsIn(f) : Snagged(f, x)
  <2>1. PICK x \in SnagsIn(f) : Snagged(f, x)
    BY <1>12
  <2>2. PICK sn : sn = d.snags \cup {x}
    OBVIOUS
  <2>3. sn \in SUBSET SnagsIn(f)
    BY <1>7, <2>2
  <2>4. PICK c : c = [d EXCEPT !.snags = @ \cup {x}]
    OBVIOUS
  <2>5. c = [d EXCEPT !.cmd = d.cmd, !.own = d.own, !.odd = d.odd, !.snags = sn]
    BY <1>7, <2>2, <2>4
  <2>6. file[f] # None /\ d.ok /\ Edited(f, c)
    BY <1>2, <2>1, <2>4 DEF Snagged
  <2>7. QED BY <1>6, <1>7, <2>3, <2>5, <2>6
<1>13. QED BY <1>3, <1>4, <1>5, <1>8, <1>9, <1>10, <1>11, <1>12

\* A home in use is not dropped, and no host is bound to the one that is.
LEMMA DropKeeps == ASSUME BindingInv, NEW h \in Home, DropHome(h) PROVE BindingInv'
<1>1. /\ inst.home # h /\ live' = live \ {h} /\ bhist' = [bhist EXCEPT !.bound = {}]
      /\ file' = file /\ planted' = planted /\ inst' = inst
  BY DEF DropHome
<1>2. /\ bhist' \in BHistOK /\ bhist'.bound = {} /\ bhist'.refusedAfter = bhist.refusedAfter
      /\ bhist'.raced = bhist.raced /\ bhist'.added = bhist.added
  BY <1>1 DEF BindingInv, BindingShapes, BHistOK
<1>3. BindingShapes'
  BY <1>1, <1>2 DEF BindingInv, BindingShapes
<1>4. Now' = Now /\ Current' = Current
  BY <1>1 DEF Now, Current
<1>5. Underway'
  BY <1>1, <1>4 DEF BindingInv, Underway
<1>6. Others'
  BY <1>1, <1>2, <1>4 DEF BindingInv, Others
<1>7. Healthy'
  <2>1. SUFFICES ASSUME inst.pc # "away", inst.alone, NEW g \in inst.wrote
                 PROVE  IF g # Current THEN Bindings(g, inst.home)'
                        ELSE HooksOf(g, inst.home)' /\ (inst.pc = "plant" => McpPresent(g, inst.home)')
    BY <1>1, <1>4 DEF Healthy
  <2>2. g \in Host
    BY <2>1 DEF BindingInv, BindingShapes, InstOK
  <2>3. PICK home : home = inst.home
    OBVIOUS
  <2>4. home \in live => home \in live'
    BY <1>1, <2>3
  <2>5. IF g # Current THEN Bindings(g, home)
        ELSE HooksOf(g, home) /\ (inst.pc = "plant" => McpPresent(g, home))
    BY <2>1, <2>3 DEF BindingInv, Healthy
  <2>6. IF g # Current THEN Bindings(g, home)'
        ELSE HooksOf(g, home)' /\ (inst.pc = "plant" => McpPresent(g, home)')
    BY <1>1, <2>2, <2>4, <2>5, ChecksStay
  <2>7. home' = home
    BY <1>1, <2>3
  <2>8. QED BY <1>1, <2>3, <2>6
<1>8. QED BY <1>2, <1>3, <1>5, <1>6, <1>7 DEF BindingInv, RefusedWritesNothing, BoundAreBound

-----------------------------------------------------------------------------
(* Installs: how one starts, ends and is refused.                           *)

\* What the steps that leave the bindings and the edits alone keep.
LEMMA StartKeeps ==
    ASSUME BindingInv, NEW home \in Home, NEW force \in BOOLEAN, NEW r \in SUBSET Host,
           NEW hosts \in HostLists \ {<<>>}, Start(home, force, r, hosts)
    PROVE  BindingInv'
<1>1. /\ live' = live \cup {home} /\ file' = file /\ planted' = planted
      /\ bhist' = [bhist EXCEPT !.installs = @ + 1]
      /\ inst' = [Away EXCEPT !.pc = "preflight", !.home = home, !.force = force,
                              !.refusing = r, !.hosts = hosts]
  BY DEF Start
<1>2. inst' \in InstOK
  BY <1>1, AwayIs DEF InstOK, Steps
<1>3. /\ inst'.pc = "preflight" /\ inst'.home = home /\ inst'.hosts = hosts
      /\ inst'.wrote = {} /\ inst'.part = "hooks"
  BY <1>1, AwayIs DEF InstOK
<1>4. /\ bhist' \in BHistOK /\ bhist'.bound = bhist.bound /\ bhist'.refusedAfter = bhist.refusedAfter
      /\ bhist'.raced = bhist.raced /\ bhist'.added = bhist.added
  BY <1>1 DEF BindingInv, BindingShapes, BHistOK
<1>5. BindingShapes'
  BY <1>1, <1>2, <1>4 DEF BindingInv, BindingShapes
<1>6. Underway'
  BY <1>1, <1>3, ListsOfHosts DEF Underway
<1>7. Others'
  BY <1>1, <1>3, <1>4 DEF BindingInv, Others
<1>8. Healthy'
  BY <1>3 DEF Healthy
<1>9. BoundAreBound'
  BY <1>1, <1>4, BoundStay DEF BindingInv
<1>10. QED BY <1>4, <1>5, <1>6, <1>7, <1>8, <1>9 DEF BindingInv, RefusedWritesNothing

\* Whatever ends an install, a refusal only before it wrote, success only when
\* all that it wrote is healthy.
LEMMA EndKeeps ==
    ASSUME BindingInv, NEW how, End(how), file' = file, live' = live,
           planted \subseteq planted', planted' \subseteq Host, inst.pc # "away",
           how = "refused" => inst.wrote = {}, NEW home \in Home, inst.home = home,
           how = "ok" /\ inst.alone => \A h \in inst.wrote : Bindings(h, home)'
    PROVE  BindingInv'
<1>1. PICK bd, ra, w : /\ w = inst.wrote
                       /\ bd = IF how = "ok" /\ inst.alone THEN {<<home, h>> : h \in inst.wrote}
                               ELSE bhist.bound
                       /\ ra = IF how = "refused" THEN bhist.refusedAfter \cup inst.wrote
                               ELSE bhist.refusedAfter
  OBVIOUS
<1>2. inst' = Away /\ bhist' = [bhist EXCEPT !.bound = bd, !.refusedAfter = ra]
  BY <1>1 DEF End
<1>3. w \subseteq Host /\ ra = {}
  BY <1>1 DEF BindingInv, BindingShapes, InstOK, Underway, RefusedWritesNothing
<1>4. bhist \in BHistOK /\ bhist.bound \subseteq (Home \X Host)
  BY DEF BindingInv, BindingShapes, BHistOK
<1>5. bd \subseteq (Home \X Host)
  BY <1>1, <1>3, <1>4
<1>6. /\ bhist' \in BHistOK /\ bhist'.bound = bd /\ bhist'.refusedAfter = {}
      /\ bhist'.raced = bhist.raced /\ bhist'.added = bhist.added
  BY <1>2, <1>3, <1>4, <1>5 DEF BHistOK
<1>7. inst' \in InstOK /\ inst'.pc = "away"
  BY <1>2, AwayIs
<1>8. BindingShapes'
  BY <1>6, <1>7 DEF BindingInv, BindingShapes
<1>9. Others'
  BY <1>6, <1>7 DEF BindingInv, Others
<1>10. BoundAreBound'
  <2>1. CASE how = "ok" /\ inst.alone
    <3>1. \A h \in w : Bindings(h, home)'
      BY <1>1, <2>1
    <3>2. ASSUME NEW b \in bd PROVE b[1] = home /\ b[2] \in w
      BY <1>1, <2>1
    <3>3. \A b \in bd : Bindings(b[2], b[1])'
      BY <3>1, <3>2
    <3>4. QED BY <1>6, <3>3 DEF BoundAreBound
  <2>2. CASE ~(how = "ok" /\ inst.alone)
    BY <1>1, <1>6, <2>2, BoundStay DEF BindingInv
  <2>3. QED BY <2>1, <2>2
<1>11. QED BY <1>6, <1>7, <1>8, <1>9, <1>10 DEF BindingInv, Underway, Healthy, RefusedWritesNothing

\* An end that is no success binds nobody.
LEMMA StopsKeep ==
    ASSUME BindingInv, NEW how, End(how), file' = file, live' = live, planted' = planted,
           inst.pc # "away", how # "ok", how = "refused" => inst.wrote = {}
    PROVE  BindingInv'
<1>1. PICK home : home = inst.home
  OBVIOUS
<1>2. home \in Home /\ planted \subseteq Host
  BY <1>1 DEF BindingInv, Underway, BindingShapes
<1>3. QED BY <1>1, <1>2, EndKeeps

\* What a step that only moves a running install on has to show.
LEMMA MovesKeep ==
    ASSUME BindingInv, inst' \in InstOK, inst'.pc # "away", bhist' = bhist, file' = file, live' = live,
           planted \subseteq planted', planted' \subseteq Host, Underway', Healthy',
           inst'.pc = "replace" /\ Now' \notin bhist.raced => bhist.added[Now'] \subseteq Beside(Now', inst'.read)
    PROVE  BindingInv'
<1>1. BindingShapes'
  BY DEF BindingInv, BindingShapes
<1>2. Others'
  BY DEF BindingInv, Others
<1>3. BoundAreBound'
  BY BoundStay DEF BindingInv
<1>4. QED BY <1>1, <1>2, <1>3 DEF BindingInv, RefusedWritesNothing

LEMMA NowIs ==
    ASSUME BindingInv, inst.pc # "away"
    PROVE  /\ inst \in InstOK /\ inst.hosts \in HostLists /\ inst.hosts # <<>> /\ inst.home \in Home
           /\ Current \in Host /\ Current \in HostsIn(inst.hosts) /\ inst.part \in Part
           /\ Now \in File /\ Now[1] = Current /\ Now[2] = inst.part
           /\ inst.wrote \subseteq Host
<1>1. /\ inst \in InstOK /\ inst.hosts \in HostLists /\ inst.part \in Part /\ inst.wrote \subseteq Host
      /\ inst.hosts # <<>> /\ inst.home \in Home
  BY DEF BindingInv, BindingShapes, InstOK, Underway
<1>2. Current \in Host /\ Current \in HostsIn(inst.hosts)
  BY <1>1, ListsOfHosts DEF Current
<1>3. QED BY <1>1, <1>2 DEF Now, File

\* A refusal comes before the first write: every adapter of the list was asked.
LEMMA PreflightKeeps == ASSUME BindingInv, Preflight PROVE BindingInv'
<1>1. inst.pc = "preflight" /\ file' = file /\ planted' = planted /\ live' = live
  BY DEF Preflight
<1>2. inst.wrote = {} /\ inst.part = "hooks" /\ planted \subseteq Host
  BY <1>1 DEF BindingInv, Underway, BindingShapes
<1>3. CASE AltHomeRefused(inst.home, inst.force) \/ \E h \in Preflighted : Refuses(h)
  <2>1. End("refused")
    BY <1>3 DEF Preflight
  <2>2. QED BY <1>1, <1>2, <2>1, StopsKeep
<1>4. CASE ~(AltHomeRefused(inst.home, inst.force) \/ \E h \in Preflighted : Refuses(h))
  <2>1. inst' = [inst EXCEPT !.pc = "read"] /\ bhist' = bhist
    BY <1>4 DEF Preflight
  <2>2. inst' \in InstOK /\ inst \in InstOK
    BY <2>1 DEF BindingInv, BindingShapes, InstOK, Steps
  <2>3. /\ inst'.pc = "read" /\ inst'.home = inst.home /\ inst'.refusing = inst.refusing
        /\ inst'.hosts = inst.hosts /\ inst'.part = "hooks" /\ inst'.wrote = {}
        /\ inst'.alone = inst.alone
    BY <1>2, <2>1, <2>2 DEF InstOK
  <2>4. HostsIn(inst.hosts) \cap inst.refusing = {}
    BY <1>4 DEF Preflighted, Refuses, HostsIn
  <2>5. Underway'
    BY <1>1, <2>3, <2>4 DEF BindingInv, Underway
  <2>6. Healthy'
    BY <2>3 DEF Healthy
  <2>7. QED BY <1>1, <1>2, <2>1, <2>2, <2>3, <2>5, <2>6, MovesKeep
<1>5. QED BY <1>3, <1>4

\* The read knows what others keep in the file at that moment.
LEMMA ReadKeeps == ASSUME BindingInv, Read PROVE BindingInv'
<1>1. inst.pc = "read" /\ file' = file /\ planted' = planted /\ live' = live
  BY DEF Read
<1>2. PICK f : f = Now
  OBVIOUS
<1>3. f = <<Head(inst.hosts), inst.part>> /\ f \in File /\ f[1] = Current
  BY <1>1, <1>2, NowIs DEF Now, Current
<1>4. planted \subseteq Host /\ ~Refuses(f[1])
  BY <1>1, <1>3, NowIs DEF BindingInv, BindingShapes, Underway, Refuses
<1>5. CASE file[f] # None /\ ~file[f].ok
  <2>1. End("malformed")
    BY <1>3, <1>4, <1>5 DEF Read
  <2>2. QED BY <1>1, <1>4, <2>1, StopsKeep
<1>6. CASE ~(file[f] # None /\ ~file[f].ok)
  <2>1. PICK c : c = IF file[f] = None THEN EmptyFile(f) ELSE file[f]
    OBVIOUS
  <2>2. inst' = [inst EXCEPT !.pc = "replace", !.read = c] /\ bhist' = bhist
    BY <1>3, <1>4, <1>6, <2>1 DEF Read
  <2>3. c \in Contents(f) /\ c \in AllContents /\ c.ok
    BY <1>3, <1>6, <2>1, FilesAre DEF BindingInv, BindingShapes
  <2>4. inst' \in InstOK /\ inst \in InstOK
    BY <2>2, <2>3 DEF BindingInv, BindingShapes, InstOK, Steps
  <2>5. /\ inst'.pc = "replace" /\ inst'.read = c /\ inst'.home = inst.home /\ inst'.hosts = inst.hosts
        /\ inst'.part = inst.part /\ inst'.wrote = inst.wrote /\ inst'.refusing = inst.refusing
        /\ inst'.alone = inst.alone
    BY <2>2, <2>4 DEF InstOK
  <2>6. Now' = f /\ Current' = Current
    BY <1>2, <2>5 DEF Now, Current
  <2>7. Underway'
    BY <1>1, <2>3, <2>5, <2>6 DEF BindingInv, Underway
  <2>8. Healthy'
    BY <1>1, <2>5, HealthyStay DEF BindingInv
  <2>9. f \notin bhist.raced => bhist.added[f] \subseteq Beside(f, c)
    BY <1>3, <2>1 DEF BindingInv, Others
  <2>10. QED BY <1>1, <1>4, <2>2, <2>4, <2>5, <2>6, <2>7, <2>8, <2>9, MovesKeep
<1>7. QED BY <1>5, <1>6

LEMMA KilledKeeps == ASSUME BindingInv, Killed PROVE BindingInv'
<1>1. inst.pc # "away" /\ End("killed") /\ file' = file /\ planted' = planted /\ live' = live
  BY DEF Killed
<1>2. planted \subseteq Host
  BY DEF BindingInv, BindingShapes
<1>3. QED BY <1>1, <1>2, StopsKeep

\* The rule and the skill complete a host; the list's second host has written
\* nothing yet.
LEMMA PlantKeeps == ASSUME BindingInv, Plant PROVE BindingInv'
<1>1. inst.pc = "plant" /\ planted' = planted \cup {Current} /\ file' = file /\ live' = live
  BY DEF Plant, Current
<1>2. PICK home, cur, w : home = inst.home /\ cur = Current /\ w = inst.wrote
  OBVIOUS
<1>3. home \in Home /\ cur \in Host /\ cur \in w /\ w \subseteq Host /\ planted \subseteq Host
      /\ inst.hosts \in HostLists \ {<<>>}
  BY <1>1, <1>2, NowIs DEF BindingInv, Underway, BindingShapes
<1>4. planted \subseteq planted' /\ planted' \subseteq Host /\ cur \in planted'
  BY <1>1, <1>2, <1>3
<1>5. ASSUME inst.alone, NEW h \in w PROVE Bindings(h, home)'
  <2>1. IF h # cur THEN Bindings(h, home) ELSE HooksOf(h, home) /\ McpPresent(h, home)
    BY <1>1, <1>2, <1>5 DEF BindingInv, Healthy
  <2>2. h \in Host
    BY <1>3
  <2>3. CASE h # cur
    BY <1>1, <1>4, <2>1, <2>2, <2>3, ChecksStay
  <2>4. CASE h = cur
    <3>1. HooksOf(h, home)' /\ McpPresent(h, home)'
      BY <1>1, <2>1, <2>2, <2>4, ChecksStay
    <3>2. QED BY <1>4, <2>4, <3>1 DEF Bindings, HooksOf
  <2>5. QED BY <2>3, <2>4
<1>6. CASE Len(inst.hosts) = 1
  <2>1. End("ok")
    BY <1>6 DEF Plant
  <2>2. inst.alone => \A h \in inst.wrote : Bindings(h, home)'
    BY <1>2, <1>5
  <2>3. QED BY <1>1, <1>2, <1>3, <1>4, <2>1, <2>2, EndKeeps
<1>7. CASE Len(inst.hosts) # 1
  <2>1. PICK ts : ts = Tail(inst.hosts)
    OBVIOUS
  <2>2. inst' = [inst EXCEPT !.pc = "read", !.part = "hooks", !.hosts = ts] /\ bhist' = bhist
    BY <1>7, <2>1 DEF Plant
  <2>3. /\ inst.hosts = Both /\ cur = "cursor" /\ ts \in HostLists /\ ts # <<>> /\ ts # Both
        /\ Head(ts) = "claude" /\ HostsIn(ts) \subseteq HostsIn(inst.hosts)
    BY <1>2, <1>3, <1>7, <2>1, ListsOfHosts DEF Current
  <2>4. inst' \in InstOK /\ inst \in InstOK
    BY <2>2, <2>3 DEF BindingInv, BindingShapes, InstOK, Steps, Part
  <2>5. /\ inst'.pc = "read" /\ inst'.home = home /\ inst'.hosts = ts
        /\ inst'.part = "hooks" /\ inst'.wrote = w /\ inst'.refusing = inst.refusing
        /\ inst'.alone = inst.alone
    BY <1>2, <2>2, <2>4 DEF InstOK
  <2>6. Current' = "claude" /\ w \subseteq {"cursor"}
    BY <1>1, <1>2, <2>3, <2>5 DEF Current, BindingInv, Underway
  <2>7. HostsIn(ts) \cap inst.refusing = {}
    BY <1>1, <2>3 DEF BindingInv, Underway
  <2>8. Underway'
    BY <1>1, <1>2, <2>3, <2>5, <2>6, <2>7 DEF BindingInv, Underway
  <2>9. Healthy'
    BY <1>5, <2>5, <2>6 DEF Healthy
  <2>10. QED BY <1>1, <1>4, <2>2, <2>4, <2>5, <2>8, <2>9, MovesKeep
<1>8. QED BY <1>6, <1>7

-----------------------------------------------------------------------------
(* The replacement of a file.                                               *)

LEMMA MergedIs ==
    ASSUME NEW f \in File, NEW c \in Contents(f), NEW home \in Home
    PROVE  /\ Merged(f, c, home) \in Contents(f)
           /\ Merged(f, c, home).ok = c.ok /\ Beside(f, Merged(f, c, home)) = Beside(f, c)
           /\ \A s \in Slots(f) : LET e == Merged(f, c, home).cmd[s]
                                  IN  e \in Entries /\ e.home = home /\ e.leaf = LeafOf(f)
<1>1. PICK m : m = [s \in Slots(f) |-> Pointed(f, c.cmd[s], home)]
  OBVIOUS
<1>2. ASSUME NEW s \in Slots(f)
      PROVE  m[s] \in Entries /\ m[s].home = home /\ m[s].leaf = LeafOf(f)
  <2>1. PICK e, n : e = c.cmd[s] /\ n = IF Ours(f, e) THEN e.n ELSE 1
    OBVIOUS
  <2>2. e \in Entries \cup {None} /\ (Ours(f, e) => e # None)
    BY <2>1 DEF Contents, Ours, McpEntry, CursorEntry, ClaudeEntry
  <2>3. n \in 1..2
    BY <2>1, <2>2 DEF Entries
  <2>4. m[s] = [home |-> home, leaf |-> LeafOf(f), n |-> n]
    BY <1>1, <2>1 DEF Pointed, Entry
  <2>5. LeafOf(f) \in {"haunt-mcp", "haunt-hook", "haunt-hook-claude"}
    BY FilesAre
  <2>6. QED BY <2>3, <2>4, <2>5 DEF Entries
<1>3. m \in [Slots(f) -> Entries \cup {None}]
  BY <1>1, <1>2
<1>4. PICK o : o = IF f[2] = "mcp" THEN {} ELSE c.own
  OBVIOUS
<1>5. Merged(f, c, home) = [c EXCEPT !.cmd = m, !.own = o, !.odd = {}]
  BY <1>1, <1>4 DEF Merged, Contents
<1>6. o \subseteq Slots(f)
  BY <1>4 DEF Contents
<1>7. /\ Merged(f, c, home) \in Contents(f) /\ Merged(f, c, home).ok = c.ok
      /\ Merged(f, c, home).foreign = c.foreign /\ Merged(f, c, home).own = o
      /\ Merged(f, c, home).cmd = m
  BY <1>3, <1>5, <1>6 DEF Contents
<1>8. Beside(f, Merged(f, c, home)) = Beside(f, c)
  BY <1>4, <1>7 DEF Beside
<1>9. QED BY <1>2, <1>7, <1>8

\* A merged file passes its part of the host's checks, for the home it was
\* merged for.
LEMMA MergedIsHealthy ==
    ASSUME NEW h \in Host, NEW home \in Home, NEW p \in Part, NEW c \in Contents(<<h, p>>), c.ok,
           file'[<<h, p>>] = Merged(<<h, p>>, c, home), home \in live'
    PROVE  /\ p = "hooks" => HooksOf(h, home)'
           /\ p = "mcp" => McpPresent(h, home)'
<1>1. PICK f, m : f = <<h, p>> /\ m = Merged(f, c, home)
  OBVIOUS
<1>2. f \in File /\ f[1] = h /\ f[2] = p
  BY <1>1 DEF File
<1>3. c \in Contents(f)
  BY <1>1
<1>4. m \in Contents(f) /\ m # None /\ m.ok
      /\ \A s \in Slots(f) : m.cmd[s] \in Entries /\ m.cmd[s].home = home /\ m.cmd[s].leaf = LeafOf(f)
  BY <1>1, <1>2, <1>3, MergedIs, FilesAre
<1>5. file'[<<h, p>>] = m
  BY <1>1
<1>6. \A s \in Slots(f) : m.cmd[s] # None
  BY <1>4, NoneIsNothing
<1>7. CASE p = "hooks"
  <2>1. Slots(f) = Event /\ LeafOf(f) = IF h = "cursor" THEN "haunt-hook" ELSE "haunt-hook-claude"
    BY <1>2, <1>7 DEF Slots, LeafOf
  <2>2. h = "cursor" \/ h = "claude"
    BY DEF Host
  <2>3. LeafOf(<<h, "hooks">>) = LeafOf(f)
    BY <1>1, <1>7
  <2>4. CASE h = "cursor"
    <3>1. CursorHooks(home)'
      BY <1>4, <1>5, <1>6, <1>7, <2>1, <2>3, <2>4
         DEF CursorHooks, CursorEntry, HookIssue, Runs, Parses
    <3>2. QED BY <1>7, <2>4, <3>1 DEF HooksOf
  <2>5. CASE h = "claude"
    <3>1. ClaudeHooks(home)'
      BY <1>4, <1>5, <1>6, <1>7, <2>1, <2>3, <2>5
         DEF ClaudeHooks, ClaudeEntry, HookIssue, Runs, Parses
    <3>2. QED BY <1>7, <2>5, <3>1 DEF HooksOf
  <2>6. QED BY <2>2, <2>4, <2>5
<1>8. CASE p = "mcp"
  <2>1. Slots(f) = {"server"} /\ LeafOf(<<h, "mcp">>) = LeafOf(f)
    BY <1>1, <1>2, <1>8 DEF Slots
  <2>2. McpPresent(h, home)'
    BY <1>4, <1>5, <1>6, <1>8, <2>1 DEF McpPresent, McpEntry, McpIssue, Parses
  <2>3. QED BY <1>8, <2>2
<1>9. QED BY <1>7, <1>8 DEF Part

LEMMA ReplaceKeeps == ASSUME BindingInv, Replace PROVE BindingInv'
<1>1. PICK h, p, c, home, w : /\ h = Current /\ p = inst.part /\ c = inst.read
                              /\ home = inst.home /\ w = inst.wrote
  OBVIOUS
<1>2. PICK f, m, bd : /\ f = <<h, p>> /\ m = Merged(f, c, home)
                      /\ bd = {b \in bhist.bound : b[2] # h}
  OBVIOUS
<1>3. inst.pc = "replace" /\ planted' = planted /\ live' = live
  BY DEF Replace
<1>4. /\ f = Now /\ f \in File /\ f[1] = h /\ f[2] = p /\ h \in Host /\ p \in Part /\ home \in Home
      /\ w \subseteq Host /\ inst \in InstOK
  BY <1>1, <1>2, <1>3, NowIs DEF Now
<1>5. c \in Contents(f) /\ c.ok /\ home \in live /\ (h \in w <=> p = "mcp")
  BY <1>1, <1>3, <1>4 DEF BindingInv, Underway
<1>6. PICK q : q = IF p = "hooks" THEN "read" ELSE "plant"
  OBVIOUS
<1>7. PICK v : v = w \cup {h}
  OBVIOUS
<1>8. /\ file' = [file EXCEPT ![f] = m]
      /\ inst' = [inst EXCEPT !.pc = q, !.part = "mcp", !.read = None, !.wrote = v]
      /\ bhist' = [bhist EXCEPT !.bound = bd]
  <2>1. f = <<Head(inst.hosts), inst.part>>
    BY <1>1, <1>2 DEF Current
  <2>2. file' = [file EXCEPT ![f] = m]
    BY <1>1, <1>2, <2>1 DEF Replace
  <2>3. bhist' = [bhist EXCEPT !.bound = {b \in @ : b[2] # f[1]}]
    BY <2>1 DEF Replace
  <2>4. inst' = [inst EXCEPT !.pc = IF inst.part = "hooks" THEN "read" ELSE "plant", !.part = "mcp",
                             !.read = None, !.wrote = @ \cup {f[1]}]
    BY <2>1 DEF Replace
  <2>5. QED BY <1>1, <1>2, <1>4, <1>6, <1>7, <2>2, <2>3, <2>4
<1>9. inst' \in InstOK
  <2>1. q \in Steps /\ v \subseteq Host /\ None \in AllContents /\ "mcp" \in Part
    BY <1>4, <1>6, <1>7, FilesAre DEF Steps, Part
  <2>2. QED BY <1>4, <1>8, <2>1 DEF InstOK
<1>10. /\ inst'.pc = q /\ inst'.part = "mcp" /\ inst'.wrote = v /\ inst'.home = home
       /\ inst'.hosts = inst.hosts /\ inst'.refusing = inst.refusing /\ inst'.alone = inst.alone
  BY <1>1, <1>4, <1>8 DEF InstOK
<1>11. Current' = h
  BY <1>1, <1>10 DEF Current
<1>12. /\ bhist' \in BHistOK /\ bhist'.bound = bd /\ bhist'.refusedAfter = bhist.refusedAfter
       /\ bhist'.raced = bhist.raced /\ bhist'.added = bhist.added
  <2>1. bhist \in BHistOK
    BY DEF BindingInv, BindingShapes
  <2>2. bd \subseteq (Home \X Host)
    BY <1>2, <2>1 DEF BHistOK
  <2>3. QED BY <1>8, <2>1, <2>2 DEF BHistOK
<1>13. m \in Contents(f) /\ m # None /\ Beside(f, m) = Beside(f, c)
  BY <1>2, <1>4, <1>5, MergedIs, FilesAre
<1>14. /\ file' \in [File -> AllContents] /\ file'[f] = m
       /\ \A g \in File : g # f => file'[g] = file[g]
       /\ \A g \in File : file'[g] = None \/ file'[g] \in Contents(g)
  BY <1>4, <1>8, <1>13, FilesAre DEF BindingInv, BindingShapes
<1>15. BindingShapes'
  BY <1>3, <1>9, <1>12, <1>14 DEF BindingInv, BindingShapes
<1>16. \A g \in Host, o \in Part : g # h => <<g, o>> \in File /\ file'[<<g, o>>] = file[<<g, o>>]
  BY <1>2, <1>14 DEF File
<1>17. Underway'
  <2>1. inst.hosts = Both => h = "cursor"
    BY <1>1, <1>3, NowIs, ListsOfHosts DEF Current
  <2>2. QED BY <1>1, <1>3, <1>6, <1>7, <1>10, <1>11, <2>1 DEF BindingInv, Underway
<1>18. Others'
  <2>1. \A g \in File : /\ file'[g] = None => bhist'.added[g] = {}
                        /\ g \notin bhist'.raced /\ file'[g] # None => bhist'.added[g] \subseteq Beside(g, file'[g])
    <3>1. ASSUME NEW g \in File, g # f
          PROVE  /\ file'[g] = None => bhist'.added[g] = {}
                 /\ g \notin bhist'.raced /\ file'[g] # None => bhist'.added[g] \subseteq Beside(g, file'[g])
      BY <1>12, <1>14, <3>1 DEF BindingInv, Others
    <3>2. f \notin bhist.raced => bhist.added[f] \subseteq Beside(f, c)
      BY <1>1, <1>3, <1>4 DEF BindingInv, Others
    <3>3. QED BY <1>12, <1>13, <1>14, <3>1, <3>2
  <2>2. inst'.pc # "replace"
    BY <1>6, <1>10
  <2>3. QED BY <2>1, <2>2 DEF Others
<1>19. Healthy'
  <2>1. SUFFICES ASSUME inst.alone, NEW g \in v
                 PROVE  IF g # h THEN Bindings(g, home)'
                        ELSE HooksOf(g, home)' /\ (q = "plant" => McpPresent(g, home)')
    BY <1>10, <1>11 DEF Healthy
  <2>2. g \in Host
    BY <1>4, <1>7
  <2>3. CASE g # h
    <3>1. Bindings(g, home)
      BY <1>1, <1>3, <1>7, <2>1, <2>3 DEF BindingInv, Healthy
    <3>2. file'[<<g, "hooks">>] = file[<<g, "hooks">>] /\ file'[<<g, "mcp">>] = file[<<g, "mcp">>]
      BY <1>16, <2>2, <2>3 DEF Part
    <3>3. QED BY <1>3, <2>2, <2>3, <3>1, <3>2, ChecksStay
  <2>4. CASE g = h
    <3>1. file'[<<h, p>>] = Merged(<<h, p>>, c, home) /\ c \in Contents(<<h, p>>) /\ home \in live'
      BY <1>2, <1>3, <1>5, <1>14
    <3>2. (p = "hooks" => HooksOf(h, home)') /\ (p = "mcp" => McpPresent(h, home)')
      BY <1>4, <1>5, <3>1, MergedIsHealthy
    <3>3. CASE p = "hooks"
      BY <1>6, <2>4, <3>2, <3>3
    <3>4. CASE p = "mcp"
      <4>1. HooksOf(h, home)
        BY <1>1, <1>3, <1>5, <2>1, <3>4 DEF BindingInv, Healthy
      <4>2. <<h, "hooks">> \in File /\ <<h, "hooks">> # f
        BY <1>2, <1>4, <3>4, FilesAre
      <4>3. HooksOf(h, home)'
        BY <1>3, <1>4, <1>14, <4>1, <4>2, ChecksStay
      <4>4. QED BY <2>4, <3>2, <3>4, <4>3
    <3>5. QED BY <1>4, <3>3, <3>4 DEF Part
  <2>5. QED BY <2>3, <2>4
<1>20. BoundAreBound'
  <2>1. ASSUME NEW b \in bd PROVE \A o \in Part : file'[<<b[2], o>>] = file[<<b[2], o>>]
    <3>1. b[2] \in Host /\ b[2] # h
      BY <1>2 DEF BindingInv, BindingShapes, BHistOK
    <3>2. QED BY <1>16, <3>1
  <2>2. bd \subseteq bhist.bound
    BY <1>2
  <2>3. QED BY <1>3, <1>12, <2>1, <2>2, BoundStay DEF BindingInv
<1>21. QED BY <1>12, <1>15, <1>17, <1>18, <1>19, <1>20 DEF BindingInv, RefusedWritesNothing

LEMMA BindingKeeps == ASSUME BindingInv, BindingNext PROVE BindingInv'
<1>1. CASE \E f \in File : Garble(f) \/ Mend(f) \/ \E x \in Foreign : AddForeign(f, x)
  BY <1>1, UsersKeep
<1>2. CASE \E h \in Host : \E s \in Event : Copied(<<h, "hooks">>, s) \/ Unbound(<<h, "hooks">>, s)
  <2>1. PICK h \in Host, s \in Event : Copied(<<h, "hooks">>, s) \/ Unbound(<<h, "hooks">>, s)
    BY <1>2
  <2>2. PICK f : f = <<h, "hooks">>
    OBVIOUS
  <2>3. f \in File /\ s \in Slots(f) /\ (Copied(f, s) \/ Unbound(f, s))
    BY <2>1, <2>2, FilesAre DEF Slots
  <2>4. QED BY <2>3, UsersKeep
<1>3. CASE \E h \in Home : DropHome(h)
  BY <1>3, DropKeeps
<1>4. /\ Both \in HostLists \ {<<>>} /\ <<"cursor">> \in HostLists \ {<<>>}
      /\ Refusals(Host) \subseteq SUBSET Host /\ Refusals({"cursor"}) \subseteq SUBSET Host
      /\ \A h \in Home : Forces(h) \subseteq BOOLEAN
  BY DEF Both, HostLists, Refusals, Forces, Host
<1>5. CASE \E h \in Home, r \in Refusals(Host) :
               DoctorRepair(h, r) \/ \E force \in Forces(h) : Install(h, force, r)
  BY <1>4, <1>5, StartKeeps DEF Install, DoctorRepair
<1>6. CASE \E h \in Home, r \in Refusals({"cursor"}) : CursorInstall(h, r)
  BY <1>4, <1>6, StartKeeps DEF CursorInstall
<1>7. ASSUME NEW f \in File, NEW s \in Slots(f), Tuned(f, s) \/ Misshapen(f, {s}) PROVE BindingInv'
  <2>1. CASE Tuned(f, s)
    BY <2>1, UsersKeep
  <2>2. CASE Misshapen(f, {s})
    <3>1. \E ss \in SUBSET Slots(f) : Misshapen(f, ss)
      BY <2>2
    <3>2. QED BY <3>1, UsersKeep
  <2>3. QED BY <1>7, <2>1, <2>2
<1>8. ASSUME NEW f \in File, Misshapen(f, Slots(f)) PROVE BindingInv'
  <2>1. \E ss \in SUBSET Slots(f) : Misshapen(f, ss)
    BY <1>8
  <2>2. QED BY <2>1, UsersKeep
<1>9. ASSUME NEW f \in File, NEW x \in SnagsIn(f), Snagged(f, x) PROVE BindingInv'
  BY <1>9, UsersKeep
<1>10. CASE Preflight \/ Read \/ Replace \/ Plant \/ Killed
  BY <1>10, PreflightKeeps, ReadKeeps, ReplaceKeeps, PlantKeeps, KilledKeeps
<1>11. QED BY <1>1, <1>2, <1>3, <1>5, <1>6, <1>7, <1>8, <1>9, <1>10 DEF BindingNext

-----------------------------------------------------------------------------
(* The two together.                                                        *)

\* A host whose doctor is content runs a hook process for each of its events.
LEMMA HealthyHostsRun ==
    ASSUME BindingInv, NEW h \in Host, NEW s \in Event, NEW home \in Home, HostChecks(h, home)
    PROVE  Started(h, s) # 0
<1>1. PICK f : f = <<h, "hooks">>
  OBVIOUS
<1>2. f \in File /\ f[1] = h /\ f[2] = "hooks" /\ Slots(f) = Event
  BY <1>1, FilesAre DEF Slots
<1>3. Parses(f) /\ file[f].cmd[s] # None /\ ~HookIssue(f, file[f].cmd[s], home)
  <2>1. CASE h = "cursor"
    BY <1>1, <2>1 DEF HostChecks, Bindings, CursorHooks, CursorEntry
  <2>2. CASE h = "claude"
    BY <1>1, <2>2 DEF HostChecks, Bindings, ClaudeHooks, ClaudeEntry
  <2>3. QED BY <2>1, <2>2 DEF Host
<1>4. file[f] \in Contents(f)
  BY <1>2, <1>3 DEF BindingInv, BindingShapes, Parses
<1>5. file[f].cmd[s] \in Entries
  BY <1>2, <1>3, <1>4 DEF Contents
<1>6. Started(h, s) = file[f].cmd[s].n
  BY <1>1, <1>3 DEF Started, HookIssue
<1>7. QED BY <1>5, <1>6 DEF Entries

HooksInv == BindingInv /\ CaptureInv /\ SilenceIsReported

LEMMA HooksStart == ASSUME Init PROVE HooksInv
  BY BindingStarts, CaptureStarts DEF Init, HooksInv, SilenceIsReported

LEMMA BindingAlone == ASSUME BindingInv, UNCHANGED bvars PROVE BindingInv'
  BY DEF bvars, BindingInv, BindingShapes, Underway, Others, Healthy, RefusedWritesNothing,
         BoundAreBound, Now, Current, HooksOf, Bindings, CursorHooks, ClaudeHooks, McpPresent,
         Parses, HookIssue, Runs

LEMMA CaptureAlone == ASSUME CaptureInv, UNCHANGED cvars PROVE CaptureInv'
  BY DEF cvars, CaptureInv, NothingIsLost

LEMMA HooksKeep == ASSUME HooksInv, [Next]_vars PROVE HooksInv'
<1>1. CASE BindingNext /\ UNCHANGED <<rows, job, chist, fired, missed>>
  BY <1>1, BindingKeeps, CaptureAlone DEF HooksInv, SilenceIsReported, cvars
<1>2. CASE CaptureNext /\ UNCHANGED <<file, planted, live, inst, bhist, fired, missed>>
  BY <1>2, CaptureKeeps, BindingAlone DEF HooksInv, SilenceIsReported, bvars
<1>3. ASSUME NEW c \in Call, Fire(c) PROVE HooksInv'
  <2>1. BindingInv'
    BY <1>3, BindingAlone DEF HooksInv, Fire
  <2>2. CASE Started(c.host, c.slot) = 0
    <3>1. \A g \in Home : ~HostChecks(c.host, g)
      BY <2>2, CallsAreOfHosts, HealthyHostsRun DEF HooksInv
    <3>2. missed' = missed /\ UNCHANGED cvars
      BY <1>3, <2>2, <3>1 DEF Fire
    <3>3. QED BY <2>1, <3>2, CaptureAlone DEF HooksInv, SilenceIsReported
  <2>3. CASE Started(c.host, c.slot) # 0
    <3>1. Deliver(c, Started(c.host, c.slot)) /\ missed' = missed
      BY <1>3, <2>3 DEF Fire
    <3>2. PICK n : n = Started(c.host, c.slot)
      OBVIOUS
    <3>3. CaptureInv'
      BY <3>1, <3>2, DeliverKeeps DEF HooksInv
    <3>4. QED BY <2>1, <3>1, <3>3 DEF HooksInv, SilenceIsReported
  <2>4. QED BY <2>2, <2>3
<1>4. CASE UNCHANGED vars
  BY <1>4, BindingAlone, CaptureAlone DEF HooksInv, SilenceIsReported, vars, bvars, cvars
<1>5. QED BY <1>1, <1>2, <1>3, <1>4 DEF Next

LEMMA HooksInvHolds == Spec => []HooksInv
<1>1. HooksInv /\ [Next]_vars => HooksInv'
  BY HooksKeep
<1>2. QED BY HooksStart, <1>1, PTL DEF Spec

-----------------------------------------------------------------------------
(* The properties.                                                          *)

\* No merge of install, bootstrap or doctor loses what others keep beside
\* haunt's entries in an editor's file, the settings they added to a hook's entry
\* included, except when they edit it between the read and the replacement; and
\* a refused install has written nothing.  Values of another shape and an MCP
\* server's settings stand where haunt's own entry goes and are not spoken of.
THEOREM OthersStayKept == Spec => []FilesAreKept
<1>1. HooksInv => FilesAreKept
  <2>1. SUFFICES ASSUME HooksInv PROVE FilesAreKept
    OBVIOUS
  <2>2. BindingTypeOK
    <3>1. inst.pc = "replace" => inst.read # None
      BY <2>1, NowIs, FilesAre DEF HooksInv, BindingInv, Underway
    <3>2. QED BY <2>1, <3>1 DEF BindingTypeOK, HooksInv, BindingInv, BindingShapes
  <2>3. \A j \in Slot : job[j] # Nil => job[j].call \in Call /\ job[j].pc \in {"start", "insert"}
    BY <2>1 DEF HooksInv, CaptureInv, Jobs
  <2>4. OthersAreKept
    BY <2>1 DEF OthersAreKept, HooksInv, BindingInv, Others
  <2>5. QED BY <2>1, <2>2, <2>3, <2>4 DEF FilesAreKept, TypeOK, HooksInv, BindingInv
<1>2. QED BY HooksInvHolds, <1>1, PTL

\* install and doctor agree: of a host that an install bound and nobody touched,
\* the doctor of that home reports nothing but the snags of its settings.json,
\* whatever was bound before and however many homes and events there are.
THEOREM BoundStaysHealthy == Spec => []BoundMeansHealthy
<1>1. HooksInv => BoundMeansHealthy
  BY DEF HooksInv, BindingInv, BoundAreBound, BoundMeansHealthy, HostChecks
<1>2. QED BY HooksInvHolds, <1>1, PTL

\* A call the host identified is stored once however often it is delivered,
\* and excluded tools leave no row: the unique key and hook's first look.
THEOREM CaptureStaysAsAsked == Spec => []CapturedAsAsked
<1>1. HooksInv => CapturedAsAsked
  <2>1. SUFFICES ASSUME HooksInv PROVE CapturedAsAsked
    OBVIOUS
  <2>2. ExcludedLeavesNothing
    BY <2>1 DEF HooksInv, CaptureInv, ExcludedLeavesNothing, Skipped
  <2>3. ASSUME NEW q \in rows, NEW r \in rows, q.call = r.call, q.call.ids # {} PROVE q = r
    <3>1. q.call \in Call /\ q.key = KeyOf(q.call) /\ r.key = KeyOf(r.call)
      BY <2>1 DEF HooksInv, CaptureInv
    <3>2. r.key # Nil /\ q.key = r.key
      BY <2>3, <3>1, KeysOfCalls
    <3>3. QED BY <2>1, <3>2 DEF HooksInv, CaptureInv
  <2>4. QED BY <2>2, <2>3 DEF CapturedAsAsked, StoredOnce
<1>2. QED BY HooksInvHolds, <1>1, PTL

\* What a hook handled without an error is on record, as itself or as the call
\* its host reported with the same identifiers.
THEOREM HandledStaysStored == Spec => []NothingIsLost
<1>1. HooksInv => NothingIsLost
  BY DEF HooksInv, CaptureInv
<1>2. QED BY HooksInvHolds, <1>1, PTL

\* Capture that is off is never called healthy: the doctor's checks of a host
\* imply that each of its events starts a hook process that knows the event.
THEOREM SilenceStaysReported == Spec => []SilenceIsReported
<1>1. HooksInv => SilenceIsReported
  BY DEF HooksInv
<1>2. QED BY HooksInvHolds, <1>1, PTL
=============================================================================
