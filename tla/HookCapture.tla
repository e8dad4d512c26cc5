---------------------------- MODULE HookCapture ----------------------------
(***************************************************************************)
(* One hook process per delivery of a host event: what it leaves out, the   *)
(* retry key it builds from the identifiers the host supplied, and observe   *)
(* with its two lookups of that key around the INSERT.  Errors end in {}.    *)
(*                                                                         *)
(* A call is what happened at the host: [host, kind, tool, ids, text], ids    *)
(* the identifiers in its payload.  A row holds the call it was made from.   *)
(***************************************************************************)
EXTENDS FiniteSets, Naturals

CONSTANTS Call,      \* what the host reports
          Slot,      \* hook processes at one time
          Excluded,  \* tools of HAUNT_EXCLUDE_TOOLS
          Unembedded,\* tools of HAUNT_EMBED_EXCLUDE_TOOLS
          MaxFail, Nil

ASSUME MaxFailNat == MaxFail \in Nat
ASSUME NilIsNothing == /\ Nil \notin [call : Call, pc : {"start", "insert"}]
                       /\ \A c \in Call : Nil # <<c.host, c.kind, c.ids>>

VARIABLES rows,  \* [call, key, no, queued]: events with their memory
          job,   \* slot |-> Nil or [call, pc]
          chist  \* calls that were handled without an error, failures

cvars == <<rows, job, chist>>

CaptureInit == rows = {} /\ job = [j \in Slot |-> Nil] /\ chist = [handled |-> {}, fails |-> 0]

\* Faulty variant of KeyOf: the event is left out of the material.
KeyOfIds(c) == IF c.ids = {} THEN Nil ELSE <<c.host, c.ids>>

\* hook_idempotency_key
KeyOf(c) == IF c.ids = {} THEN Nil ELSE <<c.host, c.kind, c.ids>>

MemoryTool(c) == c.tool = "memory"

\* Faulty variant of Skipped: an excluded tool is only not embedded.
SkippedMemory(c) == MemoryTool(c)

\* memory_* tools, the excluded ones, and a payload without text.
Skipped(c) == MemoryTool(c) \/ c.tool \in Excluded \/ c.text = Nil

\* observe's row: queued for its vector unless the capture policy says no.
RowOf(c) == [call |-> c, key |-> KeyOf(c), no |-> Cardinality(rows),
             queued |-> c.tool \notin Unembedded /\ c.kind # "sessionStart"]

WithKey(c) == {r \in rows : r.key = KeyOf(c) /\ r.key # Nil}
End1(j) == job' = [job EXCEPT ![j] = Nil]

\* The host runs n hook processes for one call.
Deliver(c, n) ==
    /\ \E js \in SUBSET {j \in Slot : job[j] = Nil} :
         Cardinality(js) = n /\ job' = [j \in Slot |-> IF j \in js THEN [call |-> c, pc |-> "start"] ELSE job[j]]
    /\ UNCHANGED <<rows, chist>>

Skip(j) ==
    /\ job[j] # Nil /\ job[j].pc = "start" /\ Skipped(job[j].call)
    /\ End1(j) /\ UNCHANGED <<rows, chist>>

\* What a key on record means: a replay for the same text, else an error that
\* the hook swallows.
Answered(j, found) ==
    /\ found # {} /\ End1(j)
    /\ chist' = [chist EXCEPT !.handled = @ \cup {job[j].call}]
    /\ UNCHANGED rows

\* observe's lookup before its transaction.
Lookup(j) ==
    /\ job[j] # Nil /\ job[j].pc = "start" /\ ~Skipped(job[j].call)
    /\ \/ Answered(j, WithKey(job[j].call))
       \/ /\ WithKey(job[j].call) = {}
          /\ job' = [job EXCEPT ![j].pc = "insert"]
          /\ UNCHANGED <<rows, chist>>

\* Faulty variant of Conflicting: the column is not unique.
NeverConflicting(c) == {}

\* UNIQUE(idempotency_key)
Conflicting(c) == WithKey(c)

\* The INSERT; an IntegrityError is followed by the lookup once more.
Insert(j) ==
    /\ job[j] # Nil /\ job[j].pc = "insert"
    /\ \/ Answered(j, Conflicting(job[j].call))
       \/ /\ Conflicting(job[j].call) = {}
          /\ rows' = rows \cup {RowOf(job[j].call)}
          /\ chist' = [chist EXCEPT !.handled = @ \cup {job[j].call}]
          /\ End1(j)

\* A locked database, a killed process: {} and exit 0.
Fail(j) ==
    /\ job[j] # Nil /\ chist.fails < MaxFail
    /\ chist' = [chist EXCEPT !.fails = @ + 1]
    /\ End1(j) /\ UNCHANGED rows

CaptureNext == \E j \in Slot : Skip(j) \/ Lookup(j) \/ Insert(j) \/ Fail(j)

-----------------------------------------------------------------------------
(* Properties *)

\* However often a call is delivered, by a host that retries or by two copies
\* of the hook at once, it is stored once when the host identified it.
StoredOnce ==
    \A q, r \in rows : q.call = r.call /\ q.call.ids # {} => q = r

\* An excluded tool leaves nothing, not even text that is only not embedded,
\* under whichever of a host's events it is reported.
ExcludedLeavesNothing == \A r \in rows : r.call.tool \notin Excluded /\ ~MemoryTool(r.call)

\* A call that a hook handled without an error is in the store as it was. Only
\* a call that the host reported as the same event with the same identifiers
\* may answer for it: that is all a retry can be known by.
SameToHost(b, c) == <<b.host, b.kind, b.ids>> = <<c.host, c.kind, c.ids>> /\ c.ids # {}
NothingIsLost == \A c \in chist.handled : \E r \in rows : r.call = c \/ SameToHost(r.call, c)
=============================================================================
