----------------------------- MODULE HostHooks -----------------------------
(***************************************************************************)
(* The two composed: a call reaches haunt through the entries the host's     *)
(* hooks file has at that moment, once per live entry of the right launcher.  *)
(***************************************************************************)
EXTENDS HostBinding, HookCapture

CONSTANT MaxFire   \* calls a host makes, repeated deliveries included

ASSUME CallsAreOfHosts == MaxFire \in Nat /\ \A c \in Call : c.host \in Host /\ c.slot \in Event

VARIABLES fired,   \* calls made so far
          missed   \* <<call's host, home whose doctor was content>>: nothing ran

vars == <<file, planted, live, inst, bhist, rows, job, chist, fired, missed>>

Init == BindingInit /\ CaptureInit /\ fired = 0 /\ missed = {}

\* The processes an event starts that know what to do with it: Cursor's
\* launcher does not know Claude's events.
Started(h, s) ==
    LET f == <<h, "hooks">>
        e == IF Parses(f) THEN file[f].cmd[s] ELSE None
    IN  IF e # None /\ Runs(e) /\ e.leaf = LeafOf(f) THEN e.n ELSE 0

Fire(c) ==
    /\ fired < MaxFire
    /\ fired' = fired + 1
    /\ IF Started(c.host, c.slot) = 0
       THEN /\ missed' = missed \cup {<<c.host, h>> : h \in {g \in Home : HostChecks(c.host, g)}}
            /\ UNCHANGED cvars
       ELSE Deliver(c, Started(c.host, c.slot)) /\ UNCHANGED missed
    /\ UNCHANGED bvars

Next ==
    \/ BindingNext /\ UNCHANGED <<rows, job, chist, fired, missed>>
    \/ CaptureNext /\ UNCHANGED <<file, planted, live, inst, bhist, fired, missed>>
    \/ \E c \in Call : Fire(c)

Spec == Init /\ [][Next]_vars

\* Shapes of both parts.
TypeOK == BindingTypeOK /\ \A j \in Slot : job[j] # Nil => job[j].call \in Call /\ job[j].pc \in {"start", "insert"}

\* Capture that is off is never called healthy: a call for which nothing ran
\* was made while the doctor of every home had something to report.
SilenceIsReported == missed = {}

\* Shapes of both parts; a write that was refused left the file as it was, and
\* one that went through kept everybody else's entries.
FilesAreKept == TypeOK /\ RefusedWritesNothing /\ OthersAreKept

\* One row for a retried call and none for what capture leaves out.
CapturedAsAsked == StoredOnce /\ ExcludedLeavesNothing
=============================================================================
