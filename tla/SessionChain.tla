---------------------------- MODULE SessionChain ----------------------------
(***************************************************************************)
(* The sessions of one namespace: ensure_session and end_session, and what  *)
(* purge does to the sessions of an erased memory.                          *)
(*                                                                         *)
(* A host names its sessions and may replay a name after the session ended; *)
(* the write then goes to a successor session that links back to it.  The   *)
(* code reads the sessions table before its write transaction begins, so    *)
(* observe and end_session are two steps each; contradict and purge hold    *)
(* the write lock throughout and are one.                                   *)
(***************************************************************************)
EXTENDS FiniteSets, Naturals

CONSTANTS Host,    \* session names hosts choose
          Opaque,  \* session ids new_id() mints
          Event,   \* events, one memory each
          Proc,    \* processes that write
          None

ASSUME ConstantsDistinct == Host \cap Opaque = {} /\ None \notin Host \cup Opaque \cup Event

VARIABLES sessions,  \* ids of the rows of sessions
          ended,     \* those whose ended_at is set
          succeeds,  \* their succeeds_session
          current,   \* meta current_session
          inSession, \* the session of each stored event, None when there is no row
          repl,      \* the event that replaced each corrected event
          corrSession, \* the session recorded on the correction of an event
          pc, plan   \* what each process has read and is about to write

tables == <<sessions, ended, succeeds, current, inSession, repl, corrSession>>
vars == <<sessions, ended, succeeds, current, inSession, repl, corrSession, pc, plan>>

Id == Host \cup Opaque

Init ==
    /\ sessions = {} /\ ended = {} /\ current = None
    /\ succeeds = [s \in Id |-> None]
    /\ inSession = [e \in Event |-> None]
    /\ repl = [e \in Event |-> None]
    /\ corrSession = [e \in Event |-> None]
    /\ pc = [p \in Proc |-> "idle"]
    /\ plan = [p \in Proc |-> None]

-----------------------------------------------------------------------------
\* Places for events that are not taken by a row or by a link of a correction.
Unused == {e \in Event : inSession[e] = None /\ repl[e] = None /\ \A d \in Event : repl[d] # e}

\* An id from new_id(): one that no row, no link and no process holds.
Fresh ==
    Opaque \ (sessions \cup {succeeds[s] : s \in sessions}
                \cup (UNION {{plan[p].sid, plan[p].after} : p \in {p \in Proc : pc[p] = "write"}})
                \cup (UNION {plan[p] : p \in {p \in Proc : pc[p] = "end"}}))

OpenSuccessors(s) == {x \in sessions \ ended : succeeds[x] = s}

\* Where a write goes: into an open session, or into a new row that may
\* succeed an ended one. claims tells whether it becomes the current session.
Use(s) == [sid |-> s, new |-> FALSE, after |-> None, claims |-> FALSE]
New(s, after, claims) == [sid |-> s, new |-> TRUE, after |-> after, claims |-> claims]

\* ensure_session for a named session.
Named(s) ==
    IF s \notin sessions THEN {New(s, None, FALSE)}
    ELSE IF s \notin ended THEN {Use(s)}
    ELSE IF OpenSuccessors(s) # {} THEN {Use(x) : x \in OpenSuccessors(s)}
    ELSE {New(x, s, FALSE) : x \in Fresh}

\* ensure_session for the implicit one.
Implicit ==
    IF current # None /\ current \in sessions \ ended THEN {Use(current)}
    ELSE {New(x, None, TRUE) : x \in Fresh}

SessionChoices(s) == IF s = None THEN Implicit ELSE Named(s)

\* The session row a write leaves, once its session is chosen.
Open(w) ==
    /\ sessions' = IF w.new THEN sessions \cup {w.sid} ELSE sessions
    /\ succeeds' = IF w.new THEN [succeeds EXCEPT ![w.sid] = w.after] ELSE succeeds
    /\ current' = IF w.claims THEN w.sid ELSE current
    /\ UNCHANGED ended

\* Faulty variant: no foreign key from events to sessions.
AcceptedUnchecked(w) == w.new => w.sid \notin sessions

\* The primary key and the foreign key accept the write.
Accepted(w) == IF w.new THEN w.sid \notin sessions ELSE w.sid \in sessions

\* observe looks up its session ...
Look(p) ==
    /\ pc[p] = "idle"
    /\ Unused # {}
    /\ \E s \in sessions \cup Host \cup {None} : \E w \in SessionChoices(s) :
          plan' = [plan EXCEPT ![p] = w]
    /\ pc' = [pc EXCEPT ![p] = "write"]
    /\ UNCHANGED tables

\* ... and writes, unless a constraint refuses or the process fails.
Write(p) ==
    /\ pc[p] = "write"
    /\ Accepted(plan[p])
    /\ Open(plan[p])
    /\ \E e \in Unused : inSession' = [inSession EXCEPT ![e] = plan[p].sid]
    /\ pc' = [pc EXCEPT ![p] = "idle"]
    /\ plan' = [plan EXCEPT ![p] = None]
    /\ UNCHANGED <<repl, corrSession>>

\* An IntegrityError, an exception or a crash: the transaction is rolled back.
GiveUp(p) ==
    /\ pc[p] # "idle"
    /\ pc' = [pc EXCEPT ![p] = "idle"]
    /\ plan' = [plan EXCEPT ![p] = None]
    /\ UNCHANGED tables

\* contradict: ensure_session and the write in one transaction. A replacement is
\* an event in the same session; a retraction only opens the session.
Contradict(d) ==
    /\ inSession[d] # None
    /\ corrSession[d] = None /\ repl[d] = None
    /\ \E s \in sessions \cup Host \cup {None} : \E w \in SessionChoices(s) :
          /\ Open(w)
          /\ corrSession' = [corrSession EXCEPT ![d] = w.sid]
          /\ \/ \E e \in Unused : /\ inSession' = [inSession EXCEPT ![e] = w.sid]
                                  /\ repl' = [repl EXCEPT ![d] = e]
             \/ UNCHANGED <<inSession, repl>>
    /\ UNCHANGED <<pc, plan>>

-----------------------------------------------------------------------------
\* end_session reads which sessions it will close: one and its open successors ...
EndLook(p) ==
    /\ pc[p] = "idle"
    /\ \E s \in sessions : plan' = [plan EXCEPT ![p] = {s} \cup OpenSuccessors(s)]
    /\ pc' = [pc EXCEPT ![p] = "end"]
    /\ UNCHANGED tables

\* The rows still open when the UPDATE runs; none when a SELECT finds none.
Ending(p) == plan[p] \cap (sessions \ ended)

\* Faulty variant: meta current_session is left as it is.
EndKeepingCurrent(p) ==
    /\ pc[p] = "end"
    /\ ended' = ended \cup Ending(p)
    /\ pc' = [pc EXCEPT ![p] = "idle"]
    /\ plan' = [plan EXCEPT ![p] = None]
    /\ UNCHANGED <<sessions, succeeds, current, inSession, repl, corrSession>>

\* ... and closes them.
End(p) ==
    /\ pc[p] = "end"
    /\ ended' = ended \cup Ending(p)
    /\ current' = IF current \in plan[p] THEN None ELSE current
    /\ pc' = [pc EXCEPT ![p] = "idle"]
    /\ plan' = [plan EXCEPT ![p] = None]
    /\ UNCHANGED <<sessions, succeeds, inSession, repl, corrSession>>

-----------------------------------------------------------------------------
\* The corrections purge scrubs: of the erased event, and of the one it replaced.
Adjacent(e) == {e} \cup {d \in Event : repl[d] = e}

\* track_erased_session: the erased event's session and its corrections'.
Tainted(e) == ({inSession[e]} \cup {corrSession[d] : d \in Adjacent(e)}) \ {None}

\* What is left of the references once the event and its corrections are gone.
EventsLeft(e) == [inSession EXCEPT ![e] = None]
CorrectionsLeft(e) == [d \in Event |-> IF d \in Adjacent(e) THEN None ELSE corrSession[d]]

StillReferenced(e) ==
    {s \in Tainted(e) : \E d \in Event : s \in {EventsLeft(e)[d], CorrectionsLeft(e)[d]}}

\* A session that still has references gets an opaque stand-in; the others none.
StandIns(e) ==
    {f \in [Tainted(e) -> Fresh \cup {None}] :
        /\ \A s \in Tainted(e) : f[s] # None <=> s \in StillReferenced(e)
        /\ \A s, x \in StillReferenced(e) : f[s] = f[x] => s = x}

Rekeyed(f, s) == IF s \in DOMAIN f THEN f[s] ELSE s

\* Faulty variants: links to the erased session stay; a stand-in is given its
\* session's own new id for a link.
SuccessionUntouched(f) == succeeds
SuccessionOfItself(f) ==
    [s \in Id |-> IF s \in {f[x] : x \in DOMAIN f} THEN s
                  ELSE IF s \in DOMAIN f THEN None
                  ELSE Rekeyed(f, succeeds[s])]

\* The stand-in keeps its session's place in the succession.
SuccessionAfter(f) ==
    [s \in Id |->
        IF \E x \in DOMAIN f : f[x] = s
        THEN Rekeyed(f, succeeds[CHOOSE x \in DOMAIN f : f[x] = s])
        ELSE IF s \in DOMAIN f THEN None
        ELSE Rekeyed(f, succeeds[s])]

\* Faulty variant: a stand-in is open.
EndedForgotten(f) == ended \ DOMAIN f

\* The stand-in of an ended session is ended.
EndedAfter(f) ==
    (ended \ DOMAIN f) \cup {f[s] : s \in {s \in DOMAIN f : s \in ended /\ f[s] # None}}

\* The links of a chain of which nothing is left between two purged events.
LinksAfter(e) ==
    [d \in Event |-> IF repl[d] # None /\ {EventsLeft(e)[d], EventsLeft(e)[repl[d]]} = {None}
                     THEN None ELSE repl[d]]

Purge(e) ==
    /\ inSession[e] # None
    /\ repl' = LinksAfter(e)
    /\ \E f \in StandIns(e) :
          LET minting == {f[s] : s \in DOMAIN f} \ {None} IN
          /\ sessions' = (sessions \ DOMAIN f) \cup minting
          /\ ended' = EndedAfter(f)
          /\ succeeds' = SuccessionAfter(f)
          /\ current' = Rekeyed(f, current)
          /\ inSession' = [d \in Event |-> Rekeyed(f, EventsLeft(e)[d])]
          /\ corrSession' = [d \in Event |-> Rekeyed(f, CorrectionsLeft(e)[d])]
    /\ UNCHANGED <<pc, plan>>

Next ==
    \/ \E p \in Proc : Look(p) \/ Write(p) \/ GiveUp(p) \/ EndLook(p) \/ End(p)
    \/ \E e \in Event : Contradict(e) \/ Purge(e)

Spec == Init /\ [][Next]_vars

-----------------------------------------------------------------------------
\* Rows name rows: an event's session exists (the foreign key), and what a
\* process holds between its two steps is of the kind its next step needs.
TypeOK ==
    /\ sessions \subseteq Id /\ ended \subseteq sessions
    /\ succeeds \in [Id -> Id \cup {None}]
    /\ current \in Id \cup {None}
    /\ inSession \in [Event -> sessions \cup {None}]
    /\ corrSession \in [Event -> sessions \cup {None}]
    /\ repl \in [Event -> Event \cup {None}]
    /\ \A p \in Proc :
        \/ pc[p] = "idle" /\ plan[p] = None
        \/ pc[p] = "write" /\ plan[p].sid \in Id
        \/ pc[p] = "end" /\ plan[p] \subseteq Id

\* The implicit session is open: whatever ends or erases it in another process
\* takes it out of meta too, so that an implicit write never joins a closed one.
CurrentIsOpen == current # None => current \in sessions \ ended

\* What was said in an ended session stays in an ended session: nothing clears
\* ended_at, and a stand-in for an erased session is as ended as it was.
EndedStaysEnded ==
    [][\A e \in Event :
          (inSession[e] \in ended /\ inSession'[e] # None) => inSession'[e] \in ended']_vars

\* A purge leaves no trace of the session ids it erases: not in an event or a
\* correction of another memory, not in the link of a successor, not in meta.
PurgeForgetsSessions ==
    [][\A e \in Event :
          (inSession[e] # None /\ inSession'[e] = None) =>
             \A s \in Tainted(e) :
                /\ s \notin sessions' /\ current' # s
                /\ \A d \in Event : inSession'[d] # s /\ corrSession'[d] # s
                /\ \A x \in sessions' : succeeds'[x] # s]_vars

\* Following succeeds_session never comes back to where it started.
SuccessionHasAnOrigin ==
    \A c \in SUBSET sessions : c # {} => \E s \in c : succeeds[s] \notin c

\* A successor links to a session that is there: purge rekeys or clears every
\* link to an erased one, so that no row republishes its id.
LinksResolve == \A s \in sessions : succeeds[s] \in sessions \cup {None}

\* Shapes; the implicit session is open; links have an origin.
SessionsAreSound == TypeOK /\ CurrentIsOpen /\ SuccessionHasAnOrigin
=============================================================================
