------------------------- MODULE SessionExportProofs -------------------------
(***************************************************************************)
(* Proofs about sessions and about the export that carries them, for every  *)
(* set of names, ids, events and processes of the one and every bound, text *)
(* and time of the other.                                                   *)
(*                                                                         *)
(* SessionChain.  A lookup and its write are two steps, so the invariant     *)
(* speaks of what a process holds in between: an id it minted is nobody's   *)
(* yet, neither a row nor a link nor in another process's plan, whatever    *)
(* ran since.  On that rest both the origin of every succession and what a  *)
(* purge forgets.                                                          *)
(*                                                                         *)
(* ExportSelection.  A bundle is whole because of when rows were written,    *)
(* not only which are there: a session is there by the time of its rows, a  *)
(* correction comes after what it corrects and after what made that, and a  *)
(* commit's cut takes a correction with its replacement even when the clock *)
(* went back in between.  The graph is a function of the memories left, so  *)
(* the invariant says so of every write, and a rebuild finds it so.  What a *)
(* write leaves of an earlier cut rests on its adding rows and closing open *)
(* ones later than the cut, and on nothing else.                           *)
(***************************************************************************)
EXTENDS ExportSelection, SessionChain, TLAPS, FiniteSetTheorems, NaturalsInduction

-----------------------------------------------------------------------------
\* What ensure_session may hand to a write.  Only a minted id succeeds another
\* session or becomes the current one.
Plan ==
    {w \in [sid : Id, new : BOOLEAN, after : Id \cup {None}, claims : BOOLEAN] :
        w.after # None \/ w.claims => w.new /\ w.sid \in Opaque}

PlansAreTyped ==
    /\ pc \in [Proc -> {"idle", "write", "end"}]
    /\ plan = [p \in Proc |-> plan[p]]
    /\ \A p \in Proc : /\ pc[p] = "idle" => plan[p] = None
                       /\ pc[p] = "write" => plan[p] \in Plan
                       /\ pc[p] = "end" => plan[p] \subseteq Id

\* Process p is about to insert a session under an id it minted.
Mints(p) == pc[p] = "write" /\ plan[p].new /\ plan[p].sid \in Opaque

\* A minted id is its holder's alone until it is written.
MintedIsNew ==
    \A p \in Proc : Mints(p) =>
        /\ plan[p].sid \notin sessions
        /\ plan[p].sid # plan[p].after
        /\ \A s \in sessions : succeeds[s] # plan[p].sid
        /\ \A q \in Proc \ {p} : pc[q] = "write" =>
              plan[q].sid # plan[p].sid /\ plan[q].after # plan[p].sid

SessionInv ==
    /\ TypeOK
    /\ PlansAreTyped
    /\ CurrentIsOpen
    /\ MintedIsNew
    /\ SuccessionHasAnOrigin

-----------------------------------------------------------------------------
(* Lookups.                                                                 *)

\* new_id(): no row, link or process has it.
LEMMA FreshIsNew ==
    ASSUME NEW x \in Fresh
    PROVE  /\ x \in Opaque /\ x \notin sessions /\ x # None
           /\ \A s \in sessions : succeeds[s] # x
           /\ \A p \in Proc : pc[p] = "write" => plan[p].sid # x /\ plan[p].after # x
  BY ConstantsDistinct DEF Fresh

\* What ensure_session finds: an open session, or an id for a new one.
LEMMA ChoicesAreSound ==
    ASSUME TypeOK, CurrentIsOpen, NEW s \in sessions \cup Host \cup {None}, NEW w \in SessionChoices(s)
    PROVE  /\ w \in Plan
           /\ ~w.new => w.sid \in sessions \ ended
           /\ w.new => w.sid \notin sessions
           /\ w.new /\ w.sid \in Opaque => w.sid \in Fresh
           /\ w.after \in sessions \cup {None}
<1>1. Fresh \subseteq Opaque /\ Fresh \cap sessions = {}
  BY FreshIsNew
<1>2. sessions \subseteq Id /\ None \notin sessions
  BY ConstantsDistinct DEF TypeOK, Id
<1>3. CASE s = None
  <2>1. CASE w = Use(current) /\ current \in sessions \ ended
    BY <1>2, <2>1 DEF Use, Plan, Id
  <2>2. CASE \E x \in Fresh : w = New(x, None, TRUE)
    BY <1>1, <2>2 DEF New, Plan, Id
  <2>3. QED BY <1>3, <2>1, <2>2 DEF SessionChoices, Implicit
<1>4. CASE s # None
  <2>1. CASE s \notin sessions /\ w = New(s, None, FALSE)
    BY <1>4, <2>1, ConstantsDistinct DEF New, Plan, Id
  <2>2. CASE \E x \in sessions \ ended : w = Use(x)
    BY <1>2, <2>2 DEF Use, Plan, Id
  <2>3. CASE s \in sessions /\ \E x \in Fresh : w = New(x, s, FALSE)
    BY <1>1, <1>2, <2>3 DEF New, Plan, Id
  <2>4. QED BY <1>4, <2>1, <2>2, <2>3 DEF SessionChoices, Named, OpenSuccessors
<1>5. QED BY <1>3, <1>4

-----------------------------------------------------------------------------
(* Opening a session, in observe and in contradict.                         *)

\* What Open needs of its plan in the state in which it writes.
Writable(w) ==
    /\ w \in Plan
    /\ w.new <=> w.sid \notin sessions
    /\ w.after # None => w.sid # w.after /\ \A s \in sessions : succeeds[s] # w.sid

\* A session that opens, and the shape of what it leaves.
LEMMA OpenIsTyped ==
    ASSUME TypeOK, CurrentIsOpen, NEW w, Writable(w), Open(w)
    PROVE  /\ sessions' \subseteq Id /\ sessions \subseteq sessions' /\ w.sid \in sessions'
           /\ ended' \subseteq sessions'
           /\ succeeds' \in [Id -> Id \cup {None}]
           /\ current' \in Id \cup {None}
           /\ CurrentIsOpen'
  BY DEF TypeOK, CurrentIsOpen, Writable, Plan, Open

\* A new row never closes a circle.
LEMMA OpenKeepsTheOrigin ==
    ASSUME TypeOK, SuccessionHasAnOrigin, NEW w, Writable(w), Open(w)
    PROVE  SuccessionHasAnOrigin'
<1>1. CASE ~w.new
  BY <1>1 DEF Open, SuccessionHasAnOrigin
<1>2. CASE w.new
  <2>1. SUFFICES ASSUME NEW c \in SUBSET sessions', c # {}
                 PROVE  \E s \in c : succeeds'[s] \notin c
    BY DEF SuccessionHasAnOrigin
  <2>2. /\ sessions' = sessions \cup {w.sid} /\ w.sid \in Id /\ w.sid \notin sessions
        /\ succeeds'[w.sid] = w.after
        /\ \A s \in sessions : succeeds'[s] = succeeds[s]
    BY <1>2 DEF TypeOK, Open, Writable, Plan
  <2>3. None \notin c
    BY <2>2, ConstantsDistinct DEF TypeOK, Id
  <2>4. CASE w.sid \notin c
    BY <2>1, <2>2, <2>4 DEF SuccessionHasAnOrigin
  <2>5. CASE w.sid \in c /\ w.after = None
    BY <2>2, <2>3, <2>5
  <2>6. CASE w.sid \in c /\ w.after # None
    <3>1. CASE c \ {w.sid} = {}
      BY <2>2, <2>6, <3>1 DEF Writable
    <3>2. CASE c \ {w.sid} # {}
      <4>1. c \ {w.sid} \in SUBSET sessions
        BY <2>1, <2>2
      <4>2. PICK s \in c \ {w.sid} : succeeds[s] \notin c \ {w.sid}
        BY <3>2, <4>1 DEF SuccessionHasAnOrigin
      <4>3. succeeds[s] # w.sid /\ succeeds'[s] = succeeds[s]
        BY <2>2, <2>6, <4>1, <4>2 DEF Writable
      <4>4. QED BY <4>2, <4>3
    <3>3. QED BY <3>1, <3>2
  <2>7. QED BY <2>4, <2>5, <2>6
<1>3. QED BY <1>1, <1>2

-----------------------------------------------------------------------------
(* Purge.                                                                   *)

\* The stand-ins of a purge: every session of the erased memory that is still
\* referenced has one of its own, no other has, and the ids are new.
LEMMA StandInsAreNew ==
    ASSUME TypeOK, NEW e \in Event, NEW f \in StandIns(e)
    PROVE  /\ DOMAIN f = Tainted(e) /\ Tainted(e) \subseteq sessions
           /\ \A s \in Tainted(e) : f[s] # None => s \in StillReferenced(e) /\ f[s] \in Fresh
           /\ \A s \in StillReferenced(e) : s \in Tainted(e) /\ f[s] # None
           /\ \A s, x \in Tainted(e) : f[s] = f[x] /\ f[s] # None => s = x
<1>1. f \in [Tainted(e) -> Fresh \cup {None}]
  BY DEF StandIns
<1>2. Tainted(e) \subseteq sessions
  BY DEF Tainted, TypeOK, Adjacent
<1>3. \A s \in Tainted(e) : f[s] # None <=> s \in StillReferenced(e)
  BY DEF StandIns
<1>4. \A s, x \in StillReferenced(e) : f[s] = f[x] => s = x
  BY DEF StandIns
<1>5. StillReferenced(e) \subseteq Tainted(e)
  BY DEF StillReferenced
<1>6. QED BY <1>1, <1>2, <1>3, <1>4, <1>5

\* Purge e rekeys by f.
PurgeBy(e, f) ==
    /\ f \in StandIns(e)
    /\ sessions' = (sessions \ DOMAIN f) \cup ({f[s] : s \in DOMAIN f} \ {None})
    /\ ended' = EndedAfter(f)
    /\ succeeds' = SuccessionAfter(f)
    /\ current' = Rekeyed(f, current)
    /\ inSession' = [d \in Event |-> Rekeyed(f, EventsLeft(e)[d])]
    /\ corrSession' = [d \in Event |-> Rekeyed(f, CorrectionsLeft(e)[d])]

\* A session keeps its row or passes it to its stand-in, with its end and the
\* link of its row rekeyed; and every row after a purge has such an origin.
LEMMA PurgeRekeys ==
    ASSUME TypeOK, NEW e \in Event, NEW f, PurgeBy(e, f)
    PROVE  /\ \A s \in sessions : Rekeyed(f, s) # None =>
                /\ Rekeyed(f, s) \in sessions'
                /\ succeeds'[Rekeyed(f, s)] = Rekeyed(f, succeeds[s])
                /\ Rekeyed(f, s) \in ended' <=> s \in ended
           /\ \A x \in sessions' : \E s \in sessions : Rekeyed(f, s) = x
           /\ \A s \in Tainted(e) : s \notin sessions'
<1>1. /\ DOMAIN f = Tainted(e) /\ Tainted(e) \subseteq sessions
      /\ \A s \in Tainted(e) : f[s] # None => s \in StillReferenced(e) /\ f[s] \in Fresh
      /\ \A s, x \in Tainted(e) : f[s] = f[x] /\ f[s] # None => s = x
  BY StandInsAreNew DEF PurgeBy
<1>2. /\ sessions \subseteq Id /\ ended \subseteq sessions /\ None \notin Id
      /\ Fresh \cap sessions = {} /\ Fresh \subseteq Id
  BY FreshIsNew, ConstantsDistinct DEF TypeOK, Id
<1>3. \A s \in Tainted(e) : s \notin sessions'
  BY <1>1, <1>2 DEF PurgeBy
<1>4. \A x \in sessions' : \E s \in sessions : Rekeyed(f, s) = x
  BY <1>1 DEF PurgeBy, Rekeyed
<1>5. ASSUME NEW s \in sessions, Rekeyed(f, s) # None
      PROVE  /\ Rekeyed(f, s) \in sessions'
             /\ succeeds'[Rekeyed(f, s)] = Rekeyed(f, succeeds[s])
             /\ Rekeyed(f, s) \in ended' <=> s \in ended
  <2>1. CASE s \in Tainted(e)
    <3>1. Rekeyed(f, s) = f[s] /\ f[s] \in Fresh /\ f[s] \in Id
      BY <1>1, <1>2, <1>5, <2>1 DEF Rekeyed
    <3>2. f[s] \in sessions'
      BY <1>1, <1>5, <2>1, <3>1 DEF PurgeBy
    <3>3. (CHOOSE x \in DOMAIN f : f[x] = f[s]) = s
      BY <1>1, <1>5, <2>1, <3>1
    <3>4. succeeds'[f[s]] = Rekeyed(f, succeeds[s])
      BY <1>1, <2>1, <3>1, <3>3 DEF PurgeBy, SuccessionAfter
    <3>5. f[s] \in ended' <=> s \in ended
      BY <1>1, <1>2, <1>5, <2>1, <3>1 DEF PurgeBy, EndedAfter
    <3>6. QED BY <3>1, <3>2, <3>4, <3>5
  <2>2. CASE s \notin Tainted(e)
    <3>1. Rekeyed(f, s) = s /\ s \in Id /\ s # None
      BY <1>1, <1>2, <2>2 DEF Rekeyed
    <3>2. s \in sessions'
      BY <1>1, <2>2 DEF PurgeBy
    <3>3. ~\E x \in DOMAIN f : f[x] = s
      BY <1>1, <1>2, <3>1
    <3>4. succeeds'[s] = Rekeyed(f, succeeds[s])
      BY <1>1, <2>2, <3>1, <3>3 DEF PurgeBy, SuccessionAfter
    <3>5. s \in ended' <=> s \in ended
      BY <1>1, <2>2, <3>1, <3>3 DEF PurgeBy, EndedAfter
    <3>6. QED BY <3>1, <3>2, <3>4, <3>5
  <2>3. QED BY <2>1, <2>2
<1>6. QED BY <1>3, <1>4, <1>5

\* Stand-ins for the sessions that name the purged event keep every shape.
LEMMA PurgeIsTyped ==
    ASSUME TypeOK, PlansAreTyped, NEW e \in Event, NEW f, PurgeBy(e, f),
           repl' = LinksAfter(e), UNCHANGED <<pc, plan>>
    PROVE  TypeOK'
<1>1. /\ DOMAIN f = Tainted(e) /\ Tainted(e) \subseteq sessions
      /\ \A s \in Tainted(e) : f[s] # None => f[s] \in Fresh
      /\ \A s \in StillReferenced(e) : s \in Tainted(e) /\ f[s] # None
  BY StandInsAreNew DEF PurgeBy
<1>2. Fresh \subseteq Id /\ sessions \subseteq Id /\ None \notin Id
  BY FreshIsNew, ConstantsDistinct DEF TypeOK, Id
<1>3. sessions' \subseteq Id
  BY <1>1, <1>2 DEF PurgeBy
<1>4. ended' \subseteq sessions'
  BY <1>1 DEF PurgeBy, EndedAfter, TypeOK
<1>5. \A s \in Id \cup {None} : Rekeyed(f, s) \in Id \cup {None}
  BY <1>1, <1>2 DEF Rekeyed
<1>6. succeeds' \in [Id -> Id \cup {None}]
  <2>1. ASSUME NEW s \in Id PROVE SuccessionAfter(f)[s] \in Id \cup {None}
    <3>1. CASE \E x \in DOMAIN f : f[x] = s
      <4>1. (CHOOSE x \in DOMAIN f : f[x] = s) \in Id
        BY <1>1, <1>2, <3>1
      <4>2. QED BY <1>5, <3>1, <4>1 DEF SuccessionAfter, TypeOK
    <3>2. CASE ~\E x \in DOMAIN f : f[x] = s
      BY <1>5, <3>2 DEF SuccessionAfter, TypeOK
    <3>3. QED BY <3>1, <3>2
  <2>2. QED BY <2>1 DEF PurgeBy, SuccessionAfter
<1>7. current' \in Id \cup {None}
  BY <1>5 DEF PurgeBy, TypeOK
<1>8. /\ EventsLeft(e) \in [Event -> sessions \cup {None}]
      /\ CorrectionsLeft(e) \in [Event -> sessions \cup {None}]
  BY DEF TypeOK, EventsLeft, CorrectionsLeft
<1>9. ASSUME NEW g \in [Event -> sessions \cup {None}], g \in {EventsLeft(e), CorrectionsLeft(e)},
             NEW d \in Event
      PROVE  Rekeyed(f, g[d]) \in sessions' \cup {None}
  <2>1. CASE g[d] \in Tainted(e)
    <3>1. g[d] \in StillReferenced(e)
      BY <1>9, <2>1 DEF StillReferenced
    <3>2. QED BY <1>1, <2>1, <3>1 DEF PurgeBy, Rekeyed
  <2>2. CASE g[d] \notin Tainted(e)
    BY <1>1, <2>2 DEF PurgeBy, Rekeyed
  <2>3. QED BY <2>1, <2>2
<1>10. inSession' \in [Event -> sessions' \cup {None}]
  BY <1>8, <1>9 DEF PurgeBy
<1>11. corrSession' \in [Event -> sessions' \cup {None}]
  BY <1>8, <1>9 DEF PurgeBy
<1>12. repl' \in [Event -> Event \cup {None}]
  BY DEF LinksAfter, TypeOK
<1>13. QED BY <1>3, <1>4, <1>6, <1>7, <1>10, <1>11, <1>12 DEF TypeOK

\* The implicit session is kept, rekeyed, or forgotten with its last reference.
LEMMA PurgeKeepsCurrentOpen ==
    ASSUME TypeOK, CurrentIsOpen, NEW e \in Event, NEW f, PurgeBy(e, f)
    PROVE  CurrentIsOpen'
<1>1. CASE current \in sessions \ ended
  BY <1>1, PurgeRekeys DEF CurrentIsOpen, PurgeBy
<1>2. CASE current = None
  <2>1. Rekeyed(f, None) = None
    BY StandInsAreNew, ConstantsDistinct DEF PurgeBy, Rekeyed, TypeOK, Id
  <2>2. QED BY <1>2, <2>1 DEF CurrentIsOpen, PurgeBy
<1>3. QED BY <1>1, <1>2 DEF CurrentIsOpen

\* A link leads out of a set of rekeyed sessions as it led out of their origins.
LEMMA PurgeKeepsTheOrigin ==
    ASSUME TypeOK, SuccessionHasAnOrigin, NEW e \in Event, NEW f, PurgeBy(e, f)
    PROVE  SuccessionHasAnOrigin'
<1>1. SUFFICES ASSUME NEW c \in SUBSET sessions', c # {}
               PROVE  \E s \in c : succeeds'[s] \notin c
  BY DEF SuccessionHasAnOrigin
<1> DEFINE origins == {s \in sessions : Rekeyed(f, s) \in c}
<1>2. origins # {} /\ origins \in SUBSET sessions
  BY <1>1, PurgeRekeys
<1>3. PICK s \in origins : succeeds[s] \notin origins
  BY <1>2 DEF SuccessionHasAnOrigin
<1>4. Rekeyed(f, s) \in c /\ Rekeyed(f, s) # None
  <2>1. None \notin sessions'
    <3>1. None \notin sessions
      BY ConstantsDistinct DEF TypeOK, Id
    <3>2. QED BY <3>1 DEF PurgeBy
  <2>2. QED BY <1>1, <1>3, <2>1
<1>5. succeeds'[Rekeyed(f, s)] = Rekeyed(f, succeeds[s])
  BY <1>3, <1>4, PurgeRekeys
<1>6. Rekeyed(f, succeeds[s]) \notin c
  <2>1. CASE succeeds[s] \in sessions
    BY <1>3, <2>1
  <2>2. CASE succeeds[s] \notin sessions
    <3>1. Rekeyed(f, succeeds[s]) = succeeds[s]
      BY <2>2, StandInsAreNew DEF PurgeBy, Rekeyed
    <3>2. \A x \in sessions' : x \in sessions \/ x \in Fresh
      BY StandInsAreNew DEF PurgeBy
    <3>3. succeeds[s] \notin Fresh
      BY <1>3, FreshIsNew
    <3>4. QED BY <1>1, <2>2, <3>1, <3>2, <3>3
  <2>3. QED BY <2>1, <2>2
<1>7. QED BY <1>4, <1>5, <1>6

\* Nothing is rekeyed to an erased session.
LEMMA PurgeForgets ==
    ASSUME TypeOK, NEW e \in Event, NEW f \in StandIns(e), NEW v
    PROVE  Rekeyed(f, v) \notin Tainted(e)
<1>1. None \notin sessions
  BY ConstantsDistinct DEF TypeOK, Id
<1>2. QED BY <1>1, StandInsAreNew, FreshIsNew DEF Rekeyed

\* A purge leaves every other event in a session.
LEMMA PurgeKeepsOthers ==
    ASSUME TypeOK, NEW e \in Event, NEW f, PurgeBy(e, f),
           NEW d \in Event \ {e}, inSession[d] # None
    PROVE  inSession'[d] = Rekeyed(f, inSession[d]) /\ inSession'[d] # None
<1>1. EventsLeft(e)[d] = inSession[d]
  BY DEF EventsLeft, TypeOK
<1>2. inSession[d] \in Tainted(e) => inSession[d] \in StillReferenced(e)
  BY <1>1 DEF StillReferenced
<1>3. QED BY <1>1, <1>2, StandInsAreNew DEF PurgeBy, Rekeyed

-----------------------------------------------------------------------------
(* What processes hold.                                                     *)

\* A step that hands out no new plan, and neither inserts nor links a session
\* another process is about to insert, leaves minted ids new.
LEMMA MintedStaysNew ==
    ASSUME MintedIsNew,
           \A q \in Proc : pc'[q] = "write" => pc[q] = "write" /\ plan'[q] = plan[q],
           \A q \in Proc : Mints(q) /\ pc'[q] = "write" =>
               plan[q].sid \notin sessions' /\ \A s \in sessions' : succeeds'[s] # plan[q].sid
    PROVE  MintedIsNew'
<1>1. SUFFICES ASSUME NEW p \in Proc, Mints(p)'
               PROVE  /\ plan[p].sid \notin sessions'
                      /\ plan[p].sid # plan[p].after
                      /\ \A s \in sessions' : succeeds'[s] # plan[p].sid
                      /\ \A q \in Proc \ {p} : pc'[q] = "write" =>
                            plan[q].sid # plan[p].sid /\ plan[q].after # plan[p].sid
  BY DEF MintedIsNew, Mints
<1>2. Mints(p) /\ pc'[p] = "write"
  BY <1>1 DEF Mints
<1>3. QED BY <1>2 DEF MintedIsNew

\* A process back to idle forgets what it held, as at the end of a write.
LEMMA IdleIsTyped ==
    ASSUME PlansAreTyped, NEW p \in Proc, pc' = [pc EXCEPT ![p] = "idle"],
           plan' = [plan EXCEPT ![p] = None]
    PROVE  /\ PlansAreTyped'
           /\ \A q \in Proc : pc'[q] = "write" => q # p /\ pc[q] = "write" /\ plan'[q] = plan[q]
<1>1. /\ \A q \in Proc \ {p} : pc'[q] = pc[q] /\ plan'[q] = plan[q]
      /\ pc'[p] = "idle" /\ plan'[p] = None
      /\ pc' \in [Proc -> {"idle", "write", "end"}]
      /\ plan' = [q \in Proc |-> plan'[q]]
  BY DEF PlansAreTyped
<1>2. QED BY <1>1 DEF PlansAreTyped

\* What a process read before its write lock.
LEMMA LookKeeps ==
    ASSUME SessionInv, NEW p \in Proc, Look(p)
    PROVE  SessionInv'
<1>0. PICK s \in sessions \cup Host \cup {None} :
         \E w \in SessionChoices(s) : plan' = [plan EXCEPT ![p] = w]
  BY DEF Look
<1>1. PICK w \in SessionChoices(s) : plan' = [plan EXCEPT ![p] = w]
  BY <1>0
<1>2. /\ w \in Plan
      /\ w.new => w.sid \notin sessions
      /\ w.new /\ w.sid \in Opaque => w.sid \in Fresh
      /\ ~w.new => w.sid \in sessions
      /\ w.after \in sessions \cup {None}
  BY ChoicesAreSound DEF SessionInv
<1>3. /\ \A q \in Proc \ {p} : pc'[q] = pc[q] /\ plan'[q] = plan[q]
      /\ pc'[p] = "write" /\ plan'[p] = w
      /\ pc' \in [Proc -> {"idle", "write", "end"}]
      /\ plan' = [q \in Proc |-> plan'[q]]
  BY <1>1 DEF SessionInv, PlansAreTyped, Look
<1>4. PlansAreTyped'
  BY <1>2, <1>3 DEF SessionInv, PlansAreTyped, Plan, Id
<1>5. TypeOK'
  BY <1>4 DEF SessionInv, TypeOK, Look, tables, PlansAreTyped, Plan
<1>6. MintedIsNew'
  <2>1. SUFFICES ASSUME NEW q \in Proc, Mints(q)'
                 PROVE  /\ plan'[q].sid \notin sessions
                        /\ plan'[q].sid # plan'[q].after
                        /\ \A x \in sessions : succeeds[x] # plan'[q].sid
                        /\ \A r \in Proc \ {q} : pc'[r] = "write" =>
                              plan'[r].sid # plan'[q].sid /\ plan'[r].after # plan'[q].sid
    BY DEF MintedIsNew, Mints, Look, tables
  <2>2. CASE q = p
    <3>1. w.sid \in Fresh
      BY <1>2, <1>3, <2>1, <2>2 DEF Mints
    <3>2. w.sid # w.after
      BY <1>2, <3>1, FreshIsNew
    <3>3. QED BY <1>3, <2>2, <3>1, <3>2, FreshIsNew
  <2>3. CASE q # p
    <3>1. Mints(q) /\ plan'[q] = plan[q]
      BY <1>3, <2>1, <2>3 DEF Mints
    <3>2. plan[q].sid \in Opaque /\ plan[q].sid \notin sessions /\ plan[q].sid # None
      BY <3>1, ConstantsDistinct DEF SessionInv, MintedIsNew, Mints
    <3>3. w.sid # plan[q].sid /\ w.after # plan[q].sid
      BY <1>2, <3>1, <3>2, FreshIsNew DEF Mints
    <3>4. QED BY <1>3, <2>3, <3>1, <3>3 DEF SessionInv, MintedIsNew
  <2>4. QED BY <2>2, <2>3
<1>7. CurrentIsOpen' /\ SuccessionHasAnOrigin'
  BY DEF SessionInv, CurrentIsOpen, SuccessionHasAnOrigin, Look, tables
<1>8. QED BY <1>4, <1>5, <1>6, <1>7 DEF SessionInv

\* The write of an observation, under the write lock.
LEMMA WriteKeeps ==
    ASSUME SessionInv, NEW p \in Proc, Write(p)
    PROVE  SessionInv'
<1> DEFINE w == plan[p]
<1>1. w \in Plan
  BY DEF SessionInv, PlansAreTyped, Write
<1>2. Writable(w) /\ Open(w)
  BY <1>1 DEF SessionInv, MintedIsNew, Mints, Writable, Plan, Write, Accepted
<1>3. /\ sessions' \subseteq Id /\ sessions \subseteq sessions' /\ w.sid \in sessions'
      /\ ended' \subseteq sessions'
      /\ succeeds' \in [Id -> Id \cup {None}]
      /\ current' \in Id \cup {None}
      /\ CurrentIsOpen'
  BY <1>2, OpenIsTyped DEF SessionInv
<1>4. SuccessionHasAnOrigin'
  BY <1>2, OpenKeepsTheOrigin DEF SessionInv
<1>5. /\ PlansAreTyped'
      /\ \A q \in Proc : pc'[q] = "write" => q # p /\ pc[q] = "write" /\ plan'[q] = plan[q]
  BY IdleIsTyped DEF SessionInv, Write
<1>6. TypeOK'
  <2>1. /\ inSession' \in [Event -> sessions' \cup {None}]
        /\ corrSession' \in [Event -> sessions' \cup {None}]
        /\ repl' \in [Event -> Event \cup {None}]
    BY <1>3 DEF SessionInv, TypeOK, Write, Unused
  <2>2. QED BY <1>3, <1>5, <2>1 DEF TypeOK, PlansAreTyped, Plan
<1>7. MintedIsNew'
  <2>1. ASSUME NEW q \in Proc, Mints(q), pc'[q] = "write"
        PROVE  plan[q].sid \notin sessions' /\ \A s \in sessions' : succeeds'[s] # plan[q].sid
    <3>1. /\ plan[q].sid \notin sessions /\ plan[q].sid \in Opaque
          /\ \A s \in sessions : succeeds[s] # plan[q].sid
          /\ w.sid # plan[q].sid /\ w.after # plan[q].sid
      BY <1>5, <2>1 DEF SessionInv, MintedIsNew, Mints, Write
    <3>2. sessions \subseteq Id /\ succeeds \in [Id -> Id \cup {None}] /\ w.sid \in Id
      BY <1>1 DEF SessionInv, TypeOK, Plan
    <3>3. QED BY <1>2, <3>1, <3>2 DEF Open
  <2>2. QED BY <1>5, <2>1, MintedStaysNew DEF SessionInv
<1>8. QED BY <1>3, <1>4, <1>5, <1>6, <1>7 DEF SessionInv

\* A write that never got its lock.
LEMMA GiveUpKeeps ==
    ASSUME SessionInv, NEW p \in Proc, GiveUp(p)
    PROVE  SessionInv'
<1>1. /\ PlansAreTyped'
      /\ \A q \in Proc : pc'[q] = "write" => q # p /\ pc[q] = "write" /\ plan'[q] = plan[q]
  BY IdleIsTyped DEF SessionInv, GiveUp
<1>2. TypeOK'
  BY <1>1 DEF SessionInv, TypeOK, GiveUp, tables, PlansAreTyped, Plan
<1>3. \A q \in Proc : Mints(q) /\ pc'[q] = "write" =>
         plan[q].sid \notin sessions' /\ \A s \in sessions' : succeeds'[s] # plan[q].sid
  BY DEF SessionInv, MintedIsNew, GiveUp, tables
<1>4. MintedIsNew'
  BY <1>1, <1>3, MintedStaysNew DEF SessionInv
<1>5. CurrentIsOpen' /\ SuccessionHasAnOrigin'
  BY DEF SessionInv, CurrentIsOpen, SuccessionHasAnOrigin, GiveUp, tables
<1>6. QED BY <1>1, <1>2, <1>4, <1>5 DEF SessionInv

\* What end_session read before its write lock.
LEMMA EndLookKeeps ==
    ASSUME SessionInv, NEW p \in Proc, EndLook(p)
    PROVE  SessionInv'
<1>1. PICK s \in sessions : plan' = [plan EXCEPT ![p] = {s} \cup OpenSuccessors(s)]
  BY DEF EndLook
<1>2. {s} \cup OpenSuccessors(s) \subseteq Id
  BY DEF OpenSuccessors, SessionInv, TypeOK
<1>3. /\ \A q \in Proc \ {p} : pc'[q] = pc[q] /\ plan'[q] = plan[q]
      /\ pc'[p] = "end" /\ plan'[p] = {s} \cup OpenSuccessors(s)
      /\ pc' \in [Proc -> {"idle", "write", "end"}]
      /\ plan' = [q \in Proc |-> plan'[q]]
  BY <1>1 DEF SessionInv, PlansAreTyped, EndLook
<1>4. PlansAreTyped'
  BY <1>2, <1>3 DEF SessionInv, PlansAreTyped
<1>5. TypeOK'
  BY <1>4 DEF SessionInv, TypeOK, EndLook, tables, PlansAreTyped, Plan
<1>6. \A q \in Proc : Mints(q) /\ pc'[q] = "write" =>
         plan[q].sid \notin sessions' /\ \A x \in sessions' : succeeds'[x] # plan[q].sid
  BY DEF SessionInv, MintedIsNew, EndLook, tables
<1>7. MintedIsNew'
  BY <1>3, <1>6, MintedStaysNew DEF SessionInv
<1>8. CurrentIsOpen' /\ SuccessionHasAnOrigin'
  BY DEF SessionInv, CurrentIsOpen, SuccessionHasAnOrigin, EndLook, tables
<1>9. QED BY <1>4, <1>5, <1>7, <1>8 DEF SessionInv

\* end_session takes the sessions it closes out of meta.
LEMMA EndKeeps ==
    ASSUME SessionInv, NEW p \in Proc, End(p)
    PROVE  SessionInv'
<1>1. /\ PlansAreTyped'
      /\ \A q \in Proc : pc'[q] = "write" => q # p /\ pc[q] = "write" /\ plan'[q] = plan[q]
  BY IdleIsTyped DEF SessionInv, End
<1>2. TypeOK'
  BY <1>1 DEF SessionInv, TypeOK, End, Ending, PlansAreTyped, Plan
<1>3. \A q \in Proc : Mints(q) /\ pc'[q] = "write" =>
         plan[q].sid \notin sessions' /\ \A s \in sessions' : succeeds'[s] # plan[q].sid
  BY DEF SessionInv, MintedIsNew, End
<1>4. MintedIsNew'
  BY <1>1, <1>3, MintedStaysNew DEF SessionInv
<1>5. CurrentIsOpen' /\ SuccessionHasAnOrigin'
  BY DEF SessionInv, CurrentIsOpen, SuccessionHasAnOrigin, End, Ending
<1>6. QED BY <1>1, <1>2, <1>4, <1>5 DEF SessionInv

\* contradict chooses and writes in one transaction.
LEMMA ContradictKeeps ==
    ASSUME SessionInv, NEW d \in Event, Contradict(d)
    PROVE  SessionInv'
<1>0. PICK s \in sessions \cup Host \cup {None} : \E w \in SessionChoices(s) :
         /\ Open(w)
         /\ corrSession' = [corrSession EXCEPT ![d] = w.sid]
         /\ \/ \E e \in Unused : /\ inSession' = [inSession EXCEPT ![e] = w.sid]
                                 /\ repl' = [repl EXCEPT ![d] = e]
            \/ UNCHANGED <<inSession, repl>>
  BY DEF Contradict
<1>1. PICK w \in SessionChoices(s) :
         /\ Open(w)
         /\ corrSession' = [corrSession EXCEPT ![d] = w.sid]
         /\ \/ \E e \in Unused : /\ inSession' = [inSession EXCEPT ![e] = w.sid]
                                 /\ repl' = [repl EXCEPT ![d] = e]
            \/ UNCHANGED <<inSession, repl>>
  BY <1>0
<1>2. /\ w \in Plan
      /\ w.new => w.sid \notin sessions
      /\ w.new /\ w.sid \in Opaque => w.sid \in Fresh
      /\ ~w.new => w.sid \in sessions
      /\ w.after \in sessions \cup {None}
  BY ChoicesAreSound DEF SessionInv
<1>3. Writable(w)
  <2>1. CASE w.after # None
    <3>1. w.sid \in Fresh
      BY <1>2, <2>1 DEF Plan
    <3>2. QED BY <1>2, <2>1, <3>1, FreshIsNew DEF Writable
  <2>2. CASE w.after = None
    BY <1>2, <2>2 DEF Writable
  <2>3. QED BY <2>1, <2>2
<1>4. /\ sessions' \subseteq Id /\ sessions \subseteq sessions' /\ w.sid \in sessions'
      /\ ended' \subseteq sessions'
      /\ succeeds' \in [Id -> Id \cup {None}]
      /\ current' \in Id \cup {None}
      /\ CurrentIsOpen'
  BY <1>1, <1>3, OpenIsTyped DEF SessionInv
<1>5. SuccessionHasAnOrigin'
  BY <1>1, <1>3, OpenKeepsTheOrigin DEF SessionInv
<1>6. PlansAreTyped'
  BY DEF SessionInv, PlansAreTyped, Contradict
<1>7. TypeOK'
  <2>1. /\ inSession' \in [Event -> sessions' \cup {None}]
        /\ corrSession' \in [Event -> sessions' \cup {None}]
        /\ repl' \in [Event -> Event \cup {None}]
    BY <1>1, <1>4 DEF SessionInv, TypeOK, Unused
  <2>2. QED BY <1>4, <1>6, <2>1 DEF TypeOK, PlansAreTyped, Plan
<1>8. MintedIsNew'
  <2>1. ASSUME NEW q \in Proc, Mints(q)
        PROVE  plan[q].sid \notin sessions' /\ \A x \in sessions' : succeeds'[x] # plan[q].sid
    <3>1. /\ plan[q].sid \notin sessions /\ plan[q].sid \in Opaque
          /\ \A x \in sessions : succeeds[x] # plan[q].sid
      BY <2>1 DEF SessionInv, MintedIsNew, Mints
    <3>2. w.sid # plan[q].sid
      BY <1>2, <2>1, <3>1, FreshIsNew DEF Mints
    <3>3. w.after # plan[q].sid
      BY <1>2, <3>1, ConstantsDistinct
    <3>4. sessions \subseteq Id /\ succeeds \in [Id -> Id \cup {None}] /\ w.sid \in Id
      BY <1>2 DEF SessionInv, TypeOK, Plan
    <3>5. QED BY <1>1, <3>1, <3>2, <3>3, <3>4 DEF Open
  <2>2. \A q \in Proc : pc'[q] = "write" => pc[q] = "write" /\ plan'[q] = plan[q]
    BY DEF Contradict
  <2>3. QED BY <2>1, <2>2, MintedStaysNew DEF SessionInv
<1>9. QED BY <1>4, <1>5, <1>6, <1>7, <1>8 DEF SessionInv

\* A purge gives the sessions that name the event their stand-ins.
LEMMA PurgeKeeps ==
    ASSUME SessionInv, NEW e \in Event, Purge(e)
    PROVE  SessionInv'
<1>1. PICK f : PurgeBy(e, f)
  BY DEF Purge, PurgeBy
<1>2. PlansAreTyped'
  BY DEF SessionInv, PlansAreTyped, Purge
<1>3. TypeOK'
  BY <1>1, PurgeIsTyped DEF SessionInv, Purge
<1>4. CurrentIsOpen'
  BY <1>1, PurgeKeepsCurrentOpen DEF SessionInv
<1>5. SuccessionHasAnOrigin'
  BY <1>1, PurgeKeepsTheOrigin DEF SessionInv
<1>6. MintedIsNew'
  <2>1. ASSUME NEW q \in Proc, Mints(q)
        PROVE  plan[q].sid \notin sessions' /\ \A x \in sessions' : succeeds'[x] # plan[q].sid
    <3>1. /\ plan[q].sid \notin sessions /\ plan[q].sid \in Opaque /\ plan[q].sid # None
          /\ plan[q].sid \notin Fresh
          /\ \A x \in sessions : succeeds[x] # plan[q].sid
      BY <2>1, FreshIsNew, ConstantsDistinct DEF SessionInv, MintedIsNew, Mints
    <3>2. \A v : v # plan[q].sid => Rekeyed(f, v) # plan[q].sid
      BY <1>1, <3>1, StandInsAreNew DEF SessionInv, PurgeBy, Rekeyed
    <3>3. None \notin sessions'
      BY <1>3, ConstantsDistinct DEF TypeOK, Id
    <3>4. \A x \in sessions' : \E s \in sessions : x = Rekeyed(f, s) /\ succeeds'[x] = Rekeyed(f, succeeds[s])
      BY <1>1, <3>3, PurgeRekeys DEF SessionInv
    <3>5. QED BY <3>1, <3>2, <3>4
  <2>2. \A q \in Proc : pc'[q] = "write" => pc[q] = "write" /\ plan'[q] = plan[q]
    BY DEF Purge
  <2>3. QED BY <2>1, <2>2, MintedStaysNew DEF SessionInv
<1>7. QED BY <1>2, <1>3, <1>4, <1>5, <1>6 DEF SessionInv

-----------------------------------------------------------------------------
(* The theorems.                                                            *)

\* No row, no process, no link: nothing to keep.
LEMMA InitIsSound == Init => SessionInv
  BY ConstantsDistinct DEF Init, SessionInv, TypeOK, PlansAreTyped, CurrentIsOpen,
     MintedIsNew, Mints, SuccessionHasAnOrigin, Id

\* Every step of observe, contradict, end_session and purge keeps the invariant.
LEMMA StepsAreSound == SessionInv /\ [Next]_vars => SessionInv'
<1>1. SUFFICES ASSUME SessionInv, [Next]_vars PROVE SessionInv'
  OBVIOUS
<1>2. CASE UNCHANGED vars
  BY <1>1, <1>2 DEF vars, SessionInv, TypeOK, PlansAreTyped, CurrentIsOpen, MintedIsNew, Mints,
     SuccessionHasAnOrigin
<1>3. ASSUME NEW p \in Proc, Look(p) PROVE SessionInv'
  BY <1>1, <1>3, LookKeeps
<1>4. ASSUME NEW p \in Proc, Write(p) PROVE SessionInv'
  BY <1>1, <1>4, WriteKeeps
<1>5. ASSUME NEW p \in Proc, GiveUp(p) PROVE SessionInv'
  BY <1>1, <1>5, GiveUpKeeps
<1>6. ASSUME NEW p \in Proc, EndLook(p) PROVE SessionInv'
  BY <1>1, <1>6, EndLookKeeps
<1>7. ASSUME NEW p \in Proc, End(p) PROVE SessionInv'
  BY <1>1, <1>7, EndKeeps
<1>8. ASSUME NEW e \in Event, Contradict(e) PROVE SessionInv'
  BY <1>1, <1>8, ContradictKeeps
<1>9. ASSUME NEW e \in Event, Purge(e) PROVE SessionInv'
  BY <1>1, <1>9, PurgeKeeps
<1>10. QED BY <1>1, <1>2, <1>3, <1>4, <1>5, <1>6, <1>7, <1>8, <1>9 DEF Next

\* What observe, contradict, end_session and purge of the sessions of a
\* namespace keep, however the lookups and writes of processes interleave.
THEOREM SessionInvariant == Spec => []SessionInv
  BY InitIsSound, StepsAreSound, PTL DEF Spec

\* Events and corrections are in sessions that are there, the implicit session
\* is open, and no succession of sessions comes back to where it started.
THEOREM SessionsStaySound == Spec => []SessionsAreSound
<1>1. SessionInv => SessionsAreSound
  BY DEF SessionInv, SessionsAreSound
<1>2. QED BY <1>1, SessionInvariant, PTL

\* end_session is for good: no purge of another memory reopens the session an
\* event is in by giving it an open stand-in.
THEOREM EndIsForGood == Spec => EndedStaysEnded
<1>1. SessionInv /\ [Next]_vars =>
        [\A e \in Event :
           (inSession[e] \in ended /\ inSession'[e] # None) => inSession'[e] \in ended']_vars
  <2>1. SUFFICES ASSUME SessionInv, Next, NEW e \in Event, inSession[e] \in ended, inSession'[e] # None
                 PROVE  inSession'[e] \in ended'
    OBVIOUS
  <2>2. inSession[e] # None /\ inSession[e] \in sessions /\ e \notin Unused
    BY <2>1, ConstantsDistinct DEF SessionInv, TypeOK, Id, Unused
  <2>3. CASE \E p \in Proc : Look(p) \/ GiveUp(p) \/ EndLook(p)
    BY <2>1, <2>3 DEF Look, GiveUp, EndLook, tables
  <2>4. CASE \E p \in Proc : Write(p)
    BY <2>1, <2>2, <2>4 DEF Write, Open, SessionInv, TypeOK
  <2>5. CASE \E p \in Proc : End(p)
    BY <2>1, <2>5 DEF End
  <2>6. CASE \E d \in Event : Contradict(d)
    BY <2>1, <2>2, <2>6 DEF Contradict, Open, SessionInv, TypeOK
  <2>7. ASSUME NEW d \in Event, Purge(d) PROVE inSession'[e] \in ended'
    <3>1. PICK f : PurgeBy(d, f)
      BY <2>7 DEF Purge, PurgeBy
    <3>2. TypeOK
      BY <2>1 DEF SessionInv
    <3>3. CASE e = d
      <4>1. inSession'[e] = Rekeyed(f, None)
        BY <3>1, <3>2, <3>3 DEF PurgeBy, EventsLeft, TypeOK
      <4>2. Rekeyed(f, None) = None
        BY <3>1, <3>2, StandInsAreNew, ConstantsDistinct DEF PurgeBy, Rekeyed, TypeOK, Id
      <4>3. QED BY <2>1, <4>1, <4>2
    <3>4. CASE e # d
      <4>1. inSession'[e] = Rekeyed(f, inSession[e]) /\ inSession'[e] # None
        BY <2>2, <3>1, <3>2, <3>4, PurgeKeepsOthers
      <4>2. QED BY <2>1, <2>2, <3>1, <3>2, <4>1, PurgeRekeys
    <3>5. QED BY <3>3, <3>4
  <2>8. QED BY <2>1, <2>3, <2>4, <2>5, <2>6, <2>7 DEF Next
<1>2. QED BY <1>1, SessionInvariant, PTL DEF Spec, EndedStaysEnded

\* A purge rekeys or clears every trace of the sessions of the erased memory:
\* events, corrections, successors' links and meta.
THEOREM PurgeForgetsEverySession == Spec => PurgeForgetsSessions
<1>1. SessionInv /\ [Next]_vars =>
        [\A e \in Event :
           (inSession[e] # None /\ inSession'[e] = None) =>
              \A s \in Tainted(e) :
                 /\ s \notin sessions' /\ current' # s
                 /\ \A d \in Event : inSession'[d] # s /\ corrSession'[d] # s
                 /\ \A x \in sessions' : succeeds'[x] # s]_vars
  <2>1. SUFFICES ASSUME SessionInv, Next, NEW e \in Event, inSession[e] # None, inSession'[e] = None
                 PROVE  \A s \in Tainted(e) :
                          /\ s \notin sessions' /\ current' # s
                          /\ \A d \in Event : inSession'[d] # s /\ corrSession'[d] # s
                          /\ \A x \in sessions' : succeeds'[x] # s
    OBVIOUS
  <2>2. TypeOK /\ e \notin Unused
    BY <2>1 DEF SessionInv, Unused
  <2>3. CASE \E p \in Proc : Look(p) \/ GiveUp(p) \/ EndLook(p) \/ End(p)
    BY <2>1, <2>3 DEF Look, GiveUp, EndLook, End, tables
  <2>4. CASE \E p \in Proc : Write(p)
    BY <2>1, <2>2, <2>4 DEF Write, TypeOK
  <2>5. CASE \E d \in Event : Contradict(d)
    BY <2>1, <2>2, <2>5 DEF Contradict, TypeOK
  <2>6. CASE \E d \in Event : Purge(d)
    <3>1. PICK d \in Event : Purge(d)
      BY <2>6
    <3>2. PICK f : PurgeBy(d, f)
      BY <3>1 DEF Purge, PurgeBy
    <3>3. d = e
      BY <2>1, <2>2, <3>2, PurgeKeepsOthers
    <3>4. f \in StandIns(e) /\ \A v : Rekeyed(f, v) \notin Tainted(e)
      BY <2>2, <3>2, <3>3, PurgeForgets DEF PurgeBy
    <3>5. \A s \in Tainted(e) : s \notin sessions'
      BY <2>2, <3>2, <3>3, PurgeRekeys
    <3>6. None \notin sessions'
      BY <2>1, StepsAreSound, ConstantsDistinct DEF SessionInv, TypeOK, Id
    <3>7. \A x \in sessions' : \E s \in sessions : succeeds'[x] = Rekeyed(f, succeeds[s])
      BY <2>2, <3>2, <3>3, <3>6, PurgeRekeys
    <3>8. /\ current' = Rekeyed(f, current)
          /\ \A c \in Event : /\ inSession'[c] = Rekeyed(f, EventsLeft(e)[c])
                              /\ corrSession'[c] = Rekeyed(f, CorrectionsLeft(e)[c])
      BY <3>2, <3>3 DEF PurgeBy
    <3>9. QED BY <3>4, <3>5, <3>7, <3>8
  <2>7. QED BY <2>1, <2>3, <2>4, <2>5, <2>6 DEF Next
<1>2. QED BY <1>1, SessionInvariant, PTL DEF Spec, PurgeForgetsSessions

-----------------------------------------------------------------------------
(* The ends of finite sets of times.                                        *)

\* Some number of a set of numbers is the least.
LEMMA LeastNumber ==
    ASSUME NEW T, T \subseteq Nat, T # {}
    PROVE  \E x \in T : \A y \in T : x <= y
<1>1. IsWellFoundedOn(OpToRel(<, Nat), Nat)
  BY NatLessThanWellFounded, Zenon
<1>2. PICK x \in T : \A y \in T : ~(<<y, x>> \in OpToRel(<, Nat))
  BY <1>1, WFMin, Zenon
<1>3. \A y \in T : ~(y < x)
  BY <1>2 DEF OpToRel
<1>4. QED BY <1>3

\* Some member of a finite set has a smallest set of others.
LEMMA SmallestOthers ==
    ASSUME NEW S, IsFiniteSet(S), S # {}, NEW above \in [S -> SUBSET S]
    PROVE  \E z \in S : \A y \in S : above[y] \subseteq above[z] => above[y] = above[z]
<1> DEFINE T == {Cardinality(above[z]) : z \in S}
<1>1. \A z \in S : IsFiniteSet(above[z]) /\ Cardinality(above[z]) \in Nat
  BY FS_Subset, FS_CardinalityType
<1>2. T \subseteq Nat /\ T # {}
  BY <1>1
<1>3. PICK n \in T : \A m \in T : n <= m
  BY <1>2, LeastNumber
<1>4. PICK z \in S : n = Cardinality(above[z])
  BY <1>3
<1>5. ASSUME NEW y \in S, above[y] \subseteq above[z] PROVE above[y] = above[z]
  <2>1. /\ Cardinality(above[y]) <= Cardinality(above[z])
        /\ Cardinality(above[z]) = Cardinality(above[y]) => above[z] = above[y]
    BY <1>1, <1>5, FS_Subset
  <2>2. Cardinality(above[z]) <= Cardinality(above[y])
    BY <1>3, <1>4
  <2>3. QED BY <1>1, <2>1, <2>2
<1>6. QED BY <1>5

\* Min and Max, where some element is one.
LEMMA MinIs ==
    ASSUME NEW S, S \subseteq Int, NEW x \in S, \A y \in S : x <= y
    PROVE  Min(S) = x
<1> DEFINE P(z) == z \in S /\ \A y \in S : z =< y
<1>1. P(x) /\ \A z : P(z) => z = x
  <2>1. P(x)
    OBVIOUS
  <2>2. ASSUME NEW z, P(z) PROVE z = x
    BY <2>2
  <2>3. QED BY <2>1, <2>2
<1>2. Min(S) = CHOOSE z : P(z)
  BY DEF Min
<1> HIDE DEF P
<1>3. QED BY <1>1, <1>2

LEMMA MaxIs ==
    ASSUME NEW S, S \subseteq Int, NEW x \in S, \A y \in S : y <= x
    PROVE  Max(S) = x
<1> DEFINE P(z) == z \in S /\ \A y \in S : z >= y
<1>1. P(x) /\ \A z : P(z) => z = x
  <2>1. P(x)
    OBVIOUS
  <2>2. ASSUME NEW z, P(z) PROVE z = x
    BY <2>2
  <2>3. QED BY <2>1, <2>2
<1>2. Max(S) = CHOOSE z : P(z)
  BY DEF Max
<1> HIDE DEF P
<1>3. QED BY <1>1, <1>2

\* A finite set of numbers has both.
LEMMA FiniteEnds ==
    ASSUME NEW S, S \subseteq Nat, IsFiniteSet(S), S # {}
    PROVE  /\ Min(S) \in S /\ \A y \in S : Min(S) <= y
           /\ Max(S) \in S /\ \A y \in S : y <= Max(S)
<1>1. PICK x \in S : \A y \in S : x <= y
  BY LeastNumber
<1>2. Min(S) = x
  <2>1. S \subseteq Int
    OBVIOUS
  <2>2. QED BY <1>1, <2>1, MinIs
<1> DEFINE above == [y \in S |-> {v \in S : y < v}]
<1>3. above \in [S -> SUBSET S]
  OBVIOUS
<1>4. PICK z \in S : \A y \in S : above[y] \subseteq above[z] => above[y] = above[z]
  <2> HIDE DEF above
  <2>0. IsFiniteSet(S) /\ S # {}
    OBVIOUS
  <2>1. QED BY ONLY <1>3, <2>0, SmallestOthers
<1>5. \A y \in S : above[y] = {v \in S : y < v}
  OBVIOUS
<1> HIDE DEF above
<1>6. \A y \in S : y <= z
  <2>1. SUFFICES ASSUME NEW y \in S, z < y PROVE FALSE
    OBVIOUS
  <2>2. \A v \in S : v \in Nat
    OBVIOUS
  <2>3. \A v \in S : y < v => z < v
    BY <2>1, <2>2
  <2>4. above[y] \subseteq above[z]
    BY <1>5, <2>3
  <2>5. y \in above[z] /\ y \notin above[y]
    BY <1>5, <2>1, <2>2
  <2>6. QED BY <1>4, <2>4, <2>5, Zenon
<1>7. Max(S) = z
  <2>1. S \subseteq Int
    OBVIOUS
  <2>2. QED BY <1>6, <2>1, MaxIs
<1>8. QED BY <1>1, <1>2, <1>6, <1>7

\* A set of numbers with a bound has a greatest.
LEMMA BoundedMax ==
    ASSUME NEW S, S \subseteq Nat, S # {}, NEW b \in Nat, \A y \in S : y <= b
    PROVE  Max(S) \in S /\ \A y \in S : y <= Max(S)
<1>1. IsFiniteSet(S)
  BY FS_BoundedSetOfNaturals
<1>2. QED BY <1>1, FiniteEnds

-----------------------------------------------------------------------------
(* The graph of some events, in one piece.                                  *)

EntitiesOf(es) == UNION {Said[e.id].entities : e \in es}
MentionsOf(es) == UNION {{[event |-> e.id, entity |-> x, at |-> e.when] : x \in Said[e.id].entities} : e \in es}
EvidencesOf(es) == UNION {{[event |-> e.id, triple |-> t, at |-> e.when] : t \in Said[e.id].triples} : e \in es}
TimesOf(es, x) == {e.when : e \in {e \in es : x \in Said[e.id].entities}}
Spanned(x, times) == [id |-> x, first |-> Min(times), last |-> Max(times)]
WitnessesOf(ev, t) == {r \in ev : r.triple = t}
RelationsOf(ev) == {RelationOf(t, WitnessesOf(ev, t)) : t \in {r.triple : r \in ev}}

GraphOf(es) ==
    [entity |-> {Spanned(x, TimesOf(es, x)) : x \in EntitiesOf(es)},
     mention |-> MentionsOf(es),
     evidence |-> EvidencesOf(es),
     relation |-> RelationsOf(EvidencesOf(es))]

\* Events as a database has them: finitely many, of distinct ids.
Events(es) ==
    /\ IsFiniteSet(es)
    /\ \A e \in es : e.id \in 1 .. MaxMem /\ e.when \in Nat /\ e.at \in Nat
    /\ \A e, f \in es : e.id = f.id => e = f

LEMMA FewerEvents ==
    ASSUME NEW es, Events(es), NEW some, some \subseteq es
    PROVE  Events(some)
<1>1. IsFiniteSet(some)
  BY FS_Subset DEF Events
<1>2. QED BY <1>1 DEF Events

\* An entity of some events has times, with a first and a last.
LEMMA TimesHaveEnds ==
    ASSUME NEW es, Events(es), NEW x
    PROVE  /\ TimesOf(es, x) \subseteq Nat /\ IsFiniteSet(TimesOf(es, x))
           /\ x \in EntitiesOf(es) <=> TimesOf(es, x) # {}
<1> DEFINE some == {e \in es : x \in Said[e.id].entities}
           f == [e \in some |-> e.when]
<1>1. f \in Surjection(some, TimesOf(es, x))
  BY DEF Surjection, TimesOf
<1>2. IsFiniteSet(some)
  BY FS_Subset DEF Events
<1>3. IsFiniteSet(TimesOf(es, x))
  BY <1>1, <1>2, FS_Surjection
<1>4. TimesOf(es, x) \subseteq Nat
  BY DEF TimesOf, Events
<1>5. x \in EntitiesOf(es) <=> TimesOf(es, x) # {}
  BY DEF TimesOf, EntitiesOf
<1>6. QED BY <1>3, <1>4, <1>5

\* One more time may move either end of a span.
LEMMA SpanGrows ==
    ASSUME NEW T, T \subseteq Nat, IsFiniteSet(T), T # {}, NEW n \in Nat
    PROVE  /\ Min({Min(T), Max(T)} \cup {n}) = Min(T \cup {n})
           /\ Max({Min(T), Max(T)} \cup {n}) = Max(T \cup {n})
<1>1. /\ Min(T) \in T /\ \A y \in T : Min(T) <= y
      /\ Max(T) \in T /\ \A y \in T : y <= Max(T)
  BY FiniteEnds
<1>2. PICK a \in Nat, b \in Nat : a = Min(T) /\ b = Max(T)
  BY <1>1
<1>3. a \in T /\ b \in T /\ \A y \in T : a <= y /\ y <= b
  BY <1>1, <1>2
<1> DEFINE least == IF a <= n THEN a ELSE n
           most == IF b <= n THEN n ELSE b
<1>4. \A y \in T \cup {n} : y \in Nat /\ least <= y /\ y <= most
  BY <1>3
<1>5. least \in {a, b} \cup {n} /\ most \in {a, b} \cup {n}
  OBVIOUS
<1>6. least \in T \cup {n} /\ most \in T \cup {n}
  BY <1>3
<1>7. {a, b} \cup {n} \subseteq T \cup {n} /\ T \cup {n} \subseteq Int
  BY <1>3
<1> HIDE DEF least, most
<1>8. Min({a, b} \cup {n}) = least /\ Max({a, b} \cup {n}) = most
  <2>1. \A y \in {a, b} \cup {n} : least <= y /\ y <= most
    BY <1>4, <1>7
  <2>2. QED BY <1>5, <1>7, <2>1, MinIs, MaxIs
<1>9. Min(T \cup {n}) = least /\ Max(T \cup {n}) = most
  BY <1>4, <1>6, <1>7, MinIs, MaxIs
<1>10. QED BY <1>2, <1>8, <1>9

\* A graph is its four tables.
GraphFields == {"entity", "mention", "evidence", "relation"}

LEMMA GraphIs ==
    ASSUME NEW g, g = [f \in GraphFields |-> g[f]]
    PROVE  g = [entity |-> g.entity, mention |-> g.mention, evidence |-> g.evidence, relation |-> g.relation]
  BY DEF GraphFields

\* Relations need no more than their evidence: those whose evidence changed are
\* computed anew.
LEMMA RelationsFollow ==
    ASSUME NEW old, NEW new, NEW T, \A t : t \notin T => WitnessesOf(old, t) = WitnessesOf(new, t)
    PROVE  {r \in RelationsOf(old) : r.triple \notin T}
             \cup {RelationOf(t, WitnessesOf(new, t)) : t \in {t \in T : WitnessesOf(new, t) # {}}}
             = RelationsOf(new)
<1>1. \A t, rs : RelationOf(t, rs).triple = t
  BY DEF RelationOf
<1>2. \A t, ev : t \in {r.triple : r \in ev} <=> WitnessesOf(ev, t) # {}
  BY DEF WitnessesOf
<1> HIDE DEF WitnessesOf, RelationOf
<1>3. ASSUME NEW r \in RelationsOf(old), r.triple \notin T PROVE r \in RelationsOf(new)
  <2>1. PICK t \in {q.triple : q \in old} : r = RelationOf(t, WitnessesOf(old, t))
    BY DEF RelationsOf
  <2>2. WitnessesOf(old, t) = WitnessesOf(new, t)
    BY <1>1, <1>3, <2>1
  <2>3. t \in {q.triple : q \in new}
    BY <1>2, <2>1, <2>2
  <2>4. QED BY <2>1, <2>2, <2>3 DEF RelationsOf
<1>4. ASSUME NEW t \in T, WitnessesOf(new, t) # {} PROVE RelationOf(t, WitnessesOf(new, t)) \in RelationsOf(new)
  <2>1. t \in {q.triple : q \in new}
    BY <1>2, <1>4
  <2>2. QED BY <2>1 DEF RelationsOf
<1>5. ASSUME NEW r \in RelationsOf(new), r.triple \notin T PROVE r \in RelationsOf(old)
  <2>1. PICK t \in {q.triple : q \in new} : r = RelationOf(t, WitnessesOf(new, t))
    BY DEF RelationsOf
  <2>2. WitnessesOf(old, t) = WitnessesOf(new, t)
    BY <1>1, <1>5, <2>1
  <2>3. t \in {q.triple : q \in old}
    BY <1>2, <2>1, <2>2
  <2>4. QED BY <2>1, <2>2, <2>3 DEF RelationsOf
<1>6. ASSUME NEW r \in RelationsOf(new), r.triple \in T
      PROVE  \E t \in T : WitnessesOf(new, t) # {} /\ r = RelationOf(t, WitnessesOf(new, t))
  <2>1. PICK t \in {q.triple : q \in new} : r = RelationOf(t, WitnessesOf(new, t))
    BY DEF RelationsOf
  <2>2. t \in T /\ WitnessesOf(new, t) # {}
    BY <1>1, <1>2, <1>6, <2>1
  <2>3. QED BY <2>1, <2>2
<1>7. QED BY <1>3, <1>4, <1>5, <1>6

\* What one event adds.
LEMMA EventAdds ==
    ASSUME NEW es, NEW e
    PROVE  /\ EntitiesOf(es \cup {e}) = EntitiesOf(es) \cup Said[e.id].entities
           /\ MentionsOf(es \cup {e})
                = MentionsOf(es) \cup {[event |-> e.id, entity |-> x, at |-> e.when] : x \in Said[e.id].entities}
           /\ EvidencesOf(es \cup {e})
                = EvidencesOf(es) \cup {[event |-> e.id, triple |-> t, at |-> e.when] : t \in Said[e.id].triples}
           /\ \A x : TimesOf(es \cup {e}, x)
                       = IF x \in Said[e.id].entities THEN TimesOf(es, x) \cup {e.when} ELSE TimesOf(es, x)
<1>1. EntitiesOf(es \cup {e}) = EntitiesOf(es) \cup Said[e.id].entities
  BY DEF EntitiesOf
<1>2. MentionsOf(es \cup {e})
        = MentionsOf(es) \cup {[event |-> e.id, entity |-> x, at |-> e.when] : x \in Said[e.id].entities}
  BY DEF MentionsOf
<1>3. EvidencesOf(es \cup {e})
        = EvidencesOf(es) \cup {[event |-> e.id, triple |-> t, at |-> e.when] : t \in Said[e.id].triples}
  BY DEF EvidencesOf
<1>4. ASSUME NEW x
      PROVE  TimesOf(es \cup {e}, x)
               = IF x \in Said[e.id].entities THEN TimesOf(es, x) \cup {e.when} ELSE TimesOf(es, x)
  BY DEF TimesOf
<1>5. QED BY <1>1, <1>2, <1>3, <1>4

\* extract_and_store of an event makes the graph of the events and this one.
LEMMA ExtractedAdds ==
    ASSUME NEW es, Events(es), NEW e, e.when \in Nat
    PROVE  Extracted(GraphOf(es), e.id, Said[e.id], e.when) = GraphOf(es \cup {e})
<1> DEFINE g == GraphOf(es)
           said == Said[e.id]
           all == es \cup {e}
           entities == {x \in g.entity : x.id \notin said.entities} \cup {Seen(g, x, e.when) : x \in said.entities}
           evidence == g.evidence \cup {[event |-> e.id, triple |-> t, at |-> e.when] : t \in said.triples}
           mention == g.mention \cup {[event |-> e.id, entity |-> x, at |-> e.when] : x \in said.entities}
           relation == {r \in g.relation : r.triple \notin said.triples}
                         \cup {RelationOf(t, WitnessesOf(evidence, t)) :
                                  t \in {t \in said.triples : WitnessesOf(evidence, t) # {}}}
<1>1. Extracted(g, e.id, said, e.when)
        = [entity |-> entities, mention |-> mention, evidence |-> evidence, relation |-> relation]
  <2> DEFINE before == [g EXCEPT !.entity = entities, !.mention = mention, !.evidence = evidence]
  <2>1. before = [entity |-> entities, mention |-> mention, evidence |-> evidence, relation |-> g.relation]
    <3>1. g = [f \in GraphFields |-> g[f]]
      BY DEF GraphOf, GraphFields
    <3> HIDE DEF g, entities, mention, evidence
    <3>2. /\ before.entity = entities /\ before.mention = mention
          /\ before.evidence = evidence /\ before.relation = g.relation
          /\ before = [f \in GraphFields |-> before[f]]
      BY <3>1 DEF GraphFields
    <3> HIDE DEF before
    <3>3. QED BY <3>2, GraphIs
  <2>2. Extracted(g, e.id, said, e.when) = Refreshed(before, said.triples)
    <3>1. before = [g EXCEPT !.entity = {x \in @ : x.id \notin said.entities} \cup {Seen(g, x, e.when) : x \in said.entities},
                  !.mention = @ \cup {[event |-> e.id, entity |-> x, at |-> e.when] : x \in said.entities},
                  !.evidence = @ \cup {[event |-> e.id, triple |-> t, at |-> e.when] : t \in said.triples}]
      BY DEF GraphOf
    <3> HIDE DEF g, said
    <3>2. QED BY <3>1, Zenon DEF Extracted
  <2> HIDE DEF before
  <2>3. \A t : EvidenceOf(before, t) = WitnessesOf(evidence, t)
    BY <2>1 DEF EvidenceOf, WitnessesOf
  <2>4. Refreshed(before, said.triples) = [before EXCEPT !.relation = relation]
    BY <2>1, <2>3 DEF Refreshed
  <2> HIDE DEF entities, mention, evidence, relation
  <2>5. QED BY <2>1, <2>2, <2>4
<1>0. /\ g.entity = {Spanned(x, TimesOf(es, x)) : x \in EntitiesOf(es)}
      /\ g.mention = MentionsOf(es) /\ g.evidence = EvidencesOf(es)
      /\ g.relation = RelationsOf(EvidencesOf(es))
  BY DEF GraphOf
<1>a. /\ EntitiesOf(all) = EntitiesOf(es) \cup said.entities
      /\ MentionsOf(all) = MentionsOf(es) \cup {[event |-> e.id, entity |-> x, at |-> e.when] : x \in said.entities}
      /\ EvidencesOf(all) = EvidencesOf(es) \cup {[event |-> e.id, triple |-> t, at |-> e.when] : t \in said.triples}
      /\ \A x : TimesOf(all, x) = IF x \in said.entities THEN TimesOf(es, x) \cup {e.when} ELSE TimesOf(es, x)
  BY EventAdds, Zenon
<1> HIDE DEF g, said, all
<1>2. evidence = EvidencesOf(all) /\ mention = MentionsOf(all)
  BY <1>0, <1>a
<1>3. relation = RelationsOf(EvidencesOf(all))
  <2>1. \A t : t \notin said.triples => WitnessesOf(EvidencesOf(es), t) = WitnessesOf(EvidencesOf(all), t)
    BY <1>a DEF WitnessesOf
  <2>2. {r \in RelationsOf(EvidencesOf(es)) : r.triple \notin said.triples}
          \cup {RelationOf(t, WitnessesOf(EvidencesOf(all), t)) :
                  t \in {t \in said.triples : WitnessesOf(EvidencesOf(all), t) # {}}}
          = RelationsOf(EvidencesOf(all))
    BY <2>1, RelationsFollow
  <2> HIDE DEF evidence
  <2>3. QED BY <1>0, <1>2, <2>2
<1>4. entities = {Spanned(x, TimesOf(all, x)) : x \in EntitiesOf(all)}
  <2>1. \A x, times : Spanned(x, times).id = x
    BY DEF Spanned
  <2>2. \A y \in g.entity : y.id \in EntitiesOf(es) /\ y = Spanned(y.id, TimesOf(es, y.id))
    BY <1>0, <2>1
  <2>3. ASSUME NEW x \in said.entities PROVE Seen(g, x, e.when) = Spanned(x, TimesOf(all, x))
    <3> DEFINE rows == {y \in g.entity : y.id = x}
               times == UNION {{y.first, y.last} : y \in rows}
    <3>1. TimesOf(all, x) = TimesOf(es, x) \cup {e.when}
      BY <1>a
    <3>2. Seen(g, x, e.when) = [id |-> x, first |-> Min(times \cup {e.when}), last |-> Max(times \cup {e.when})]
      BY DEF Seen
    <3>3. CASE x \in EntitiesOf(es)
      <4>1. rows = {Spanned(x, TimesOf(es, x))}
        <5>1. Spanned(x, TimesOf(es, x)) \in g.entity
          BY <1>0, <3>3
        <5>2. QED BY <2>1, <2>2, <5>1
      <4> HIDE DEF rows
      <4>2. times = {Min(TimesOf(es, x)), Max(TimesOf(es, x))}
        BY <4>1 DEF Spanned
      <4>3. /\ TimesOf(es, x) \subseteq Nat /\ IsFiniteSet(TimesOf(es, x)) /\ TimesOf(es, x) # {}
        BY <3>3, TimesHaveEnds
      <4>4. /\ Min(times \cup {e.when}) = Min(TimesOf(all, x))
            /\ Max(times \cup {e.when}) = Max(TimesOf(all, x))
        <5> HIDE DEF times
        <5>1. QED BY <3>1, <4>2, <4>3, SpanGrows
      <4> HIDE DEF times
      <4>5. QED BY <3>2, <4>4 DEF Spanned
    <3>4. CASE x \notin EntitiesOf(es)
      <4>1. rows = {}
        BY <2>2, <3>4
      <4>2. times = {}
        BY <4>1
      <4>3. TimesOf(es, x) = {}
        BY <3>4, TimesHaveEnds
      <4> HIDE DEF times, rows
      <4>4. TimesOf(all, x) = times \cup {e.when}
        BY <3>1, <4>2, <4>3
      <4>5. QED BY <3>2, <4>4 DEF Spanned
    <3>5. QED BY <3>3, <3>4
  <2>4. ASSUME NEW y \in entities PROVE y \in {Spanned(x, TimesOf(all, x)) : x \in EntitiesOf(all)}
    <3>1. CASE y \in g.entity /\ y.id \notin said.entities
      <4>1. TimesOf(all, y.id) = TimesOf(es, y.id) /\ y.id \in EntitiesOf(all)
        BY <1>a, <2>2, <3>1
      <4>2. QED BY <2>2, <3>1, <4>1
    <3>2. ASSUME NEW x \in said.entities, y = Seen(g, x, e.when)
          PROVE  y \in {Spanned(z, TimesOf(all, z)) : z \in EntitiesOf(all)}
      BY <1>a, <2>3, <3>2
    <3>3. QED BY <2>4, <3>1, <3>2
  <2>5. ASSUME NEW x \in EntitiesOf(all) PROVE Spanned(x, TimesOf(all, x)) \in entities
    <3>1. CASE x \in said.entities
      BY <2>3, <3>1
    <3>2. CASE x \notin said.entities
      <4>1. x \in EntitiesOf(es) /\ TimesOf(all, x) = TimesOf(es, x)
        BY <1>a, <3>2
      <4>2. QED BY <1>0, <2>1, <3>2, <4>1
    <3>3. QED BY <3>1, <3>2
  <2>6. QED BY <2>4, <2>5
<1> HIDE DEF entities, evidence, mention, relation
<1>5. GraphOf(all) = [entity |-> entities, mention |-> mention, evidence |-> evidence, relation |-> relation]
  BY <1>2, <1>3, <1>4 DEF GraphOf
<1>6. QED BY <1>1, <1>5 DEF all, said, g

\* What is left without one event.
LEMMA EventLeaves ==
    ASSUME NEW es, Events(es), NEW e \in es
    PROVE  /\ MentionsOf(es \ {e}) = {m \in MentionsOf(es) : m.event # e.id}
           /\ EvidencesOf(es \ {e}) = {r \in EvidencesOf(es) : r.event # e.id}
           /\ {m.entity : m \in {m \in MentionsOf(es) : m.event = e.id}} = Said[e.id].entities
           /\ \A x : {m.at : m \in {m \in MentionsOf(es \ {e}) : m.entity = x}} = TimesOf(es \ {e}, x)
<1>0. \A f \in es : f.id = e.id => f = e
  BY DEF Events
<1>1. MentionsOf(es \ {e}) = {m \in MentionsOf(es) : m.event # e.id}
  <2>1. \A f \in es \ {e} : \A x : [event |-> f.id, entity |-> x, at |-> f.when].event # e.id
    BY <1>0
  <2>2. \A x : [event |-> e.id, entity |-> x, at |-> e.when].event = e.id
    OBVIOUS
  <2>3. QED BY <2>1, <2>2 DEF MentionsOf
<1>2. EvidencesOf(es \ {e}) = {r \in EvidencesOf(es) : r.event # e.id}
  <2>1. \A f \in es \ {e} : \A t : [event |-> f.id, triple |-> t, at |-> f.when].event # e.id
    BY <1>0
  <2>2. \A t : [event |-> e.id, triple |-> t, at |-> e.when].event = e.id
    OBVIOUS
  <2>3. QED BY <2>1, <2>2 DEF EvidencesOf
<1>3. {m.entity : m \in {m \in MentionsOf(es) : m.event = e.id}} = Said[e.id].entities
  <2>1. ASSUME NEW m \in MentionsOf(es), m.event = e.id PROVE m.entity \in Said[e.id].entities
    <3>1. PICK f \in es : \E x \in Said[f.id].entities : m = [event |-> f.id, entity |-> x, at |-> f.when]
      BY DEF MentionsOf
    <3>2. QED BY <2>1, <3>1
  <2>2. ASSUME NEW x \in Said[e.id].entities
        PROVE  \E m \in MentionsOf(es) : m.event = e.id /\ m.entity = x
    <3>1. [event |-> e.id, entity |-> x, at |-> e.when] \in MentionsOf(es)
      BY DEF MentionsOf
    <3>2. QED BY <3>1
  <2>3. QED BY <2>1, <2>2
<1>4. ASSUME NEW x
      PROVE  {m.at : m \in {m \in MentionsOf(es \ {e}) : m.entity = x}} = TimesOf(es \ {e}, x)
  <2>1. ASSUME NEW m \in MentionsOf(es \ {e}), m.entity = x PROVE m.at \in TimesOf(es \ {e}, x)
    <3>1. PICK f \in es \ {e} : \E y \in Said[f.id].entities : m = [event |-> f.id, entity |-> y, at |-> f.when]
      BY DEF MentionsOf
    <3>2. QED BY <2>1, <3>1 DEF TimesOf
  <2>2. ASSUME NEW f \in es \ {e}, x \in Said[f.id].entities
        PROVE  \E m \in MentionsOf(es \ {e}) : m.entity = x /\ m.at = f.when
    <3>1. [event |-> f.id, entity |-> x, at |-> f.when] \in MentionsOf(es \ {e})
      BY <2>2 DEF MentionsOf
    <3>2. QED BY <3>1
  <2>3. QED BY <2>1, <2>2 DEF TimesOf
<1>5. QED BY <1>1, <1>2, <1>3, <1>4

\* A row spanned anew.
LEMMA SpannedAnew ==
    ASSUME NEW x, NEW old, NEW times
    PROVE  [Spanned(x, old) EXCEPT !.first = Min(times), !.last = Max(times)] = Spanned(x, times)
<1> DEFINE n == [Spanned(x, old) EXCEPT !.first = Min(times), !.last = Max(times)]
<1>1. n = [f \in {"id", "first", "last"} |-> n[f]] /\ n.id = x /\ n.first = Min(times) /\ n.last = Max(times)
  BY DEF Spanned
<1> HIDE DEF n
<1>2. n = [id |-> n.id, first |-> n.first, last |-> n.last]
  BY <1>1
<1>3. QED BY <1>1, <1>2 DEF n, Spanned

\* remove_event_evidence makes the graph of the events that are left.
LEMMA ForgottenDrops ==
    ASSUME NEW es, Events(es), NEW e \in es
    PROVE  Forgotten(GraphOf(es), e.id) = GraphOf(es \ {e})
<1> DEFINE g == GraphOf(es)
           rest == es \ {e}
           said == {m.entity : m \in {m \in g.mention : m.event = e.id}}
           mentions == {m \in g.mention : m.event # e.id}
           evidence == {r \in g.evidence : r.event # e.id}
           T == {r.triple : r \in {r \in g.evidence : r.event = e.id}}
           left(x) == IF x.id \in said THEN Respanned(g, mentions, x) ELSE {x}
           entities == UNION {left(x) : x \in g.entity}
           relation == {r \in g.relation : r.triple \notin T}
                         \cup {RelationOf(t, WitnessesOf(evidence, t)) :
                                  t \in {t \in T : WitnessesOf(evidence, t) # {}}}
<1>1. Forgotten(g, e.id)
        = [entity |-> entities, mention |-> mentions, evidence |-> evidence, relation |-> relation]
  <2> DEFINE before == [g EXCEPT !.evidence = evidence]
             fresh == Refreshed(before, T)
             after == [fresh EXCEPT !.mention = mentions, !.entity = UNION {left(x) : x \in @}]
  <2>0. g = [f \in GraphFields |-> g[f]]
    BY DEF GraphOf, GraphFields
  <2>1. Forgotten(g, e.id) = after
    <3>1. before = [g EXCEPT !.evidence = {r \in @ : r.event # e.id}]
      <4> HIDE DEF g
      <4>1. QED BY <2>0 DEF GraphFields
    <3> HIDE DEF g, before
    <3>2. QED BY <3>1 DEF Forgotten
  <2>2. /\ before.entity = g.entity /\ before.mention = g.mention
        /\ before.evidence = evidence /\ before.relation = g.relation
        /\ before = [f \in GraphFields |-> before[f]]
    <3> HIDE DEF g, evidence
    <3>1. QED BY <2>0 DEF GraphFields
  <2> HIDE DEF before
  <2>3. \A t : EvidenceOf(before, t) = WitnessesOf(evidence, t)
    BY <2>2 DEF EvidenceOf, WitnessesOf
  <2>4. fresh = [before EXCEPT !.relation = relation]
    <3>1. fresh = [before EXCEPT !.relation =
                      {r \in before.relation : r.triple \notin T}
                         \cup {RelationOf(t, WitnessesOf(evidence, t)) :
                                  t \in {t \in T : WitnessesOf(evidence, t) # {}}}]
      <4> HIDE DEF T, evidence
      <4>1. QED BY <2>2, <2>3 DEF Refreshed, GraphFields
    <3>2. QED BY <2>2, <3>1
  <2> HIDE DEF relation
  <2>5. /\ fresh.entity = g.entity /\ fresh.mention = g.mention
        /\ fresh.evidence = evidence /\ fresh.relation = relation
        /\ fresh = [f \in GraphFields |-> fresh[f]]
    <3> HIDE DEF g, evidence, fresh
    <3>1. QED BY <2>2, <2>4 DEF GraphFields
  <2> HIDE DEF fresh
  <2>6. /\ after.entity = entities /\ after.mention = mentions
        /\ after.evidence = evidence /\ after.relation = relation
        /\ after = [f \in GraphFields |-> after[f]]
    <3> HIDE DEF g, evidence, mentions, left
    <3>1. QED BY <2>5 DEF GraphFields
  <2> HIDE DEF after, entities, mentions, evidence
  <2>7. QED BY <2>1, <2>6, GraphIs
<1>0. /\ g.entity = {Spanned(x, TimesOf(es, x)) : x \in EntitiesOf(es)}
      /\ g.mention = MentionsOf(es) /\ g.evidence = EvidencesOf(es)
      /\ g.relation = RelationsOf(EvidencesOf(es))
  BY DEF GraphOf
<1> HIDE DEF g
<1>2. mentions = MentionsOf(rest) /\ evidence = EvidencesOf(rest) /\ said = Said[e.id].entities
  BY <1>0, EventLeaves
<1>3. relation = RelationsOf(EvidencesOf(rest))
  <2>1. \A t : t \notin T => WitnessesOf(EvidencesOf(es), t) = WitnessesOf(EvidencesOf(rest), t)
    BY <1>0, <1>2 DEF WitnessesOf
  <2> HIDE DEF T, evidence
  <2>2. {r \in RelationsOf(EvidencesOf(es)) : r.triple \notin T}
          \cup {RelationOf(t, WitnessesOf(EvidencesOf(rest), t)) :
                  t \in {t \in T : WitnessesOf(EvidencesOf(rest), t) # {}}}
          = RelationsOf(EvidencesOf(rest))
    BY <2>1, RelationsFollow
  <2>3. QED BY <1>0, <1>2, <2>2
<1>4. entities = {Spanned(x, TimesOf(rest, x)) : x \in EntitiesOf(rest)}
  <2>1. \A x, times : Spanned(x, times).id = x
    BY DEF Spanned
  <2>2. \A y \in g.entity : y.id \in EntitiesOf(es) /\ y = Spanned(y.id, TimesOf(es, y.id))
    BY <1>0, <2>1
  <2>3. ASSUME NEW y \in g.entity
        PROVE  left(y) = IF y.id \in EntitiesOf(rest) THEN {Spanned(y.id, TimesOf(rest, y.id))} ELSE {}
    <3>1. Events(rest)
      BY FewerEvents
    <3>2. y.id \in EntitiesOf(rest) <=> TimesOf(rest, y.id) # {}
      BY <3>1, TimesHaveEnds
    <3>3. CASE y.id \in said
      <4>1. {m.at : m \in {m \in mentions : m.entity = y.id}} = TimesOf(rest, y.id)
        <5> HIDE DEF mentions
        <5>1. QED BY <1>2, EventLeaves
      <4>2. left(y) = IF TimesOf(rest, y.id) = {} THEN {}
                      ELSE {[y EXCEPT !.first = Min(TimesOf(rest, y.id)), !.last = Max(TimesOf(rest, y.id))]}
        <5> HIDE DEF mentions, said
        <5>1. QED BY <3>3, <4>1 DEF Respanned
      <4>3. [y EXCEPT !.first = Min(TimesOf(rest, y.id)), !.last = Max(TimesOf(rest, y.id))]
              = Spanned(y.id, TimesOf(rest, y.id))
        <5>1. PICK x : x = y.id
          OBVIOUS
        <5>2. y = Spanned(x, TimesOf(es, x))
          BY <2>2, <5>1
        <5>3. [Spanned(x, TimesOf(es, x)) EXCEPT !.first = Min(TimesOf(rest, x)), !.last = Max(TimesOf(rest, x))]
                = Spanned(x, TimesOf(rest, x))
          <6> HIDE DEF rest
          <6>1. QED BY SpannedAnew
        <5> HIDE DEF rest
        <5>4. QED BY <5>1, <5>2, <5>3, Zenon
      <4> HIDE DEF left, rest
      <4>4. QED BY <3>2, <4>2, <4>3
    <3>4. CASE y.id \notin said
      <4>1. y.id \notin Said[e.id].entities
        BY <1>2, <3>4
      <4>2. TimesOf(rest, y.id) = TimesOf(es, y.id)
        BY <4>1 DEF TimesOf
      <4>3. y.id \in EntitiesOf(rest)
        BY <2>2, <4>1 DEF EntitiesOf
      <4>4. QED BY <2>2, <3>4, <4>2, <4>3
    <3>5. QED BY <3>3, <3>4
  <2>4. ASSUME NEW x \in EntitiesOf(rest) PROVE Spanned(x, TimesOf(rest, x)) \in entities
    <3>1. x \in EntitiesOf(es)
      BY DEF EntitiesOf
    <3>2. Spanned(x, TimesOf(es, x)) \in g.entity
      BY <1>0, <3>1
    <3>3. left(Spanned(x, TimesOf(es, x))) = {Spanned(x, TimesOf(rest, x))}
      <4> HIDE DEF left
      <4>1. QED BY <2>1, <2>3, <3>2
    <3> HIDE DEF left
    <3>4. QED BY <3>2, <3>3
  <2>5. ASSUME NEW z \in entities PROVE z \in {Spanned(x, TimesOf(rest, x)) : x \in EntitiesOf(rest)}
    <3> HIDE DEF left
    <3>1. PICK y \in g.entity : z \in left(y)
      BY <2>5
    <3>2. QED BY <2>3, <3>1
  <2> HIDE DEF entities
  <2>6. QED BY <2>4, <2>5
<1> HIDE DEF entities, evidence, mentions, relation
<1>5. GraphOf(rest) = [entity |-> entities, mention |-> mentions, evidence |-> evidence, relation |-> relation]
  BY <1>2, <1>3, <1>4 DEF GraphOf
<1>6. QED BY <1>1, <1>5 DEF g

LEMMA NoEvents == GraphOf({}) = EmptyGraph
<1>1. EntitiesOf({}) = {} /\ MentionsOf({}) = {} /\ EvidencesOf({}) = {}
  BY DEF EntitiesOf, MentionsOf, EvidencesOf
<1>2. RelationsOf({}) = {}
  BY DEF RelationsOf
<1>3. QED BY <1>1, <1>2 DEF GraphOf, EmptyGraph

\* Events have a last one.
LEMMA SomeEventIsLast ==
    ASSUME NEW es, Events(es), es # {}
    PROVE  LastOf(es) \in es
<1> DEFINE Upto(f, e) == \/ f.when < e.when
                         \/ f.when = e.when /\ f.at < e.at
                         \/ f.when = e.when /\ f.at = e.at /\ f.id <= e.id
           later == [e \in es |-> {f \in es : ~Upto(f, e)}]
<1>1. later \in [es -> SUBSET es] /\ IsFiniteSet(es)
  BY DEF Events
<1>2. \A e, f \in es : f \in later[e] <=> ~Upto(f, e)
  OBVIOUS
<1>3. PICK e \in es : \A f \in es : later[f] \subseteq later[e] => later[f] = later[e]
  <2> HIDE DEF later
  <2>1. QED BY <1>1, SmallestOthers
<1> HIDE DEF later
<1>4. ASSUME NEW f \in es PROVE Upto(f, e)
  <2>1. SUFFICES ASSUME ~Upto(f, e) PROVE FALSE
    OBVIOUS
  <2>2. PICK a \in Nat, b \in Nat, c \in Nat : a = e.when /\ b = e.at /\ c = e.id
    BY DEF Events
  <2>3. PICK i \in Nat, j \in Nat, k \in Nat : i = f.when /\ j = f.at /\ k = f.id
    BY DEF Events
  <2>4. ASSUME NEW h \in es, ~Upto(h, f) PROVE ~Upto(h, e)
    <3>1. PICK u \in Nat, v \in Nat, w \in Nat : u = h.when /\ v = h.at /\ w = h.id
      BY DEF Events
    <3>2. QED BY <2>1, <2>2, <2>3, <2>4, <3>1
  <2>5. later[f] \subseteq later[e]
    BY <1>1, <1>2, <2>4
  <2>6. f \in later[e]
    BY <1>2, <2>1
  <2>7. Upto(f, f)
    BY <2>3
  <2>8. f \notin later[f]
    BY <1>2, <2>7
  <2>9. QED BY <1>3, <2>5, <2>6, <2>8
<1>5. \E l \in es : \A f \in es : Upto(f, l)
  BY <1>4
<1>6. LastOf(es) = CHOOSE l \in es : \A f \in es : Upto(f, l)
  BY DEF LastOf
<1> HIDE DEF Upto
<1>7. QED BY <1>5, <1>6

\* A rebuild makes the graph of the events, whatever the aggregates were before.
LEMMA RebuiltIsGraph ==
    ASSUME NEW es, Events(es)
    PROVE  Rebuilt(es, Said) = GraphOf(es)
<1> DEFINE Step(f, some) == IF some = {} THEN EmptyGraph
                            ELSE LET e == LastOf(some)
                                 IN  Extracted(f[some \ {e}], e.id, Said[e.id], e.when)
           Solves(f) == f = [some \in SUBSET es |-> Step(f, some)]
           solution == [some \in SUBSET es |-> GraphOf(some)]
           graph == CHOOSE f : Solves(f)
<1>1. ASSUME NEW some \in SUBSET es, some # {}
      PROVE  /\ LastOf(some) \in some
             /\ Extracted(GraphOf(some \ {LastOf(some)}), LastOf(some).id, Said[LastOf(some).id], LastOf(some).when)
                  = GraphOf(some)
  <2>1. Events(some)
    BY FewerEvents
  <2>2. PICK e \in some : e = LastOf(some)
    BY <1>1, <2>1, SomeEventIsLast
  <2>3. Events(some \ {e}) /\ e.when \in Nat
    BY <2>1, FewerEvents DEF Events
  <2>4. Extracted(GraphOf(some \ {e}), e.id, Said[e.id], e.when) = GraphOf((some \ {e}) \cup {e})
    BY <2>3, ExtractedAdds
  <2>5. (some \ {e}) \cup {e} = some
    OBVIOUS
  <2>6. QED BY <2>2, <2>4, <2>5
<1>2. Solves(solution)
  <2>1. ASSUME NEW some \in SUBSET es PROVE Step(solution, some) = GraphOf(some)
    <3>1. CASE some = {}
      BY <3>1, NoEvents
    <3>2. CASE some # {}
      <4>1. LastOf(some) \in some /\ some \ {LastOf(some)} \in SUBSET es
        BY <1>1, <3>2
      <4>2. solution[some \ {LastOf(some)}] = GraphOf(some \ {LastOf(some)})
        BY <4>1
      <4> HIDE DEF solution
      <4>3. QED BY <1>1, <3>2, <4>2
    <3>3. QED BY <3>1, <3>2
  <2> HIDE DEF Step
  <2>2. QED BY <2>1
<1>3. Solves(graph)
  <2> HIDE DEF Solves, solution
  <2>1. QED BY <1>2
<1>4. Rebuilt(es, Said) = graph[es]
  BY DEF Rebuilt
<1>5. \A some \in SUBSET es : graph[some] = Step(graph, some)
  <2> HIDE DEF graph, Step
  <2>1. QED BY <1>3
<1> HIDE DEF graph
<1>6. ASSUME NEW n \in Nat, NEW some \in SUBSET es, Cardinality(some) = n, graph[some] # GraphOf(some),
             \A less \in SUBSET es : graph[less] # GraphOf(less) => n <= Cardinality(less)
      PROVE  FALSE
  <2>1. some # {}
    BY <1>5, <1>6, NoEvents
  <2>2. PICK e \in some : e = LastOf(some)
    BY <1>1, <2>1
  <2>3. some \ {e} \in SUBSET es /\ IsFiniteSet(some)
    BY FS_Subset DEF Events
  <2>4. Cardinality(some \ {e}) = n - 1
    BY <1>6, <2>3, FS_RemoveElement
  <2>5. graph[some \ {e}] = GraphOf(some \ {e})
    <3>1. ~(n <= n - 1)
      OBVIOUS
    <3>2. QED BY <1>6, <2>3, <2>4, <3>1
  <2>6. graph[some] = Extracted(graph[some \ {e}], e.id, Said[e.id], e.when)
    BY <1>5, <2>1, <2>2
  <2>7. QED BY <1>1, <1>6, <2>1, <2>2, <2>5, <2>6
<1> DEFINE Sizes == {Cardinality(some) : some \in {some \in SUBSET es : graph[some] # GraphOf(some)}}
<1>7. \A some \in SUBSET es : Cardinality(some) \in Nat
  BY FS_Subset, FS_CardinalityType DEF Events
<1>8. Sizes = {}
  <2>1. SUFFICES ASSUME Sizes # {} PROVE FALSE
    OBVIOUS
  <2>2. Sizes \subseteq Nat
    BY <1>7
  <2>3. PICK n \in Sizes : \A m \in Sizes : n <= m
    <3> HIDE DEF Sizes
    <3>1. QED BY <2>1, <2>2, LeastNumber
  <2>4. PICK some \in SUBSET es : Cardinality(some) = n /\ graph[some] # GraphOf(some)
    BY <2>3
  <2>5. \A less \in SUBSET es : graph[less] # GraphOf(less) => n <= Cardinality(less)
    BY <2>3
  <2>6. QED BY <1>6, <2>2, <2>3, <2>4, <2>5
<1>9. graph[es] = GraphOf(es)
  BY <1>8
<1>10. QED BY <1>4, <1>9

-----------------------------------------------------------------------------
(* The inductive invariant, over a database d, the last reading t and the   *)
(* readings cuts of the commits that a cut may still be made at.            *)

SessionRow == [id : Nat \ {0}, at : Nat, end : Nat, pred : Nat]
MemoryRow == [id : 1 .. MaxMem, sess : Nat \ {0}, at : Nat, when : Nat, to : Nat, till : Nat]
TombRow == [id : 1 .. MaxMem, at : Nat]
RowEnd == [kind : {"memory", "tombstone"}, id : 1 .. MaxMem]
CorrectionRow == [target : RowEnd, at : Nat, sess : Nat, repl : RowEnd \cup {Nobody}]
DatabaseFields == {"sess", "mem", "corr", "tomb", "graph", "cur", "mems", "sessions"}

RowsTyped(d) ==
    /\ d = [f \in DatabaseFields |-> d[f]]
    /\ d.sess \subseteq SessionRow /\ d.mem \subseteq MemoryRow
    /\ d.corr \subseteq CorrectionRow /\ d.tomb \subseteq TombRow
    /\ d.cur \in Nat /\ d.sessions \in Nat
    /\ d.mems \in Nat /\ d.mems <= MaxMem

StampsArePast(d, t) ==
    /\ \A r \in d.sess \cup d.mem \cup d.corr \cup d.tomb : 1 <= r.at /\ r.at <= t
    /\ \A s \in d.sess : s.end <= t

IdsAreUnique(d) ==
    /\ \A s \in d.sess : s.id <= d.sessions
    /\ \A r, q \in d.sess : r.id = q.id => r = q
    /\ \A m \in d.mem : m.id <= d.mems
    /\ \A r, q \in d.mem : r.id = q.id => r = q
    /\ \A e \in d.tomb : e.id <= d.mems /\ \A m \in d.mem : m.id # e.id

\* A session's predecessor is there and older.
SuccessionIsOlder(d) ==
    \A s \in d.sess : s.pred # 0 => \E q \in d.sess : q.id = s.pred /\ q.at < s.at

\* A cut takes a memory by its stamp, unless a later correction made it.
Taken(d, m, cut) == m.at <= cut /\ \A c \in d.corr : cut < c.at => c.repl # Memory(m.id)

\* The session of a row is there, and in every cut that takes the row.
SessionsAreThere(d, cuts) ==
    /\ \A m \in d.mem : \E s \in d.sess : s.id = m.sess /\ \A k \in cuts : Taken(d, m, k) => s.at <= k
    /\ \A c \in d.corr : c.sess # 0 => \E s \in d.sess : s.id = c.sess /\ \A k \in cuts : c.at <= k => s.at <= k

IsRow(d, e) ==
    /\ e.kind = "memory" => \E m \in d.mem : m.id = e.id
    /\ e.kind = "tombstone" => \E r \in d.tomb : r.id = e.id

\* A correction's ends are rows, and each memory is corrected once and
\* replaces one memory at most; a tombstone stands for the end of a correction.
EndsAreThere(d) ==
    /\ \A c \in d.corr : IsRow(d, c.target) /\ IsRow(d, c.repl)
    /\ \A c, k \in d.corr : c.target = k.target => c = k
    /\ \A c, k \in d.corr : c.repl = k.repl /\ c.repl.kind = "memory" => c = k
    /\ \A r \in d.tomb : \E c \in d.corr : Tombstone(r.id) \in {c.target, c.repl}

\* A memory is closed by its correction, which comes after the memory and after
\* the correction that made it, or as it was observed; a cut takes a correction
\* with its replacement.
CorrectionsClose(d, cuts) ==
    /\ \A m \in d.mem : \A c \in d.corr : c.target = Memory(m.id) =>
          /\ m.at < c.at /\ m.to = c.at
          /\ \A k \in d.corr : k.repl = c.target => k.at < c.at
    /\ \A m \in d.mem : \A c \in d.corr : c.repl = Memory(m.id) => \A k \in cuts : c.at <= k => m.at <= k
    /\ \A m \in d.mem : /\ m.to # 0 /\ m.to # m.till => \E c \in d.corr : c.target = Memory(m.id)
                        /\ m.till # 0 => m.to = m.till

ReadingsArePast(t, cuts) == t \in Nat /\ t <= MaxClock /\ \A k \in cuts : k \in Nat /\ k <= t

Sound(d, t, cuts) ==
    /\ RowsTyped(d) /\ ReadingsArePast(t, cuts) /\ StampsArePast(d, t) /\ IdsAreUnique(d)
    /\ SuccessionIsOlder(d) /\ SessionsAreThere(d, cuts)
    /\ EndsAreThere(d) /\ CorrectionsClose(d, cuts)
    /\ d.graph = GraphOf(d.mem)

ExportInv == Sound(db, clock, past)

LEMMA Limits == MaxClock \in Nat /\ MaxMem \in Nat /\ MaxSess \in Nat
  BY BoundsAssumption

\* The ends of corrections are told apart.
LEMMA EndsDiffer ==
    /\ \A n, m : Memory(n) = Memory(m) => n = m
    /\ \A n, m : Tombstone(n) = Tombstone(m) => n = m
    /\ \A n, m : Memory(n) # Tombstone(m) /\ Memory(n) # Nobody /\ Tombstone(n) # Nobody
    /\ \A n : Memory(n).kind = "memory" /\ Memory(n).id = n
    /\ \A n : Tombstone(n).kind = "tombstone" /\ Tombstone(n).id = n
    /\ Nobody.kind = "none"
    /\ \A e \in RowEnd : e = Memory(e.id) \/ e = Tombstone(e.id)
    /\ \A n \in 1 .. MaxMem : Memory(n) \in RowEnd /\ Tombstone(n) \in RowEnd
<1>1. \A n : Memory(n).kind = "memory" /\ Memory(n).id = n
  BY DEF Memory
<1>2. \A n : Tombstone(n).kind = "tombstone" /\ Tombstone(n).id = n
  BY DEF Tombstone
<1>3. Nobody.kind = "none"
  BY DEF Nobody
<1>4. \A e \in RowEnd : e = Memory(e.id) \/ e = Tombstone(e.id)
  BY DEF RowEnd, Memory, Tombstone
<1>5. \A n \in 1 .. MaxMem : Memory(n) \in RowEnd /\ Tombstone(n) \in RowEnd
  BY DEF RowEnd, Memory, Tombstone
<1>6. \A n, m : Memory(n) # Tombstone(m) /\ Memory(n) # Nobody /\ Tombstone(n) # Nobody
  BY <1>1, <1>2, <1>3
<1>7. (\A n, m : Memory(n) = Memory(m) => n = m) /\ (\A n, m : Tombstone(n) = Tombstone(m) => n = m)
  BY <1>1, <1>2
<1>8. QED BY <1>1, <1>2, <1>3, <1>4, <1>5, <1>6, <1>7

\* The memories of a database are events as a graph takes them.
LEMMA MemoriesAreEvents ==
    ASSUME NEW d, RowsTyped(d), IdsAreUnique(d)
    PROVE  Events(d.mem)
<1> DEFINE f == [m \in d.mem |-> m.id]
<1>1. \A m \in d.mem : m.id \in 1 .. MaxMem /\ m.when \in Nat /\ m.at \in Nat
  BY DEF RowsTyped, MemoryRow
<1>2. f \in Injection(d.mem, 1 .. MaxMem)
  BY <1>1 DEF Injection, IdsAreUnique, IsInjective
<1>3. IsFiniteSet(1 .. MaxMem)
  BY Limits, FS_Interval
<1>4. IsFiniteSet(d.mem)
  BY <1>2, <1>3, FS_Injection
<1>5. QED BY <1>1, <1>4 DEF Events, IdsAreUnique

\* A graph tells of an event its id and its time, nothing else.
LEMMA GraphOfSame ==
    ASSUME NEW es, NEW fs,
           \A e \in es : \E f \in fs : f.id = e.id /\ f.when = e.when,
           \A f \in fs : \E e \in es : f.id = e.id /\ f.when = e.when
    PROVE  GraphOf(es) = GraphOf(fs)
<1>1. EntitiesOf(es) = EntitiesOf(fs)
  BY DEF EntitiesOf
<1>2. MentionsOf(es) = MentionsOf(fs)
  BY DEF MentionsOf
<1>3. EvidencesOf(es) = EvidencesOf(fs)
  BY DEF EvidencesOf
<1>4. \A x : TimesOf(es, x) = TimesOf(fs, x)
  BY DEF TimesOf
<1>5. {Spanned(x, TimesOf(es, x)) : x \in EntitiesOf(es)} = {Spanned(x, TimesOf(fs, x)) : x \in EntitiesOf(fs)}
  BY <1>1, <1>4
<1>6. QED BY <1>2, <1>3, <1>5 DEF GraphOf

-----------------------------------------------------------------------------
(* What keeps a database sound: a reading of the clock, a commit, and each  *)
(* of the transactions.                                                     *)

LEMMA ClockRuns ==
    ASSUME NEW d, NEW t, NEW cuts, Sound(d, t, cuts), NEW u \in Nat, t <= u, u <= MaxClock
    PROVE  Sound(d, u, cuts)
<1>1. RowsTyped(d) /\ ReadingsArePast(t, cuts) /\ StampsArePast(d, t)
  BY DEF Sound
<1>2. ReadingsArePast(u, cuts)
  BY <1>1, Limits DEF ReadingsArePast
<1>3. StampsArePast(d, u)
  <2>1. \A s \in d.sess : s.at \in Nat /\ s.end \in Nat
    BY <1>1 DEF RowsTyped, SessionRow
  <2>2. \A m \in d.mem : m.at \in Nat
    BY <1>1 DEF RowsTyped, MemoryRow
  <2>3. \A c \in d.corr : c.at \in Nat
    BY <1>1 DEF RowsTyped, CorrectionRow
  <2>4. \A r \in d.tomb : r.at \in Nat
    BY <1>1 DEF RowsTyped, TombRow
  <2>5. t \in Nat
    BY <1>1 DEF ReadingsArePast
  <2>6. QED BY <1>1, <2>1, <2>2, <2>3, <2>4, <2>5 DEF StampsArePast
<1>4. QED BY <1>2, <1>3 DEF Sound

\* At a commit, the cut of its last reading takes every row.
LEMMA CommitIsACut ==
    ASSUME NEW d, NEW t, NEW cuts, Sound(d, t, cuts)
    PROVE  Sound(d, t, cuts \cup {t})
<1>1. /\ RowsTyped(d) /\ ReadingsArePast(t, cuts) /\ StampsArePast(d, t)
      /\ SessionsAreThere(d, cuts) /\ CorrectionsClose(d, cuts)
  BY DEF Sound
<1>2. ReadingsArePast(t, cuts \cup {t})
  BY <1>1 DEF ReadingsArePast
<1>3. SessionsAreThere(d, cuts \cup {t})
  <2>1. \A s \in d.sess : s.at <= t
    BY <1>1 DEF StampsArePast
  <2>2. ASSUME NEW m \in d.mem
        PROVE  \E s \in d.sess : s.id = m.sess /\ \A k \in cuts \cup {t} : Taken(d, m, k) => s.at <= k
    <3>1. PICK s \in d.sess : s.id = m.sess /\ \A k \in cuts : Taken(d, m, k) => s.at <= k
      BY <1>1 DEF SessionsAreThere
    <3>2. QED BY <2>1, <3>1
  <2>3. ASSUME NEW c \in d.corr, c.sess # 0
        PROVE  \E s \in d.sess : s.id = c.sess /\ \A k \in cuts \cup {t} : c.at <= k => s.at <= k
    <3>1. PICK s \in d.sess : s.id = c.sess /\ \A k \in cuts : c.at <= k => s.at <= k
      BY <1>1, <2>3 DEF SessionsAreThere
    <3>2. QED BY <2>1, <3>1
  <2>4. QED BY <2>2, <2>3 DEF SessionsAreThere
<1>4. CorrectionsClose(d, cuts \cup {t})
  <2>1. \A m \in d.mem : m.at <= t
    BY <1>1 DEF StampsArePast
  <2>2. QED BY <1>1, <2>1 DEF CorrectionsClose
<1>5. QED BY <1>2, <1>3, <1>4 DEF Sound

\* ensure_session finds an open session or writes one row.
LEMMA JoinedIsThere ==
    ASSUME NEW d, NEW t, NEW cuts, Sound(d, t, cuts), NEW s, Joined(d, s) # 0
    PROVE  Joined(d, s) \in SessIds(d)
<1>1. {x.id : x \in OpenSessions(d)} \subseteq SessIds(d)
  BY DEF OpenSessions, SessIds
<1>2. CASE SuccessorsOpen(d, s) = {}
  BY <1>1, <1>2 DEF Joined
<1>3. CASE SuccessorsOpen(d, s) # {}
  <2> DEFINE ids == {x.id : x \in SuccessorsOpen(d, s)}
  <2>1. \A x \in d.sess : x.id \in Nat /\ x.id <= d.sessions
    BY DEF Sound, RowsTyped, SessionRow, IdsAreUnique
  <2>2. SuccessorsOpen(d, s) \subseteq d.sess
    BY DEF SuccessorsOpen, OpenSessions
  <2>3. ids \subseteq Nat /\ ids # {} /\ d.sessions \in Nat /\ \A i \in ids : i <= d.sessions
    BY <1>3, <2>1, <2>2 DEF Sound, RowsTyped
  <2>4. Max(ids) \in ids
    <3> HIDE DEF ids
    <3>1. QED BY ONLY <2>3, BoundedMax
  <2>5. ids \subseteq SessIds(d)
    BY <2>2 DEF SessIds
  <2> HIDE DEF ids
  <2>6. Joined(d, s) \in {d.cur, s, 0, Max(ids)}
    BY DEF Joined, ids
  <2>7. QED BY <1>1, <2>4, <2>5 DEF Joined, ids
<1>4. QED BY <1>2, <1>3

LEMMA EnsuredIsSound ==
    ASSUME NEW d, NEW t, NEW cuts, Sound(d, t, cuts), NEW s \in {0} \cup SessIds(d), NEW u \in Nat, t < u
    PROVE  LET e == Ensured(d, s, u)
           IN  /\ e.id \in SessIds(e.db) /\ e.readings \in {0, 1}
               /\ e.readings = 0 => e.db = d
               /\ e.readings = 1 /\ u <= MaxClock => Sound(e.db, u, cuts)
               /\ e.db.mem = d.mem /\ e.db.corr = d.corr /\ e.db.mems = d.mems /\ e.db.graph = d.graph
               /\ e.db.tomb = d.tomb
               /\ \A x \in d.sess : x \in e.db.sess
               /\ \A x \in e.db.sess : x \in d.sess \/ x.at = u
<1>1. CASE Joined(d, s) # 0
  BY <1>1, JoinedIsThere DEF Ensured
<1>2. CASE Joined(d, s) = 0
  <2> DEFINE n == d.sessions + 1
             r == [id |-> n, at |-> u, end |-> 0, pred |-> s]
             sess == d.sess \cup {r}
             cur == IF s = 0 THEN n ELSE d.cur
             d2 == [d EXCEPT !.sess = sess, !.sessions = n, !.cur = cur]
  <2>0. RowsTyped(d) /\ ReadingsArePast(t, cuts) /\ StampsArePast(d, t) /\ IdsAreUnique(d)
    BY DEF Sound
  <2>1. Ensured(d, s, u) = [db |-> d2, id |-> n, readings |-> 1]
    BY <1>2 DEF Ensured
  <2>2. /\ d2.sess = sess /\ d2.sessions = n /\ d2.cur = cur
        /\ d2.mem = d.mem /\ d2.corr = d.corr /\ d2.tomb = d.tomb /\ d2.graph = d.graph /\ d2.mems = d.mems
        /\ d2 = [f \in DatabaseFields |-> d2[f]]
    <3> HIDE DEF sess, cur, n
    <3>1. d = [f \in DatabaseFields |-> d[f]]
      BY <2>0 DEF RowsTyped
    <3>2. QED BY <3>1 DEF DatabaseFields
  <2>3. \A x \in d.sess : x.id \in Nat \ {0} /\ x.at \in Nat /\ x.pred \in Nat /\ x.id <= d.sessions /\ x.at <= t /\ x.end <= t
    BY <2>0 DEF RowsTyped, SessionRow, StampsArePast, IdsAreUnique
  <2>4. d.sessions \in Nat /\ t \in Nat /\ s \in Nat /\ n \in Nat \ {0}
    BY <2>0, <2>3 DEF RowsTyped, ReadingsArePast, SessIds
  <2>5. r \in SessionRow /\ r.id = n /\ r.at = u /\ r.end = 0 /\ r.pred = s
    BY <2>4 DEF SessionRow
  <2> HIDE DEF d2, r
  <2>6. n \in SessIds(d2)
    BY <2>2, <2>5 DEF SessIds
  <2>7. ASSUME u <= MaxClock PROVE Sound(d2, u, cuts)
    <3>1. Sound(d, u, cuts)
      BY <2>4, <2>7, ClockRuns
    <3>2. RowsTyped(d2)
      BY <2>0, <2>2, <2>4, <2>5 DEF RowsTyped
    <3>3. StampsArePast(d2, u)
      BY <2>2, <2>4, <2>5, <3>1 DEF StampsArePast, Sound
    <3>4. IdsAreUnique(d2)
      <4>1. \A x \in d2.sess : x.id <= n
        BY <2>2, <2>3, <2>4, <2>5
      <4>2. \A x, y \in d2.sess : x.id = y.id => x = y
        BY <2>0, <2>2, <2>3, <2>4, <2>5 DEF IdsAreUnique
      <4>3. QED BY <2>0, <2>2, <4>1, <4>2 DEF IdsAreUnique
    <3>5. SuccessionIsOlder(d2)
      BY <2>2, <2>3, <2>4, <2>5, <3>1 DEF Sound, SuccessionIsOlder, SessIds
    <3>6. SessionsAreThere(d2, cuts)
      BY <2>2, <3>1 DEF Sound, SessionsAreThere, Taken
    <3>7. EndsAreThere(d2)
      BY <2>2, <3>1 DEF Sound, EndsAreThere, IsRow
    <3>8. CorrectionsClose(d2, cuts)
      BY <2>2, <3>1 DEF Sound, CorrectionsClose
    <3>9. QED BY <2>2, <3>1, <3>2, <3>3, <3>4, <3>5, <3>6, <3>7, <3>8 DEF Sound
  <2>8. (\A x \in d.sess : x \in d2.sess) /\ (\A x \in d2.sess : x \in d.sess \/ x.at = u)
    BY <2>2, <2>5
  <2>9. QED BY <2>1, <2>2, <2>6, <2>7, <2>8
<1>3. QED BY <1>1, <1>2

\* A session or memory as it was, or closed after the reading now.
LaterSession(x, s, now) == s = x \/ (x.end = 0 /\ now < s.end /\ s = [x EXCEPT !.end = s.end])
LaterMemory(m, q, now) == q = m \/ (m.to = 0 /\ now < q.to /\ q = [m EXCEPT !.to = q.to])

\* What a transaction that begins after now and erases nothing makes of a database d.
OnlyAdds(d, w, now) ==
    /\ \A x \in d.sess : \E s \in w.sess : LaterSession(x, s, now)
    /\ \A s \in w.sess : now < s.at \/ \E x \in d.sess : LaterSession(x, s, now)
    /\ \A m \in d.mem : \E q \in w.mem : LaterMemory(m, q, now)
    /\ \A q \in w.mem : \/ \E m \in d.mem : LaterMemory(m, q, now)
                        \/ /\ \A m \in d.mem : m.id # q.id
                           /\ now < q.at \/ \E c \in w.corr : now < c.at /\ c.repl = Memory(q.id)
    /\ \A c \in d.corr : c \in w.corr
    /\ \A c \in w.corr : c \in d.corr \/ (now < c.at /\ \A m \in d.mem : c.repl # Memory(m.id))
    /\ w.tomb = d.tomb

ObservedRow(d, s, t, when, to) == [id |-> d.mems + 1, sess |-> s, at |-> t, when |-> when, to |-> to, till |-> to]

\* observe's rows: a memory of a new id, and what its text adds to the graph.
Observes(d, m, w) ==
    /\ w.mem = d.mem \cup {m} /\ w.graph = GraphOf(w.mem) /\ w.mems = d.mems + 1
    /\ w.sess = d.sess /\ w.corr = d.corr /\ w.tomb = d.tomb
    /\ w.cur = d.cur /\ w.sessions = d.sessions
    /\ w = [f \in DatabaseFields |-> w[f]]

LEMMA WrittenRow ==
    ASSUME NEW d, RowsTyped(d), IdsAreUnique(d), d.graph = GraphOf(d.mem),
           NEW s, NEW t, NEW when \in Nat, NEW to \in Nat
    PROVE  Observes(d, ObservedRow(d, s, t, when, to), Written(d, s, t, when, to))
<1> DEFINE n == d.mems + 1
           m == ObservedRow(d, s, t, when, to)
           mem == d.mem \cup {m}
           graph == GraphOf(mem)
           w == Written(d, s, t, when, to)
<1>1. m.id = n /\ m.when = when
  BY DEF ObservedRow
<1>2. Extracted(d.graph, n, Said[n], when) = graph
  <2> HIDE DEF m, n
  <2>1. Events(d.mem)
    BY MemoriesAreEvents
  <2>2. PICK e : e = m
    OBVIOUS
  <2>3. Extracted(GraphOf(d.mem), e.id, Said[e.id], e.when) = GraphOf(d.mem \cup {e})
    BY <1>1, <2>1, <2>2, ExtractedAdds
  <2>4. QED BY <1>1, <2>2, <2>3
<1>3. w = [d EXCEPT !.mem = mem, !.graph = graph, !.mems = n]
  <2>1. w = [d EXCEPT !.mem = @ \cup {m}, !.graph = Extracted(@, n, Said[n], when), !.mems = n]
    BY DEF Written, ObservedRow
  <2> HIDE DEF m, n, w, graph
  <2>2. d = [f \in DatabaseFields |-> d[f]]
    BY DEF RowsTyped
  <2>3. QED BY <1>2, <2>1, <2>2 DEF DatabaseFields
<1>4. d = [f \in DatabaseFields |-> d[f]]
  BY DEF RowsTyped
<1>5. /\ w.mem = mem /\ w.graph = graph /\ w.mems = n
      /\ w.sess = d.sess /\ w.corr = d.corr /\ w.tomb = d.tomb
      /\ w.cur = d.cur /\ w.sessions = d.sessions
      /\ w = [f \in DatabaseFields |-> w[f]]
  <2> HIDE DEF mem, graph, n, w
  <2>1. QED BY <1>3, <1>4 DEF DatabaseFields
<1> HIDE DEF w, m, graph
<1>6. Observes(d, m, w)
  BY <1>5 DEF Observes, graph
<1>7. QED BY <1>6 DEF w, m

\* observe's memory, of a reading that no earlier cut takes.
LEMMA WrittenIsSound ==
    ASSUME NEW d, NEW t, NEW cuts, Sound(d, t, cuts), NEW s \in SessIds(d),
           1 <= t, \A k \in cuts : k < t, NEW when \in Nat, NEW to \in Nat, d.mems < MaxMem
    PROVE  Sound(Written(d, s, t, when, to), t, cuts)
<1> DEFINE n == d.mems + 1
           m == ObservedRow(d, s, t, when, to)
           w == Written(d, s, t, when, to)
<1>0. /\ RowsTyped(d) /\ ReadingsArePast(t, cuts) /\ StampsArePast(d, t) /\ IdsAreUnique(d)
      /\ SuccessionIsOlder(d) /\ SessionsAreThere(d, cuts) /\ EndsAreThere(d) /\ CorrectionsClose(d, cuts)
      /\ d.graph = GraphOf(d.mem)
  BY DEF Sound
<1>1. /\ w.mem = d.mem \cup {m} /\ w.graph = GraphOf(w.mem) /\ w.mems = n
      /\ w.sess = d.sess /\ w.corr = d.corr /\ w.tomb = d.tomb
      /\ w.cur = d.cur /\ w.sessions = d.sessions
      /\ w = [f \in DatabaseFields |-> w[f]]
  <2>1. Observes(d, m, w)
    BY <1>0, WrittenRow
  <2> HIDE DEF m, w
  <2>2. QED BY <2>1 DEF Observes
<1>2. t \in Nat /\ d.mems \in Nat /\ n \in 1 .. MaxMem /\ s \in Nat \ {0}
  BY <1>0, Limits DEF ReadingsArePast, RowsTyped, SessIds, SessionRow
<1>3. /\ m \in MemoryRow /\ m.id = n /\ m.sess = s /\ m.at = t /\ m.to = to /\ m.till = to
  BY <1>2, Limits DEF MemoryRow, ObservedRow
<1>4. \A r \in d.mem : r.id \in 1 .. MaxMem /\ r.id # n /\ r.id <= d.mems
  BY <1>0, <1>2, Limits DEF RowsTyped, MemoryRow, IdsAreUnique
<1>5. \A r \in d.tomb : r.id \in 1 .. MaxMem /\ r.id # n /\ r.id <= d.mems
  BY <1>0, <1>2, Limits DEF RowsTyped, TombRow, IdsAreUnique
<1>6. \A c \in d.corr : c.target # Memory(n) /\ c.repl # Memory(n)
  BY <1>0, <1>4, EndsDiffer DEF EndsAreThere, IsRow
<1> HIDE DEF m, w
<1>7. RowsTyped(w)
  BY <1>0, <1>1, <1>2, <1>3 DEF RowsTyped
<1>8. StampsArePast(w, t)
  BY <1>0, <1>1, <1>2, <1>3 DEF StampsArePast
<1>9. IdsAreUnique(w)
  <2>1. \A r \in w.mem : r.id <= n
    BY <1>1, <1>2, <1>3, <1>4
  <2>2. \A r, q \in w.mem : r.id = q.id => r = q
    BY <1>0, <1>1, <1>3, <1>4 DEF IdsAreUnique
  <2>3. \A r \in w.tomb : r.id <= n /\ \A q \in w.mem : q.id # r.id
    BY <1>0, <1>1, <1>2, <1>3, <1>5 DEF IdsAreUnique
  <2>4. QED BY <1>0, <1>1, <2>1, <2>2, <2>3 DEF IdsAreUnique
<1>10. SuccessionIsOlder(w)
  BY <1>0, <1>1 DEF SuccessionIsOlder
<1>11. SessionsAreThere(w, cuts)
  <2>1. PICK q \in d.sess : q.id = s
    BY DEF SessIds
  <2>2. \A k \in cuts : ~Taken(w, m, k)
    BY <1>0, <1>2, <1>3 DEF Taken, ReadingsArePast
  <2>3. \A r \in d.mem, k \in cuts : Taken(w, r, k) => Taken(d, r, k)
    BY <1>1 DEF Taken
  <2>4. \A r \in w.mem : \E q2 \in w.sess : q2.id = r.sess /\ \A k \in cuts : Taken(w, r, k) => q2.at <= k
    BY <1>0, <1>1, <1>3, <2>1, <2>2, <2>3 DEF SessionsAreThere
  <2>5. QED BY <1>0, <1>1, <2>4 DEF SessionsAreThere
<1>12. EndsAreThere(w)
  <2>1. \A c \in d.corr : IsRow(w, c.target) /\ IsRow(w, c.repl)
    BY <1>0, <1>1 DEF EndsAreThere, IsRow
  <2>2. QED BY <1>0, <1>1, <2>1 DEF EndsAreThere
<1>13. CorrectionsClose(w, cuts)
  <2>1. \A r \in w.mem : \A c \in w.corr : c.target = Memory(r.id) =>
            r.at < c.at /\ r.to = c.at /\ \A k \in w.corr : k.repl = c.target => k.at < c.at
    BY <1>0, <1>1, <1>3, <1>6 DEF CorrectionsClose
  <2>2. \A r \in w.mem : \A c \in w.corr : c.repl = Memory(r.id) => \A k \in cuts : c.at <= k => r.at <= k
    BY <1>0, <1>1, <1>3, <1>6 DEF CorrectionsClose
  <2>3. \A r \in w.mem : /\ r.to # 0 /\ r.to # r.till => \E c \in w.corr : c.target = Memory(r.id)
                         /\ r.till # 0 => r.to = r.till
    <3>1. \A r \in d.mem : /\ r.to # 0 /\ r.to # r.till => \E c \in d.corr : c.target = Memory(r.id)
                           /\ r.till # 0 => r.to = r.till
      BY <1>0 DEF CorrectionsClose
    <3>2. m.to = m.till
      BY <1>3
    <3> HIDE DEF n
    <3>3. ASSUME NEW r \in w.mem, r # m
          PROVE  /\ r.to # 0 /\ r.to # r.till => \E c \in w.corr : c.target = Memory(r.id)
                 /\ r.till # 0 => r.to = r.till
      BY ONLY <1>1, <3>1, <3>3
    <3>4. QED BY ONLY <3>2, <3>3
  <2>4. QED BY <2>1, <2>2, <2>3 DEF CorrectionsClose
<1>14. QED BY <1>0, <1>1, <1>7, <1>8, <1>9, <1>10, <1>11, <1>12, <1>13 DEF Sound, w

\* end_session sets the end of open sessions, and changes nothing else of them.
LEMMA EndedIsSound ==
    ASSUME NEW d, NEW t, NEW cuts, Sound(d, t, cuts), NEW some, some \subseteq d.sess, NEW cur \in Nat
    PROVE  Sound([d EXCEPT !.sess = (@ \ some) \cup {[x EXCEPT !.end = t] : x \in some}, !.cur = cur], t, cuts)
<1> DEFINE sess == (d.sess \ some) \cup {[x EXCEPT !.end = t] : x \in some}
           w == [d EXCEPT !.sess = sess, !.cur = cur]
<1>0. /\ RowsTyped(d) /\ ReadingsArePast(t, cuts) /\ StampsArePast(d, t) /\ IdsAreUnique(d)
      /\ SuccessionIsOlder(d) /\ SessionsAreThere(d, cuts) /\ EndsAreThere(d) /\ CorrectionsClose(d, cuts)
      /\ d.graph = GraphOf(d.mem)
  BY DEF Sound
<1>1. d = [f \in DatabaseFields |-> d[f]] /\ t \in Nat
  BY <1>0 DEF RowsTyped, ReadingsArePast
<1>2. \A x \in d.sess : x \in SessionRow
  BY <1>0 DEF RowsTyped
<1>3. \A x \in some : LET e == [x EXCEPT !.end = t]
                      IN  e \in SessionRow /\ e.id = x.id /\ e.at = x.at /\ e.pred = x.pred /\ e.end = t
  BY <1>1, <1>2 DEF SessionRow
<1>4. ASSUME NEW e \in sess
      PROVE  /\ e \in SessionRow /\ e.end <= t
             /\ \E x \in d.sess : /\ x.id = e.id /\ x.at = e.at /\ x.pred = e.pred
                                  /\ e = IF x \in some THEN [x EXCEPT !.end = t] ELSE x
  <2>1. CASE e \in d.sess \ some
    BY <1>0, <1>2, <2>1 DEF StampsArePast
  <2>2. CASE e \notin d.sess \ some
    <3>1. PICK x \in some : e = [x EXCEPT !.end = t]
      BY <2>2
    <3>2. x \in d.sess /\ e \in SessionRow /\ e.id = x.id /\ e.at = x.at /\ e.pred = x.pred /\ e.end = t
      BY <1>3, <3>1, Zenon
    <3>3. t <= t
      BY <1>1
    <3> HIDE DEF sess
    <3>4. QED BY <3>1, <3>2, <3>3, Zenon
  <2>3. QED BY <2>1, <2>2
<1>5. ASSUME NEW x \in d.sess
      PROVE  \E e \in sess : e.id = x.id /\ e.at = x.at /\ e.pred = x.pred
  <2>1. CASE x \in some
    BY <1>3, <2>1
  <2>2. CASE x \notin some
    BY <2>2
  <2>3. QED BY <2>1, <2>2
<1>6. /\ w.sess = sess /\ w.cur = cur
      /\ w.mem = d.mem /\ w.corr = d.corr /\ w.tomb = d.tomb /\ w.graph = d.graph
      /\ w.mems = d.mems /\ w.sessions = d.sessions
      /\ w = [f \in DatabaseFields |-> w[f]]
  <2> HIDE DEF sess
  <2>1. QED BY <1>1 DEF DatabaseFields
<1>7. [d EXCEPT !.sess = (@ \ some) \cup {[x EXCEPT !.end = t] : x \in some}, !.cur = cur] = w
  BY <1>1 DEF DatabaseFields
<1> HIDE DEF sess, w
<1>8. RowsTyped(w)
  BY <1>0, <1>4, <1>6 DEF RowsTyped
<1>9. StampsArePast(w, t)
  BY <1>0, <1>4, <1>6 DEF StampsArePast
<1>10. IdsAreUnique(w)
  <2>1. \A e, f \in sess : e.id = f.id => e = f
    BY <1>0, <1>4 DEF IdsAreUnique
  <2>2. QED BY <1>0, <1>4, <1>6, <2>1 DEF IdsAreUnique
<1>11. SuccessionIsOlder(w)
  <2>1. ASSUME NEW e \in sess, e.pred # 0 PROVE \E q \in sess : q.id = e.pred /\ q.at < e.at
    <3>1. PICK x \in d.sess : x.at = e.at /\ x.pred = e.pred
      BY <1>4
    <3>2. PICK q \in d.sess : q.id = e.pred /\ q.at < e.at
      BY <1>0, <2>1, <3>1 DEF SuccessionIsOlder
    <3>3. QED BY <1>5, <3>2
  <2>2. QED BY <1>6, <2>1 DEF SuccessionIsOlder
<1>12. SessionsAreThere(w, cuts)
  <2>1. \A m, k : Taken(w, m, k) <=> Taken(d, m, k)
    BY <1>6 DEF Taken
  <2>2. ASSUME NEW m \in d.mem
        PROVE  \E e \in sess : e.id = m.sess /\ \A k \in cuts : Taken(w, m, k) => e.at <= k
    <3>1. PICK x \in d.sess : x.id = m.sess /\ \A k \in cuts : Taken(d, m, k) => x.at <= k
      BY <1>0 DEF SessionsAreThere
    <3>2. PICK e \in sess : e.id = x.id /\ e.at = x.at
      BY <1>5
    <3>3. QED BY <2>1, <3>1, <3>2
  <2>3. ASSUME NEW c \in d.corr, c.sess # 0
        PROVE  \E e \in sess : e.id = c.sess /\ \A k \in cuts : c.at <= k => e.at <= k
    <3>1. PICK x \in d.sess : x.id = c.sess /\ \A k \in cuts : c.at <= k => x.at <= k
      BY <1>0, <2>3 DEF SessionsAreThere
    <3>2. PICK e \in sess : e.id = x.id /\ e.at = x.at
      BY <1>5
    <3>3. QED BY <3>1, <3>2
  <2>4. QED BY <1>6, <2>2, <2>3 DEF SessionsAreThere
<1>13. EndsAreThere(w)
  BY <1>0, <1>6 DEF EndsAreThere, IsRow
<1>14. CorrectionsClose(w, cuts)
  BY <1>0, <1>6 DEF CorrectionsClose
<1>15. QED BY <1>0, <1>6, <1>7, <1>8, <1>9, <1>10, <1>11, <1>12, <1>13, <1>14 DEF Sound

\* contradict's rows: the memory old is closed at u and its correction written,
\* with the rows of a replacement in added or without one.
Corrects(d, t, u, s, old, by, added, w) ==
    /\ \/ added = {} /\ by = Nobody
       \/ \E m \in MemoryRow : /\ added = {m} /\ by = Memory(m.id)
                               /\ m.id = d.mems + 1 /\ m.sess = s /\ 1 <= m.at /\ m.at <= t
                               /\ m.to = 0 /\ m.till = 0
    /\ w = [f \in DatabaseFields |-> w[f]]
    /\ w.mem = {IF m.id = old.id THEN [m EXCEPT !.to = u] ELSE m : m \in d.mem} \cup added
    /\ w.corr = d.corr \cup {[target |-> Memory(old.id), at |-> u, sess |-> s, repl |-> by]}
    /\ w.graph = GraphOf(w.mem)
    /\ w.mems \in Nat /\ w.mems <= MaxMem /\ d.mems <= w.mems /\ \A m \in added : m.id <= w.mems
    /\ w.sess = d.sess /\ w.tomb = d.tomb /\ w.cur = d.cur /\ w.sessions = d.sessions

\* The correction is of a later reading than what it corrects, than every other
\* correction and than every cut.
LEMMA CorrectedIsSound ==
    ASSUME NEW d, NEW t, NEW cuts, Sound(d, t, cuts),
           NEW s \in SessIds(d), NEW old \in d.mem, old.to = 0,
           NEW u \in Nat, 1 <= u, u <= t, \A k \in cuts : k < u,
           old.at < u, \A k \in d.corr : k.at < u,
           NEW by, NEW added, NEW w, Corrects(d, t, u, s, old, by, added, w)
    PROVE  Sound(w, t, cuts)
<1> DEFINE c == [target |-> Memory(old.id), at |-> u, sess |-> s, repl |-> by]
           closed(m) == IF m.id = old.id THEN [m EXCEPT !.to = u] ELSE m
<1>0. /\ RowsTyped(d) /\ ReadingsArePast(t, cuts) /\ StampsArePast(d, t) /\ IdsAreUnique(d)
      /\ SuccessionIsOlder(d) /\ SessionsAreThere(d, cuts) /\ EndsAreThere(d) /\ CorrectionsClose(d, cuts)
  BY DEF Sound
<1>1. t \in Nat /\ d.mems \in Nat /\ s \in Nat \ {0} /\ old.id \in 1 .. MaxMem
  BY <1>0 DEF ReadingsArePast, RowsTyped, SessIds, SessionRow, MemoryRow
<1>2. \A m \in d.mem : m \in MemoryRow /\ m.id <= d.mems /\ 1 <= m.at /\ m.at <= t
  BY <1>0 DEF RowsTyped, IdsAreUnique, StampsArePast
<1>3. \A m \in added : /\ m \in MemoryRow /\ m.id = d.mems + 1 /\ m.sess = s /\ 1 <= m.at /\ m.at <= t
                       /\ m.to = 0 /\ m.till = 0
                       /\ by = Memory(m.id) /\ \A q \in added : q = m
  BY DEF Corrects
<1>4. by \in RowEnd \cup {Nobody}
  BY EndsDiffer DEF Corrects, MemoryRow
<1>5. by # Nobody => \E m \in added : by = Memory(m.id)
  BY DEF Corrects
<1>6. /\ c \in CorrectionRow
      /\ c.target = Memory(old.id) /\ c.at = u /\ c.sess = s /\ c.repl = by
  BY <1>1, <1>4, EndsDiffer DEF CorrectionRow
<1>7. \A m \in d.mem : /\ closed(m) \in MemoryRow /\ closed(m).id = m.id /\ closed(m).at = m.at
                       /\ closed(m).sess = m.sess /\ closed(m).till = m.till
                       /\ closed(m).to = IF m.id = old.id THEN u ELSE m.to
  BY <1>2 DEF MemoryRow
<1>8. /\ w = [f \in DatabaseFields |-> w[f]]
      /\ w.mem = {closed(m) : m \in d.mem} \cup added
      /\ w.corr = d.corr \cup {c}
      /\ w.graph = GraphOf(w.mem)
      /\ w.mems \in Nat /\ w.mems <= MaxMem /\ d.mems <= w.mems /\ \A m \in added : m.id <= w.mems
      /\ w.sess = d.sess /\ w.tomb = d.tomb /\ w.cur = d.cur /\ w.sessions = d.sessions
  BY DEF Corrects
<1> HIDE DEF closed, c
<1>9. \A c1 \in d.corr : c1.target # Memory(old.id) /\ c1.at < u /\ c1 \in CorrectionRow
  <2>1. \A c1 \in d.corr : 1 <= c1.at /\ c1 \in CorrectionRow
    BY <1>0 DEF StampsArePast, RowsTyped
  <2>2. \A c1 \in d.corr : c1.target = Memory(old.id) => old.to = c1.at
    BY <1>0 DEF CorrectionsClose
  <2>3. QED BY <2>1, <2>2
<1>10. \A m \in added : \A c1 \in d.corr : c1.target # Memory(m.id) /\ c1.repl # Memory(m.id)
  <2>1. ASSUME NEW m \in added, NEW c1 \in d.corr, c1.target = Memory(m.id) \/ c1.repl = Memory(m.id) PROVE FALSE
    <3>1. PICK q \in d.mem : q.id = m.id
      BY <1>0, <2>1, EndsDiffer DEF EndsAreThere, IsRow
    <3>2. QED BY <1>1, <1>2, <1>3, <3>1 DEF MemoryRow
  <2>2. QED BY <2>1
<1>11. \A m \in d.mem : by # Memory(m.id)
  <2>1. ASSUME NEW m \in d.mem, by = Memory(m.id) PROVE FALSE
    <3>1. PICK q \in added : by = Memory(q.id)
      BY <1>5, <2>1, EndsDiffer
    <3>2. q.id = m.id
      BY <2>1, <3>1, EndsDiffer
    <3>3. QED BY <1>1, <1>2, <1>3, <3>2 DEF MemoryRow
  <2>2. QED BY <2>1
<1>12. RowsTyped(w)
  BY <1>0, <1>3, <1>6, <1>7, <1>8 DEF RowsTyped
<1>13. StampsArePast(w, t)
  <2>1. \A m \in w.mem : 1 <= m.at /\ m.at <= t
    BY <1>2, <1>3, <1>7, <1>8
  <2>2. \A c1 \in w.corr : 1 <= c1.at /\ c1.at <= t
    BY <1>0, <1>6, <1>8 DEF StampsArePast
  <2>3. QED BY <1>0, <1>8, <2>1, <2>2 DEF StampsArePast
<1>14. IdsAreUnique(w)
  <2>1. \A m \in w.mem : m.id <= w.mems
    BY <1>1, <1>2, <1>3, <1>7, <1>8 DEF MemoryRow
  <2>2. ASSUME NEW m \in w.mem, NEW q \in w.mem, m.id = q.id PROVE m = q
    <3>1. CASE m \in added \/ q \in added
      <4>1. m \in added /\ q \in added
        <5>1. \A r \in d.mem : closed(r).id <= d.mems /\ closed(r).id \in Nat
          BY <1>1, <1>2, <1>7 DEF MemoryRow
        <5>2. \A r \in added : r.id > d.mems
          BY <1>1, <1>3
        <5>3. QED BY <1>1, <1>8, <2>2, <3>1, <5>1, <5>2
      <4>2. QED BY <1>3, <4>1
    <3>2. CASE m \notin added /\ q \notin added
      <4>1. PICK r \in d.mem : m = closed(r)
        BY <1>8, <3>2
      <4>2. PICK x \in d.mem : q = closed(x)
        BY <1>8, <3>2
      <4>3. r = x
        BY <1>0, <1>7, <2>2, <4>1, <4>2 DEF IdsAreUnique
      <4>4. QED BY <4>1, <4>2, <4>3
    <3>3. QED BY <3>1, <3>2
  <2>3. ASSUME NEW e \in w.tomb PROVE e.id <= w.mems /\ \A m \in w.mem : m.id # e.id
    <3>1. e.id <= d.mems /\ e.id \in Nat /\ \A m \in d.mem : m.id # e.id
      BY <1>0, <1>8 DEF IdsAreUnique, RowsTyped, TombRow
    <3>2. \A m \in added : m.id # e.id
      BY <1>1, <1>3, <3>1
    <3>3. QED BY <1>1, <1>7, <1>8, <3>1, <3>2
  <2>4. QED BY <1>0, <1>8, <2>1, <2>2, <2>3 DEF IdsAreUnique
<1>15. SuccessionIsOlder(w)
  BY <1>0, <1>8 DEF SuccessionIsOlder
<1>16. SessionsAreThere(w, cuts)
  <2>1. PICK q \in d.sess : q.id = s
    BY DEF SessIds
  <2>2. \A m \in added, k \in cuts : ~Taken(w, m, k)
    BY <1>3, <1>6, <1>8 DEF Taken
  <2>3. ASSUME NEW m \in d.mem, NEW k \in cuts, Taken(w, closed(m), k) PROVE Taken(d, m, k)
    BY <1>7, <1>8, <2>3 DEF Taken
  <2>4. ASSUME NEW m \in w.mem
        PROVE  \E x \in w.sess : x.id = m.sess /\ \A k \in cuts : Taken(w, m, k) => x.at <= k
    <3>1. CASE m \in added
      BY <1>3, <1>8, <2>1, <2>2, <3>1
    <3>2. ASSUME NEW r \in d.mem, m = closed(r)
          PROVE  \E x \in w.sess : x.id = m.sess /\ \A k \in cuts : Taken(w, m, k) => x.at <= k
      <4>1. PICK x \in d.sess : x.id = r.sess /\ \A k \in cuts : Taken(d, r, k) => x.at <= k
        BY <1>0 DEF SessionsAreThere
      <4>2. QED BY <1>7, <1>8, <2>3, <3>2, <4>1
    <3>3. QED BY <1>8, <3>1, <3>2
  <2>5. \A k \in cuts : ~(u <= k)
    BY <1>0 DEF ReadingsArePast
  <2>6. \A c1 \in w.corr : c1.sess # 0 =>
          \E x \in w.sess : x.id = c1.sess /\ \A k \in cuts : c1.at <= k => x.at <= k
    BY <1>0, <1>6, <1>8, <2>1, <2>5 DEF SessionsAreThere
  <2>7. QED BY <1>8, <2>4, <2>6 DEF SessionsAreThere
<1>17. EndsAreThere(w)
  <2>1. \A m \in d.mem : \E q \in w.mem : q.id = m.id
    BY <1>7, <1>8
  <2>2. \A c1 \in d.corr : IsRow(w, c1.target) /\ IsRow(w, c1.repl)
    BY <1>0, <1>8, <2>1 DEF EndsAreThere, IsRow
  <2>3. IsRow(w, c.target)
    BY <1>6, <2>1, EndsDiffer DEF IsRow
  <2>4. IsRow(w, c.repl)
    BY <1>5, <1>6, <1>8, EndsDiffer DEF IsRow
  <2>5. \A c1, k \in w.corr : c1.target = k.target => c1 = k
    BY <1>0, <1>6, <1>8, <1>9 DEF EndsAreThere
  <2>6. \A c1, k \in w.corr : c1.repl = k.repl /\ c1.repl.kind = "memory" => c1 = k
    <3>1. \A c1 \in d.corr : c1.repl = by => by = Nobody
      BY <1>5, <1>10
    <3>2. QED BY <1>0, <1>6, <1>8, <3>1, EndsDiffer DEF EndsAreThere
  <2>7. QED BY <1>0, <1>8, <2>2, <2>3, <2>4, <2>5, <2>6 DEF EndsAreThere
<1>18. CorrectionsClose(w, cuts)
  <2>1. ASSUME NEW m \in w.mem, NEW c1 \in w.corr, c1.target = Memory(m.id)
        PROVE  m.at < c1.at /\ m.to = c1.at /\ \A k \in w.corr : k.repl = c1.target => k.at < c1.at
    <3>1. m \notin added
      BY <1>1, <1>2, <1>3, <1>6, <1>8, <1>10, <2>1, EndsDiffer DEF MemoryRow
    <3>2. PICK r \in d.mem : m = closed(r)
      BY <1>8, <3>1
    <3>3. r.id = m.id /\ by # c1.target
      BY <1>7, <1>11, <2>1, <3>2
    <3>4. CASE c1 = c
      <4>1. r = old
        BY <1>0, <1>6, <2>1, <3>3, <3>4, EndsDiffer DEF IdsAreUnique
      <4>2. QED BY <1>6, <1>7, <1>8, <1>9, <3>2, <3>3, <3>4, <4>1
    <3>5. CASE c1 \in d.corr
      <4>1. r.id # old.id
        BY <1>9, <2>1, <3>3, <3>5
      <4>2. r.at < c1.at /\ r.to = c1.at /\ \A k \in d.corr : k.repl = c1.target => k.at < c1.at
        BY <1>0, <2>1, <3>3, <3>5 DEF CorrectionsClose
      <4>3. QED BY <1>6, <1>7, <1>8, <3>2, <3>3, <4>1, <4>2
    <3>6. QED BY <1>8, <3>4, <3>5
  <2>2. ASSUME NEW m \in w.mem, NEW c1 \in w.corr, c1.repl = Memory(m.id), NEW k \in cuts, c1.at <= k
        PROVE  m.at <= k
    <3>1. c1 # c
      BY <1>0, <1>6, <2>2 DEF ReadingsArePast
    <3>2. m \notin added
      BY <1>8, <1>10, <2>2, <3>1
    <3>3. PICK r \in d.mem : m = closed(r)
      BY <1>8, <3>2
    <3>4. QED BY <1>0, <1>7, <1>8, <2>2, <3>1, <3>3 DEF CorrectionsClose
  <2>3. ASSUME NEW m \in w.mem, m.to # 0 /\ m.to # m.till PROVE \E c1 \in w.corr : c1.target = Memory(m.id)
    <3>1. m \notin added
      BY <1>3, <2>3
    <3>2. PICK r \in d.mem : m = closed(r)
      BY <1>8, <3>1
    <3>3. QED BY <1>0, <1>6, <1>7, <1>8, <2>3, <3>2 DEF CorrectionsClose
  <2>4. ASSUME NEW m \in w.mem, m.till # 0 PROVE m.to = m.till
    <3>1. PICK r \in d.mem : m = closed(r)
      BY <1>3, <1>8, <2>4
    <3>2. r.to = r.till /\ r.till # 0
      BY <1>0, <1>7, <2>4, <3>1 DEF CorrectionsClose
    <3>3. r.id # old.id
      BY <1>0, <3>2 DEF IdsAreUnique
    <3>4. QED BY <1>7, <3>1, <3>2, <3>3
  <2>5. QED BY <2>1, <2>2, <2>3, <2>4 DEF CorrectionsClose
<1>19. QED BY <1>0, <1>8, <1>12, <1>13, <1>14, <1>15, <1>16, <1>17, <1>18 DEF Sound

\* A correction of an erased memory names its tombstone instead, and no session.
LEMMA ScrubbedIs ==
    ASSUME NEW n \in 1 .. MaxMem, NEW c \in db.corr, c \in CorrectionRow
    PROVE  LET scrub(e) == IF e = Memory(n) THEN Tombstone(n) ELSE e
               k == Scrubbed(c, n)
           IN  /\ k \in CorrectionRow /\ k.at = c.at /\ k.sess \in {0, c.sess}
               /\ k.target = scrub(c.target) /\ k.repl = scrub(c.repl)
<1> DEFINE scrub(e) == IF e = Memory(n) THEN Tombstone(n) ELSE e
           k == [c EXCEPT !.target = scrub(c.target), !.repl = scrub(c.repl), !.sess = 0]
<1>1. CASE c \notin Touching(n)
  <2>1. c.target # Memory(n) /\ c.repl # Memory(n)
    BY <1>1, EndsDiffer DEF Touching, Ends
  <2>2. Scrubbed(c, n) = c
    BY <1>1 DEF Scrubbed
  <2>3. QED BY <2>1, <2>2
<1>2. CASE c \in Touching(n)
  <2>1. Scrubbed(c, n) = k
    BY <1>2 DEF Scrubbed
  <2>2. scrub(c.target) \in RowEnd /\ scrub(c.repl) \in RowEnd \cup {Nobody}
    BY EndsDiffer DEF CorrectionRow
  <2>3. k \in CorrectionRow /\ k.at = c.at /\ k.sess = 0 /\ k.target = scrub(c.target) /\ k.repl = scrub(c.repl)
    <3> HIDE DEF scrub
    <3>1. QED BY <2>2 DEF CorrectionRow
  <2>4. QED BY <2>1, <2>3
<1>3. QED BY <1>1, <1>2

\* What is pruned names tombstones only, and nothing that stays names them too.
LEMMA SurviveIs ==
    ASSUME NEW rs
    PROVE  /\ Survive(rs) \subseteq rs
           /\ \A c \in rs \ Survive(rs) : \A e \in Ends(c) : e.kind = "tombstone"
<1> DEFINE whole(w) == \A c \in w, x \in rs \ w : Ends(c) \cap Ends(x) = {}
           erased(w) == \A c \in w : \A e \in Ends(c) : e.kind = "tombstone"
<1>1. Survive(rs) = {c \in rs : \A w \in SUBSET rs : c \in w => ~(whole(w) /\ erased(w))}
  BY DEF Survive
<1>2. QED BY <1>1

\* purge's erasure of a memory: its row, its corrections' ends, its graph.
LEMMA ErasedIsSound ==
    ASSUME ExportInv, NEW n \in MemIds(db), clock < MaxClock
    PROVE  Sound(Erased(n), clock + 1, {})
<1> DEFINE t == clock + 1
           kept == {c \in db.corr : ~(c.target = Memory(n) /\ c.repl = Nobody)}
           scrubbed == {Scrubbed(c, n) : c \in kept}
           rows == Survive(scrubbed)
           stone == IF NeedsTombstone(n) THEN {[id |-> n, at |-> t]} ELSE {}
           tomb == {r \in db.tomb \cup stone : \E c \in rows : Tombstone(r.id) \in Ends(c)}
           mem == {m \in db.mem : m.id # n}
           graph == Forgotten(db.graph, n)
           w == Erased(n)
           scrub(e) == IF e = Memory(n) THEN Tombstone(n) ELSE e
<1>0. /\ RowsTyped(db) /\ ReadingsArePast(clock, past) /\ StampsArePast(db, clock) /\ IdsAreUnique(db)
      /\ SuccessionIsOlder(db) /\ SessionsAreThere(db, past) /\ EndsAreThere(db) /\ CorrectionsClose(db, past)
      /\ db.graph = GraphOf(db.mem)
  BY DEF ExportInv, Sound
<1>1. PICK old \in db.mem : old.id = n
  BY DEF MemIds
<1>2. clock \in Nat /\ t \in Nat /\ t <= MaxClock /\ n \in 1 .. MaxMem /\ n <= db.mems
  <2>1. clock \in Nat /\ MaxClock \in Nat
    BY <1>0, Limits DEF ReadingsArePast
  <2>2. old.id \in 1 .. MaxMem /\ old.id <= db.mems
    BY <1>0 DEF RowsTyped, MemoryRow, IdsAreUnique
  <2>3. QED BY <1>1, <2>1, <2>2
<1>3. /\ w.mem = mem /\ w.corr = rows /\ w.tomb = tomb /\ w.graph = graph
      /\ w.sess = db.sess /\ w.cur = db.cur /\ w.mems = db.mems /\ w.sessions = db.sessions
      /\ w = [f \in DatabaseFields |-> w[f]]
  <2>1. db = [f \in DatabaseFields |-> db[f]]
    BY <1>0 DEF RowsTyped
  <2>2. w = [db EXCEPT !.mem = mem, !.corr = rows, !.tomb = tomb, !.graph = graph]
    <3>1. w = [db EXCEPT !.mem = {m \in @ : m.id # n}, !.corr = rows,
                         !.tomb = {r \in @ \cup stone : \E c \in rows : Tombstone(r.id) \in Ends(c)},
                         !.graph = Forgotten(@, n)]
      <4> HIDE DEF rows, stone
      <4>1. QED BY DEF Erased, rows, stone, scrubbed, kept
    <3> HIDE DEF rows, stone, w
    <3>2. QED BY <2>1, <3>1 DEF DatabaseFields
  <2> HIDE DEF mem, rows, tomb, graph, w
  <2>3. QED BY <2>1, <2>2 DEF DatabaseFields
<1>4. \A c \in db.corr : LET k == Scrubbed(c, n)
                         IN  /\ k \in CorrectionRow /\ k.at = c.at /\ k.sess \in {0, c.sess}
                             /\ k.target = scrub(c.target) /\ k.repl = scrub(c.repl)
  BY <1>0, <1>2, ScrubbedIs DEF RowsTyped
<1>5. ASSUME NEW k \in rows
      PROVE  /\ k \in CorrectionRow
             /\ \E c \in db.corr : /\ ~(c.target = Memory(n) /\ c.repl = Nobody)
                                   /\ k = Scrubbed(c, n) /\ k.at = c.at /\ k.sess \in {0, c.sess}
                                   /\ k.target = scrub(c.target) /\ k.repl = scrub(c.repl)
  <2>1. k \in scrubbed
    BY SurviveIs
  <2>2. PICK c \in kept : k = Scrubbed(c, n)
    BY <2>1
  <2> HIDE DEF scrub
  <2>3. QED BY <1>4, <2>2
<1>6. ASSUME NEW c \in db.corr, NEW m, m # n, c.target = Memory(m)
      PROVE  \E k \in rows : k.target = Memory(m) /\ k.at = c.at
  <2>1. c \in kept /\ Scrubbed(c, n) \in scrubbed
    BY <1>6, EndsDiffer
  <2>2. Scrubbed(c, n).target = Memory(m) /\ Scrubbed(c, n).at = c.at
    BY <1>4, <1>6, EndsDiffer
  <2>3. Memory(m) \in Ends(Scrubbed(c, n)) /\ Memory(m).kind # "tombstone"
    BY <2>2, EndsDiffer DEF Ends
  <2>4. Scrubbed(c, n) \in rows
    <3> HIDE DEF scrubbed
    <3>1. QED BY <2>1, <2>3, SurviveIs
  <2>5. QED BY <2>2, <2>4
<1> HIDE DEF w, rows, scrubbed, kept
<1>7. \A c \in db.corr : c.target # Tombstone(n) /\ c.repl # Tombstone(n)
  BY <1>0, <1>1, EndsDiffer DEF EndsAreThere, IsRow, IdsAreUnique
<1>8. \A c, k \in db.corr : (scrub(c.target) = scrub(k.target) => c.target = k.target) /\ (scrub(c.repl) = scrub(k.repl) => c.repl = k.repl)
  BY <1>7
<1>9. graph = GraphOf(mem)
  <2>1. Events(db.mem)
    BY <1>0, MemoriesAreEvents
  <2>2. mem = db.mem \ {old}
    BY <1>0, <1>1 DEF IdsAreUnique
  <2>3. QED BY <1>0, <1>1, <2>1, <2>2, ForgottenDrops
<1>10. RowsTyped(w)
  <2>1. stone \subseteq TombRow
    BY <1>2 DEF TombRow
  <2>2. QED BY <1>0, <1>3, <1>5, <2>1 DEF RowsTyped
<1>11. StampsArePast(w, t)
  <2>1. \A r \in db.sess \cup db.mem \cup db.corr \cup db.tomb : 1 <= r.at /\ r.at <= t
    <3>1. Sound(db, t, past)
      BY <1>2, ClockRuns DEF ExportInv
    <3>2. QED BY <3>1 DEF Sound, StampsArePast
  <2>2. \A s \in db.sess : s.end <= t
    <3>1. Sound(db, t, past)
      BY <1>2, ClockRuns DEF ExportInv
    <3>2. QED BY <3>1 DEF Sound, StampsArePast
  <2>3. \A r \in stone : 1 <= r.at /\ r.at <= t
    BY <1>2
  <2>4. \A k \in rows : 1 <= k.at /\ k.at <= t
    BY <1>5, <2>1
  <2>5. QED BY <1>3, <2>1, <2>2, <2>3, <2>4 DEF StampsArePast
<1>12. IdsAreUnique(w)
  BY <1>0, <1>2, <1>3 DEF IdsAreUnique
<1>13. SuccessionIsOlder(w)
  BY <1>0, <1>3 DEF SuccessionIsOlder
<1>14. SessionsAreThere(w, {})
  <2>1. \A k \in rows : k.sess # 0 => \E s \in db.sess : s.id = k.sess
    BY <1>0, <1>5 DEF SessionsAreThere
  <2>2. \A m \in mem : \E s \in db.sess : s.id = m.sess
    BY <1>0 DEF SessionsAreThere
  <2>3. QED BY <1>3, <2>1, <2>2 DEF SessionsAreThere
<1>15. EndsAreThere(w)
  <2>1. ASSUME NEW k \in rows, NEW e \in {k.target, k.repl} PROVE IsRow(w, e)
    <3>1. PICK c \in db.corr : /\ ~(c.target = Memory(n) /\ c.repl = Nobody)
                               /\ k.target = scrub(c.target) /\ k.repl = scrub(c.repl)
      BY <1>5
    <3>2. PICK x \in {c.target, c.repl} : e = scrub(x)
      BY <2>1, <3>1
    <3>3. IsRow(db, x) /\ x \in RowEnd \cup {Nobody}
      BY <1>0, <3>2 DEF EndsAreThere, RowsTyped, CorrectionRow
    <3>4. e # Nobody => e \in Ends(k)
      BY <2>1 DEF Ends
    <3>5. CASE x = Memory(n)
      <4>1. c \in Touching(n) /\ (c.target = Memory(n) => c.repl # Nobody)
        BY <3>1, <3>2, <3>5, EndsDiffer DEF Touching, Ends
      <4>2. stone = {[id |-> n, at |-> t]}
        BY <4>1 DEF NeedsTombstone
      <4>3. e = Tombstone(n)
        BY <3>2, <3>5
      <4>4. \E r \in tomb : r.id = n
        <5>1. PICK r \in stone : r.id = n
          BY <4>2
        <5>2. Tombstone(r.id) \in Ends(k)
          BY <3>4, <4>3, <5>1, EndsDiffer
        <5> HIDE DEF stone
        <5>3. QED BY <5>1, <5>2
      <4>5. QED BY <1>3, <4>3, <4>4, EndsDiffer DEF IsRow
    <3>6. CASE x # Memory(n) /\ x.kind = "memory"
      BY <1>3, <3>2, <3>3, <3>6, EndsDiffer DEF IsRow
    <3>7. CASE x.kind = "tombstone"
      <4>1. x # Memory(n) /\ x = Tombstone(x.id)
        BY <3>3, <3>7, EndsDiffer
      <4>2. PICK r \in db.tomb : r.id = x.id
        BY <3>3, <3>7 DEF IsRow
      <4>3. r \in tomb
        BY <3>2, <3>4, <4>1, <4>2, EndsDiffer
      <4>4. QED BY <1>3, <3>2, <4>1, <4>2, <4>3, EndsDiffer DEF IsRow
    <3>8. CASE x = Nobody
      BY <3>2, <3>8, EndsDiffer DEF IsRow
    <3>9. QED BY <3>3, <3>5, <3>6, <3>7, <3>8, EndsDiffer
  <2>2. \A k, x \in rows : k.target = x.target => k = x
    BY <1>0, <1>5, <1>8 DEF EndsAreThere
  <2>3. ASSUME NEW k \in rows, NEW x \in rows, k.repl = x.repl, k.repl.kind = "memory" PROVE k = x
    <3>1. PICK c \in db.corr : k = Scrubbed(c, n) /\ k.repl = scrub(c.repl)
      BY <1>5
    <3>2. PICK d \in db.corr : x = Scrubbed(d, n) /\ x.repl = scrub(d.repl)
      BY <1>5
    <3>3. c.repl = d.repl /\ c.repl.kind = "memory"
      BY <1>8, <2>3, <3>1, <3>2, EndsDiffer
    <3>4. QED BY <1>0, <3>1, <3>2, <3>3 DEF EndsAreThere
  <2>4. \A r \in tomb : \E c \in rows : Tombstone(r.id) \in {c.target, c.repl}
    BY DEF Ends
  <2>5. QED BY <1>3, <2>1, <2>2, <2>3, <2>4 DEF EndsAreThere
<1>16. CorrectionsClose(w, {})
  <2>1. ASSUME NEW k \in rows, NEW m, k.target = Memory(m) \/ k.repl = Memory(m)
        PROVE  \E c \in db.corr : /\ k.at = c.at
                                  /\ k.target = Memory(m) => c.target = Memory(m)
                                  /\ k.repl = Memory(m) => c.repl = Memory(m)
    BY <1>5, EndsDiffer
  <2>2. ASSUME NEW m \in mem, NEW k \in rows, k.target = Memory(m.id)
        PROVE  m.at < k.at /\ m.to = k.at /\ \A x \in rows : x.repl = k.target => x.at < k.at
    <3>1. PICK c \in db.corr : k.at = c.at /\ c.target = Memory(m.id)
      BY <2>1, <2>2
    <3>2. \A x \in rows : x.repl = Memory(m.id) => \E y \in db.corr : x.at = y.at /\ y.repl = Memory(m.id)
      BY <2>1
    <3>3. m.at < c.at /\ m.to = c.at /\ \A y \in db.corr : y.repl = c.target => y.at < c.at
      BY <1>0, <3>1 DEF CorrectionsClose
    <3>4. QED BY <2>2, <3>1, <3>2, <3>3
  <2>3. \A m \in mem : /\ m.to # 0 /\ m.to # m.till => \E k \in rows : k.target = Memory(m.id)
                       /\ m.till # 0 => m.to = m.till
    <3>1. \A m \in db.mem : /\ m.to # 0 /\ m.to # m.till => \E c \in db.corr : c.target = Memory(m.id)
                            /\ m.till # 0 => m.to = m.till
      BY <1>0 DEF CorrectionsClose
    <3>2. ASSUME NEW m \in mem, m.to # 0 /\ m.to # m.till PROVE \E k \in rows : k.target = Memory(m.id)
      <4>1. m \in db.mem /\ m.id # n
        BY DEF mem
      <4>2. PICK c \in db.corr : c.target = Memory(m.id)
        BY ONLY <3>1, <3>2, <4>1
      <4>3. QED BY ONLY <1>6, <4>1, <4>2
    <3>3. QED BY <3>1, <3>2
  <2>4. QED BY <1>3, <2>2, <2>3 DEF CorrectionsClose
<1>17. ReadingsArePast(t, {})
  BY <1>2 DEF ReadingsArePast
<1>18. QED BY <1>3, <1>9, <1>10, <1>11, <1>12, <1>13, <1>14, <1>15, <1>16, <1>17 DEF Sound, w

\* The ids that RekeyedSessions gives: one above every id for each session that
\* a row still names, in order, none for the others that go.
NewIds(S, used, top) ==
    [x \in Nat |-> IF x \in used THEN top + Cardinality({s \in used : s <= x}) ELSE IF x \in S THEN 0 ELSE x]

LEMMA RekeyedIds ==
    ASSUME NEW S, NEW used, NEW top, top \in Nat, used \subseteq S,
           \A x \in used : x \in 1 .. top,
           NEW name, name = NewIds(S, used, top)
    PROVE  /\ Cardinality(used) \in Nat
           /\ \A x \in Nat : name[x] \in Nat /\ (x \notin used => name[x] = IF x \in S THEN 0 ELSE x)
           /\ \A x \in used : top < name[x] /\ name[x] <= top + Cardinality(used)
           /\ \A x, y \in used : name[x] = name[y] => x = y
<1> DEFINE upto == [x \in Nat |-> {s \in used : s <= x}]
<1>1. IsFiniteSet(used) /\ Cardinality(used) \in Nat
  <2>1. IsFiniteSet(1 .. top)
    BY FS_Interval
  <2>2. used \subseteq 1 .. top
    OBVIOUS
  <2>3. QED BY ONLY <2>1, <2>2, FS_Subset, FS_CardinalityType
<1>2. \A x \in Nat : /\ IsFiniteSet(upto[x]) /\ Cardinality(upto[x]) \in Nat
                     /\ Cardinality(upto[x]) <= Cardinality(used)
  <2>1. ASSUME NEW x \in Nat
        PROVE  IsFiniteSet(upto[x]) /\ Cardinality(upto[x]) \in Nat /\ Cardinality(upto[x]) <= Cardinality(used)
    <3>1. upto[x] \subseteq used
      OBVIOUS
    <3> HIDE DEF upto
    <3>2. QED BY ONLY <1>1, <3>1, FS_Subset, FS_CardinalityType
  <2>2. QED BY <2>1
<1>3. \A x \in Nat : \A s : s \in upto[x] <=> s \in used /\ s <= x
  OBVIOUS
<1>4. \A x \in used : name[x] = top + Cardinality(upto[x]) /\ x \in Nat /\ top \in Nat
  BY DEF NewIds
<1>5. \A x \in Nat : x \notin used => name[x] = IF x \in S THEN 0 ELSE x
  BY DEF NewIds
<1> HIDE DEF upto
<1>6. \A x \in used : 1 <= Cardinality(upto[x])
  <2>1. ASSUME NEW x \in used PROVE 1 <= Cardinality(upto[x])
    <3>1. x \in upto[x] /\ x \in Nat
      BY <1>3, <1>4
    <3>2. Cardinality(upto[x]) # 0
      BY <1>2, <3>1, FS_EmptySet
    <3>3. QED BY <1>2, <3>1, <3>2
  <2>2. QED BY <2>1
<1>7. ASSUME NEW x \in used, NEW y \in used, x < y PROVE name[x] # name[y]
  <2>1. x \in Nat /\ y \in Nat
    BY <1>4
  <2>2. upto[x] \subseteq upto[y] /\ y \in upto[y] /\ y \notin upto[x]
    <3>1. x \in used /\ y \in used /\ x < y /\ y <= y /\ ~(y <= x)
      BY <1>7, <2>1
    <3>2. \A s \in used : s <= x => s <= y
      BY ONLY <1>4, <2>1, <3>1
    <3>3. QED BY ONLY <1>3, <2>1, <3>1, <3>2
  <2>3. Cardinality(upto[x]) < Cardinality(upto[y])
    <3>1. IsFiniteSet(upto[y]) /\ upto[x] # upto[y]
      BY <1>2, <2>1, <2>2
    <3>2. Cardinality(upto[x]) <= Cardinality(upto[y]) /\ Cardinality(upto[x]) # Cardinality(upto[y])
      BY <2>2, <3>1, FS_Subset
    <3>3. QED BY <1>2, <2>1, <3>2
  <2>4. PICK i \in Nat, j \in Nat : i = Cardinality(upto[x]) /\ j = Cardinality(upto[y])
    BY <1>2, <2>1
  <2>5. name[x] = top + i /\ name[y] = top + j /\ i < j /\ top \in Nat
    BY ONLY <1>4, <1>7, <2>3, <2>4
  <2>6. QED BY ONLY <2>5
<1>8. \A x, y \in used : name[x] = name[y] => x = y
  <2>1. ASSUME NEW x \in used, NEW y \in used, name[x] = name[y], x # y PROVE FALSE
    <3>1. x < y \/ y < x
      BY <1>4, <2>1
    <3>2. QED BY <1>7, <2>1, <3>1
  <2>2. QED BY <2>1
<1>9. \A x \in used : top < name[x] /\ name[x] <= top + Cardinality(used)
  <2>1. ASSUME NEW x \in used PROVE top < name[x] /\ name[x] <= top + Cardinality(used)
    <3>1. PICK i \in Nat, j \in Nat : i = Cardinality(upto[x]) /\ j = Cardinality(used)
      BY <1>1, <1>2, <1>4
    <3>2. name[x] = top + i /\ 1 <= i /\ i <= j /\ top \in Nat
      BY ONLY <1>2, <1>4, <1>6, <2>1, <3>1
    <3>3. QED BY ONLY <3>1, <3>2
  <2>2. QED BY ONLY <2>1
<1>10. \A x \in Nat : name[x] \in Nat
  <2>1. \A x \in used : name[x] \in Nat
    BY ONLY <1>2, <1>4
  <2>2. \A x \in Nat : x \notin used => name[x] \in Nat
    BY ONLY <1>5
  <2>3. QED BY ONLY <2>1, <2>2
<1>11. QED BY <1>1, <1>5, <1>8, <1>9, <1>10

\* Sessions renamed throughout, and some that no row names gone with their links.
LEMMA RenamedIsSound ==
    ASSUME NEW d, NEW t, Sound(d, t, {}), NEW gone, NEW name,
           \A x \in Nat : name[x] \in Nat /\ (x = 0 \/ x \in gone => name[x] = 0),
           \A r \in d.mem \cup d.corr : r.sess \notin gone,
           \A x \in d.sess : x.id \notin gone => name[x.id] # 0,
           \A x, y \in d.sess : x.id \notin gone /\ y.id \notin gone /\ name[x.id] = name[y.id] => x.id = y.id,
           NEW w, w = [f \in DatabaseFields |-> w[f]],
           w.sess = {[x EXCEPT !.id = name[x.id], !.pred = name[x.pred]] : x \in {x \in d.sess : x.id \notin gone}},
           w.mem = {[m EXCEPT !.sess = name[m.sess]] : m \in d.mem},
           w.corr = {[c EXCEPT !.sess = name[c.sess]] : c \in d.corr},
           w.cur = name[d.cur], w.sessions \in Nat, \A x \in d.sess : x.id \notin gone => name[x.id] <= w.sessions,
           w.tomb = d.tomb, w.mems = d.mems, w.graph = d.graph
    PROVE  Sound(w, t, {})
<1> DEFINE sess(x) == [x EXCEPT !.id = name[x.id], !.pred = name[x.pred]]
           mem(m) == [m EXCEPT !.sess = name[m.sess]]
           corr(c) == [c EXCEPT !.sess = name[c.sess]]
           stays == {x \in d.sess : x.id \notin gone}
<1>0. /\ RowsTyped(d) /\ ReadingsArePast(t, {}) /\ StampsArePast(d, t) /\ IdsAreUnique(d)
      /\ SuccessionIsOlder(d) /\ SessionsAreThere(d, {}) /\ EndsAreThere(d) /\ CorrectionsClose(d, {})
      /\ d.graph = GraphOf(d.mem)
  BY DEF Sound
<1>1. /\ \A x \in Nat : name[x] \in Nat /\ (x = 0 \/ x \in gone => name[x] = 0)
      /\ \A r \in d.mem \cup d.corr : r.sess \notin gone
      /\ \A x \in stays : name[x.id] # 0 /\ name[x.id] <= w.sessions
      /\ \A x, y \in stays : name[x.id] = name[y.id] => x.id = y.id
      /\ stays \subseteq d.sess /\ \A x \in d.sess : x \notin stays => x.id \in gone
  OBVIOUS
<1>2. /\ w = [f \in DatabaseFields |-> w[f]] /\ w.cur = name[d.cur] /\ w.sessions \in Nat
      /\ w.sess = {sess(x) : x \in stays} /\ w.mem = {mem(m) : m \in d.mem} /\ w.corr = {corr(c) : c \in d.corr}
      /\ w.tomb = d.tomb /\ w.mems = d.mems /\ w.graph = d.graph
  OBVIOUS
<1>3. \A x \in stays : /\ x \in SessionRow /\ sess(x) \in SessionRow
                       /\ sess(x).id = name[x.id] /\ sess(x).pred = name[x.pred]
                       /\ sess(x).at = x.at /\ sess(x).end = x.end
  <2>1. ASSUME NEW x \in stays PROVE x \in SessionRow /\ name[x.id] \in Nat \ {0} /\ name[x.pred] \in Nat
    <3>1. x \in SessionRow
      BY <1>0, <1>1 DEF RowsTyped
    <3>2. QED BY ONLY <1>1, <3>1, <2>1 DEF SessionRow
  <2> HIDE DEF stays
  <2>2. QED BY ONLY <2>1 DEF SessionRow
<1>4. \A m \in d.mem : /\ mem(m) \in MemoryRow /\ mem(m).sess = name[m.sess]
                       /\ mem(m).id = m.id /\ mem(m).at = m.at /\ mem(m).when = m.when
                       /\ mem(m).to = m.to /\ mem(m).till = m.till
  <2>1. ASSUME NEW m \in d.mem PROVE m \in MemoryRow /\ name[m.sess] \in Nat \ {0}
    <3>1. m \in MemoryRow
      BY <1>0 DEF RowsTyped
    <3>2. PICK x \in d.sess : x.id = m.sess
      BY <1>0 DEF SessionsAreThere
    <3>3. x \in stays
      BY <1>1, <3>2
    <3>4. QED BY ONLY <1>1, <3>1, <3>2, <3>3 DEF MemoryRow
  <2>2. QED BY ONLY <2>1 DEF MemoryRow
<1>5. \A c \in d.corr : /\ corr(c) \in CorrectionRow /\ corr(c).sess = name[c.sess]
                        /\ corr(c).target = c.target /\ corr(c).repl = c.repl /\ corr(c).at = c.at
  <2>1. ASSUME NEW c \in d.corr PROVE c \in CorrectionRow /\ name[c.sess] \in Nat
    <3>1. c \in CorrectionRow
      BY <1>0 DEF RowsTyped
    <3>2. QED BY ONLY <1>1, <3>1 DEF CorrectionRow
  <2>2. QED BY ONLY <2>1 DEF CorrectionRow
<1> HIDE DEF sess, mem, corr, stays
<1>6. RowsTyped(w)
  <2>1. w.sess \subseteq SessionRow /\ w.mem \subseteq MemoryRow /\ w.corr \subseteq CorrectionRow
    BY ONLY <1>2, <1>3, <1>4, <1>5
  <2>2. w.cur \in Nat
    BY <1>0, <1>1, <1>2 DEF RowsTyped
  <2>3. QED BY ONLY <1>0, <1>2, <2>1, <2>2 DEF RowsTyped
<1>7. StampsArePast(w, t)
  BY ONLY <1>0, <1>1, <1>2, <1>3, <1>4, <1>5 DEF StampsArePast
<1>8. IdsAreUnique(w)
  <2>1. \A x \in w.sess : x.id <= w.sessions
    BY ONLY <1>1, <1>2, <1>3
  <2>2. \A x, y \in w.sess : x.id = y.id => x = y
    <3>1. ASSUME NEW x \in stays, NEW y \in stays, sess(x).id = sess(y).id PROVE sess(x) = sess(y)
      <4>1. x.id = y.id
        BY ONLY <1>1, <1>3, <3>1
      <4>2. x = y
        BY ONLY <1>0, <1>1, <3>1, <4>1 DEF IdsAreUnique
      <4>3. QED BY ONLY <4>2
    <3>2. QED BY ONLY <1>2, <3>1
  <2>3. \A m \in w.mem : m.id <= w.mems
    BY ONLY <1>0, <1>2, <1>4 DEF IdsAreUnique
  <2>4. \A m, q \in w.mem : m.id = q.id => m = q
    <3>1. \A m, q \in d.mem : mem(m).id = mem(q).id => mem(m) = mem(q)
      BY ONLY <1>0, <1>4 DEF IdsAreUnique
    <3>2. QED BY ONLY <1>2, <3>1
  <2>5. \A e \in w.tomb : e.id <= w.mems /\ \A m \in w.mem : m.id # e.id
    BY ONLY <1>0, <1>2, <1>4 DEF IdsAreUnique
  <2>6. QED BY ONLY <2>1, <2>2, <2>3, <2>4, <2>5 DEF IdsAreUnique
<1>9. SuccessionIsOlder(w)
  <2>1. ASSUME NEW x \in stays, sess(x).pred # 0
        PROVE  \E q \in w.sess : q.id = sess(x).pred /\ q.at < sess(x).at
    <3>1. x.pred # 0 /\ x.pred \notin gone /\ sess(x).pred = name[x.pred]
      BY ONLY <1>1, <1>3, <2>1 DEF SessionRow
    <3>2. PICK q \in d.sess : q.id = x.pred /\ q.at < x.at
      BY ONLY <1>0, <1>1, <2>1, <3>1 DEF SuccessionIsOlder
    <3>3. q \in stays
      BY ONLY <1>1, <3>1, <3>2
    <3>4. sess(q).id = sess(x).pred /\ sess(q).at < sess(x).at
      BY ONLY <1>3, <2>1, <3>1, <3>2, <3>3
    <3>5. QED BY ONLY <1>2, <3>3, <3>4
  <2>2. QED BY ONLY <1>2, <2>1 DEF SuccessionIsOlder
<1>10. SessionsAreThere(w, {})
  <2>1. ASSUME NEW s, s # 0, s \notin gone, \E x \in d.sess : x.id = s
        PROVE  \E x \in w.sess : x.id = name[s]
    <3>1. PICK x \in d.sess : x.id = s
      BY ONLY <2>1
    <3>2. x \in stays
      BY ONLY <1>1, <2>1, <3>1
    <3>3. QED BY ONLY <1>2, <1>3, <3>1, <3>2
  <2>2. \A m \in d.mem : \E x \in w.sess : x.id = mem(m).sess
    <3>1. \A m \in d.mem : m.sess # 0
      BY ONLY <1>0 DEF RowsTyped, MemoryRow
    <3>2. QED BY ONLY <1>0, <1>1, <1>4, <2>1, <3>1 DEF SessionsAreThere
  <2>3. \A c \in d.corr : corr(c).sess # 0 => \E x \in w.sess : x.id = corr(c).sess
    <3>1. \A c \in d.corr : corr(c).sess # 0 => c.sess # 0
      BY ONLY <1>1, <1>5
    <3>2. QED BY ONLY <1>0, <1>1, <1>5, <2>1, <3>1 DEF SessionsAreThere
  <2>4. QED BY ONLY <1>2, <2>2, <2>3 DEF SessionsAreThere
<1>11. EndsAreThere(w)
  <2>a. (\A m \in d.mem : \E q \in w.mem : q.id = m.id) /\ w.tomb = d.tomb
    BY ONLY <1>2, <1>4
  <2>b. \A c \in w.corr : \E k \in d.corr : c = corr(k)
    BY ONLY <1>2
  <2>1. \A e : IsRow(d, e) => IsRow(w, e)
    BY ONLY <2>a, Zenon DEF IsRow
  <2>2. \A c \in w.corr : IsRow(w, c.target) /\ IsRow(w, c.repl)
    BY ONLY <1>0, <1>2, <1>5, <2>1 DEF EndsAreThere
  <2>3. ASSUME NEW c \in w.corr, NEW k \in w.corr, c.target = k.target PROVE c = k
    <3>1. PICK x \in d.corr, y \in d.corr : c = corr(x) /\ k = corr(y)
      BY <2>b
    <3>2. x = y
      BY ONLY <1>0, <1>5, <2>3, <3>1 DEF EndsAreThere
    <3>3. QED BY ONLY <3>1, <3>2
  <2>4. ASSUME NEW c \in w.corr, NEW k \in w.corr, c.repl = k.repl, c.repl.kind = "memory" PROVE c = k
    <3>1. PICK x \in d.corr, y \in d.corr : c = corr(x) /\ k = corr(y)
      BY <2>b
    <3>2. x = y
      BY ONLY <1>0, <1>5, <2>4, <3>1 DEF EndsAreThere
    <3>3. QED BY ONLY <3>1, <3>2
  <2>5. \A r \in w.tomb : \E c \in w.corr : Tombstone(r.id) \in {c.target, c.repl}
    BY ONLY <1>0, <1>2, <1>5 DEF EndsAreThere
  <2>6. QED BY ONLY <2>2, <2>3, <2>4, <2>5 DEF EndsAreThere
<1>12. CorrectionsClose(w, {})
  <2>1. ASSUME NEW m \in w.mem, NEW c \in w.corr, c.target = Memory(m.id)
        PROVE  m.at < c.at /\ m.to = c.at /\ \A k \in w.corr : k.repl = c.target => k.at < c.at
    <3>1. PICK q \in d.mem, x \in d.corr : m = mem(q) /\ c = corr(x)
      BY <1>2, <2>1
    <3>2. q.at < x.at /\ q.to = x.at /\ \A k \in d.corr : k.repl = x.target => k.at < x.at
      BY ONLY <1>0, <1>4, <1>5, <2>1, <3>1 DEF CorrectionsClose
    <3>3. \A k \in w.corr : \E y \in d.corr : k.repl = y.repl /\ k.at = y.at
      BY ONLY <1>2, <1>5
    <3>4. QED BY ONLY <1>4, <1>5, <3>1, <3>2, <3>3
  <2>2. ASSUME NEW m \in w.mem, m.to # 0 /\ m.to # m.till PROVE \E c \in w.corr : c.target = Memory(m.id)
    <3>1. PICK q \in d.mem : m = mem(q)
      BY <1>2, <2>2
    <3>2. PICK x \in d.corr : x.target = Memory(q.id)
      BY ONLY <1>0, <1>4, <2>2, <3>1 DEF CorrectionsClose
    <3>3. QED BY ONLY <1>2, <1>4, <1>5, <3>1, <3>2
  <2>3. ASSUME NEW m \in w.mem, m.till # 0 PROVE m.to = m.till
    <3>1. PICK q \in d.mem : m = mem(q)
      BY <1>2, <2>3
    <3>2. QED BY ONLY <1>0, <1>4, <2>3, <3>1 DEF CorrectionsClose
  <2>4. QED BY ONLY <2>1, <2>2, <2>3 DEF CorrectionsClose
<1>13. w.graph = GraphOf(w.mem)
  <2>1. \A m \in d.mem : \E q \in w.mem : q.id = m.id /\ q.when = m.when
    BY ONLY <1>2, <1>4
  <2>2. \A q \in w.mem : \E m \in d.mem : q.id = m.id /\ q.when = m.when
    BY ONLY <1>2, <1>4
  <2>3. GraphOf(d.mem) = GraphOf(w.mem)
    BY ONLY <2>1, <2>2, GraphOfSame
  <2>4. QED BY ONLY <1>0, <1>2, <2>3
<1>14. QED BY ONLY <1>0, <1>6, <1>7, <1>8, <1>9, <1>10, <1>11, <1>12, <1>13 DEF Sound

\* purge's rekeying, of any sessions.
LEMMA RekeyedIsSound ==
    ASSUME NEW d, NEW t, Sound(d, t, {}), NEW S, \A x \in S : x \in Nat \ {0}
    PROVE  Sound(RekeyedSessions(d, S), t, {})
<1> DEFINE used == {s \in S : \E r \in d.mem \cup d.corr : r.sess = s}
           top == d.sessions
           new(x) == IF x \in used THEN top + Cardinality({s \in used : s <= x}) ELSE IF x \in S THEN 0 ELSE x
           name == [x \in Nat |-> new(x)]
           gone == S \ used
           sess == {[x EXCEPT !.id = name[x.id], !.pred = name[x.pred]] : x \in {x \in d.sess : x.id \notin gone}}
           mem == {[m EXCEPT !.sess = name[m.sess]] : m \in d.mem}
           corr == {[c EXCEPT !.sess = name[c.sess]] : c \in d.corr}
           w == RekeyedSessions(d, S)
<1>0. RowsTyped(d) /\ IdsAreUnique(d) /\ SessionsAreThere(d, {})
  BY DEF Sound
<1>1. /\ \A x \in d.sess : x.id \in Nat \ {0} /\ x.pred \in Nat /\ x.id <= top
      /\ \A m \in d.mem : m.sess \in Nat /\ \E x \in d.sess : x.id = m.sess
      /\ \A c \in d.corr : c.sess \in Nat /\ (c.sess # 0 => \E x \in d.sess : x.id = c.sess)
      /\ top \in Nat /\ d.cur \in Nat /\ d = [f \in DatabaseFields |-> d[f]]
  BY <1>0 DEF RowsTyped, IdsAreUnique, SessionsAreThere, SessionRow, MemoryRow, CorrectionRow
<1>2. \A x \in used : x \in 1 .. top
  BY <1>1
<1>3. /\ Cardinality(used) \in Nat
      /\ \A x \in Nat : name[x] \in Nat /\ (x \notin used => name[x] = IF x \in S THEN 0 ELSE x)
      /\ \A x \in used : top < name[x] /\ name[x] <= top + Cardinality(used)
      /\ \A x, y \in used : name[x] = name[y] => x = y
  <2>1. name = NewIds(S, used, top)
    BY DEF NewIds
  <2>2. used \subseteq S /\ top \in Nat
    BY <1>1
  <2> HIDE DEF used, name, top, new
  <2>3. QED BY ONLY <1>2, <2>1, <2>2, RekeyedIds
<1>4. \A x \in Nat : new(x) = name[x]
  OBVIOUS
<1>5. /\ w.sess = sess /\ w.mem = mem /\ w.corr = corr
      /\ w.cur = name[d.cur] /\ w.sessions = top + Cardinality(used)
      /\ w.tomb = d.tomb /\ w.mems = d.mems /\ w.graph = d.graph
      /\ w = [f \in DatabaseFields |-> w[f]]
  <2>1. w = [d EXCEPT !.sess = {[x EXCEPT !.id = new(x.id), !.pred = new(x.pred)] : x \in {x \in d.sess : x.id \notin gone}},
                      !.mem = {[m EXCEPT !.sess = new(m.sess)] : m \in d.mem},
                      !.corr = {[c EXCEPT !.sess = new(c.sess)] : c \in d.corr},
                      !.cur = new(d.cur), !.sessions = top + Cardinality(used)]
    <3>1. w = [d EXCEPT !.sess = {[x EXCEPT !.id = new(@), !.pred = new(@)] : x \in {x \in @ : x.id \notin gone}},
                        !.mem = {[m EXCEPT !.sess = new(@)] : m \in @},
                        !.corr = {[c EXCEPT !.sess = new(@)] : c \in @},
                        !.cur = new(@), !.sessions = @ + Cardinality(used)]
      BY DEF RekeyedSessions
    <3>2. QED BY <3>1
  <2>2. {[x EXCEPT !.id = new(x.id), !.pred = new(x.pred)] : x \in {x \in d.sess : x.id \notin gone}} = sess
    <3> HIDE DEF new, name, gone
    <3>1. QED BY ONLY <1>1, <1>4 DEF sess
  <2>3. {[m EXCEPT !.sess = new(m.sess)] : m \in d.mem} = mem
    <3> HIDE DEF new, name
    <3>1. QED BY ONLY <1>1, <1>4 DEF mem
  <2>4. {[c EXCEPT !.sess = new(c.sess)] : c \in d.corr} = corr
    <3> HIDE DEF new, name
    <3>1. QED BY ONLY <1>1, <1>4 DEF corr
  <2>5. new(d.cur) = name[d.cur]
    BY <1>1, <1>4
  <2> HIDE DEF w, sess, mem, corr, name, new, used
  <2>6. w = [d EXCEPT !.sess = sess, !.mem = mem, !.corr = corr, !.cur = name[d.cur],
                      !.sessions = top + Cardinality(used)]
    BY ONLY <2>1, <2>2, <2>3, <2>4, <2>5
  <2>7. QED BY ONLY <1>1, <2>6 DEF DatabaseFields
<1>6. /\ \A x \in Nat : name[x] \in Nat /\ (x = 0 \/ x \in gone => name[x] = 0)
      /\ \A r \in d.mem \cup d.corr : r.sess \notin gone
  <2>1. \A r \in d.mem \cup d.corr : r.sess \notin gone
    OBVIOUS
  <2>2. 0 \notin S /\ \A x \in gone : x \in S /\ x \notin used
    OBVIOUS
  <2>3. 0 \notin used
    BY <1>2
  <2> HIDE DEF name, used, gone
  <2>4. QED BY <1>3, <2>1, <2>2, <2>3
<1>7. \A x \in d.sess : x.id \notin gone => (x.id \in used \/ name[x.id] = x.id)
  BY <1>1, <1>3
<1>8. \A x \in d.sess : x.id \notin gone => name[x.id] # 0 /\ name[x.id] <= top + Cardinality(used)
  <2> HIDE DEF name, used, gone, top
  <2>1. QED BY ONLY <1>1, <1>3, <1>7
<1>9. \A x, y \in d.sess : x.id \notin gone /\ y.id \notin gone /\ name[x.id] = name[y.id] => x.id = y.id
  <2> HIDE DEF name, used, gone, top
  <2>1. ASSUME NEW x \in d.sess, NEW y \in d.sess, x.id \notin gone, y.id \notin gone, name[x.id] = name[y.id]
        PROVE  x.id = y.id
    <3>1. x.id \in Nat /\ x.id <= top /\ y.id \in Nat /\ y.id <= top /\ top \in Nat
      BY <1>1
    <3>2. name[x.id] \in Nat /\ (x.id \in used \/ name[x.id] = x.id) /\ (y.id \in used \/ name[y.id] = y.id)
      BY <1>3, <1>7, <2>1, <3>1
    <3>3. CASE x.id \in used /\ y.id \in used
      BY <1>3, <2>1, <3>3
    <3>4. CASE x.id \notin used \/ y.id \notin used
      <4>1. (x.id \in used => top < name[x.id]) /\ (y.id \in used => top < name[y.id])
        BY <1>3
      <4>2. QED BY <2>1, <3>1, <3>2, <3>4, <4>1
    <3>5. QED BY <3>3, <3>4
  <2>2. QED BY <2>1
<1>10. top + Cardinality(used) \in Nat
  BY ONLY <1>1, <1>3
<1> HIDE DEF name, used, gone, top, w
<1>11. \A x \in d.sess : x.id \notin gone => name[x.id] # 0
  BY ONLY <1>8
<1>12. \A x \in d.sess : x.id \notin gone => name[x.id] <= w.sessions
  BY ONLY <1>5, <1>8
<1>13. Sound(d, t, {})
  OBVIOUS
<1>14. Sound(w, t, {})
  <2>1. w.sess = {[x EXCEPT !.id = name[x.id], !.pred = name[x.pred]] : x \in {x \in d.sess : x.id \notin gone}}
    BY <1>5
  <2>2. w.mem = {[m EXCEPT !.sess = name[m.sess]] : m \in d.mem} /\ w.corr = {[c EXCEPT !.sess = name[c.sess]] : c \in d.corr}
    BY <1>5
  <2>3. w.cur = name[d.cur] /\ w.sessions \in Nat /\ w = [f \in DatabaseFields |-> w[f]]
    BY <1>5, <1>10
  <2>4. w.tomb = d.tomb /\ w.mems = d.mems /\ w.graph = d.graph
    BY <1>5
  <2>5. QED BY ONLY <1>6, <1>9, <1>11, <1>12, <1>13, <2>1, <2>2, <2>3, <2>4, RenamedIsSound
<1>15. QED BY <1>14 DEF w

-----------------------------------------------------------------------------
(* The invariant holds at first and after every transaction.                *)

LEMMA EmptyIsSound == ExportInit => ExportInv
<1> SUFFICES ASSUME ExportInit PROVE ExportInv
  OBVIOUS
<1>1. /\ db.sess = {} /\ db.mem = {} /\ db.corr = {} /\ db.tomb = {} /\ db.graph = EmptyGraph
      /\ db.cur = 0 /\ db.mems = 0 /\ db.sessions = 0 /\ clock = 0 /\ past = {}
      /\ db = [f \in DatabaseFields |-> db[f]]
  BY DEF ExportInit, DatabaseFields
<1>2. RowsTyped(db) /\ ReadingsArePast(clock, past)
  BY <1>1, Limits DEF RowsTyped, ReadingsArePast
<1>3. StampsArePast(db, clock) /\ IdsAreUnique(db) /\ SuccessionIsOlder(db)
  BY <1>1 DEF StampsArePast, IdsAreUnique, SuccessionIsOlder
<1>4. SessionsAreThere(db, past) /\ EndsAreThere(db) /\ CorrectionsClose(db, past)
  BY <1>1 DEF SessionsAreThere, EndsAreThere, CorrectionsClose
<1>5. db.graph = GraphOf(db.mem)
  BY <1>1, NoEvents
<1>6. QED BY <1>2, <1>3, <1>4, <1>5 DEF ExportInv, Sound

LEMMA NextInv == ExportInv' <=> Sound(db', clock', past')
  BY DEF ExportInv, Sound, RowsTyped, ReadingsArePast, StampsArePast, IdsAreUnique, SuccessionIsOlder,
         SessionsAreThere, Taken, EndsAreThere, IsRow, CorrectionsClose

\* A commit of what is sound at its last reading.
LEMMA CommitIsSound ==
    ASSUME ExportInv, NEW d, NEW readings, readings \in Nat, Commit(d, readings),
           Sound(d, clock + readings, past)
    PROVE  ExportInv'
<1>1. Sound(d, clock + readings, past \cup {clock + readings})
  BY CommitIsACut
<1>2. db' = d /\ clock' = clock + readings /\ past' = past \cup {clock + readings}
  BY DEF Commit
<1>3. Sound(db', clock', past')
  BY <1>1, <1>2
<1>4. QED BY <1>3, NextInv

LEMMA RebuildKeeps ==
    ASSUME ExportInv, RebuildGraph
    PROVE  ExportInv' /\ db' = db
<1>1. RowsTyped(db) /\ IdsAreUnique(db) /\ db.graph = GraphOf(db.mem)
  BY DEF ExportInv, Sound
<1>2. Rebuilt(db.mem, Said) = db.graph
  BY <1>1, MemoriesAreEvents, RebuiltIsGraph
<1>3. db' = db
  <2>1. db' = [db EXCEPT !.graph = db.graph] /\ db = [f \in DatabaseFields |-> db[f]]
    BY <1>1, <1>2 DEF RebuildGraph, RebuiltGraph, RowsTyped
  <2>2. QED BY ONLY <2>1
<1>4. clock' = clock /\ past' = past
  BY DEF RebuildGraph
<1>5. Sound(db', clock', past')
  BY <1>3, <1>4 DEF ExportInv
<1>6. QED BY <1>3, <1>5, NextInv

LEMMA EndSessionKeeps ==
    ASSUME ExportInv, NEW s, EndSession(s)
    PROVE  ExportInv' /\ OnlyAdds(db, db', clock)
<1> DEFINE done == {x \in OpenSessions(db) : x.id = s \/ x.pred = s}
           cur == IF db.cur \in {x.id : x \in done} THEN 0 ELSE db.cur
           d == [db EXCEPT !.sess = (@ \ done) \cup {[x EXCEPT !.end = clock + 1] : x \in done}, !.cur = cur]
<1>0. RowsTyped(db) /\ ReadingsArePast(clock, past)
  BY DEF ExportInv, Sound
<1>1. Commit(d, 1)
  <2>1. Commit([db EXCEPT !.sess = (@ \ done) \cup {[x EXCEPT !.end = clock + 1] : x \in done},
                          !.cur = IF @ \in {x.id : x \in done} THEN 0 ELSE @], 1)
    BY DEF EndSession
  <2>2. QED BY <2>1
<1>2. clock \in Nat /\ clock + 1 \in Nat /\ clock <= clock + 1 /\ clock + 1 <= MaxClock
  BY <1>0, <1>1 DEF Commit, ReadingsArePast
<1>3. Sound(db, clock + 1, past)
  BY <1>2, ClockRuns DEF ExportInv
<1>4. done \subseteq db.sess /\ cur \in Nat
  BY <1>0 DEF OpenSessions, RowsTyped
<1>5. Sound(d, clock + 1, past)
  <2> HIDE DEF done, cur
  <2>1. QED BY <1>3, <1>4, EndedIsSound
<1>6. OnlyAdds(db, d, clock)
  <2> DEFINE sess == (db.sess \ done) \cup {[x EXCEPT !.end = clock + 1] : x \in done}
  <2>1. /\ d.sess = sess /\ d.mem = db.mem /\ d.corr = db.corr /\ d.tomb = db.tomb
    <3>1. db = [f \in DatabaseFields |-> db[f]]
      BY <1>0 DEF RowsTyped
    <3>2. d = [db EXCEPT !.sess = sess, !.cur = cur]
      BY <3>1 DEF DatabaseFields
    <3> HIDE DEF sess, d, cur
    <3>3. QED BY <3>1, <3>2 DEF DatabaseFields
  <2>2. ASSUME NEW x \in done PROVE LaterSession(x, [x EXCEPT !.end = clock + 1], clock)
    <3>1. x \in SessionRow /\ x.end = 0
      BY <1>0 DEF RowsTyped, OpenSessions
    <3>2. [x EXCEPT !.end = clock + 1].end = clock + 1
      BY <3>1 DEF SessionRow
    <3>3. clock < clock + 1
      BY <1>2
    <3>4. QED BY <3>1, <3>2, <3>3 DEF LaterSession
  <2>3. \A x : LaterSession(x, x, clock) /\ LaterMemory(x, x, clock)
    BY DEF LaterSession, LaterMemory
  <2>4. \A x \in db.sess : \E e \in sess : LaterSession(x, e, clock)
    <3> HIDE DEF done
    <3>1. QED BY <2>2, <2>3
  <2>5. \A e \in sess : \E x \in db.sess : LaterSession(x, e, clock)
    <3> HIDE DEF done
    <3>1. QED BY <1>4, <2>2, <2>3
  <2> HIDE DEF sess, d
  <2>6. QED BY <2>1, <2>3, <2>4, <2>5 DEF OnlyAdds
<1> HIDE DEF d
<1>7. db' = d
  BY <1>1 DEF Commit
<1>8. QED BY <1>1, <1>5, <1>6, <1>7, CommitIsSound

LEMMA ObserveKeeps ==
    ASSUME ExportInv, NEW s \in Sessions, NEW to \in Until, ObserveMemory(s, to)
    PROVE  ExportInv' /\ OnlyAdds(db, db', clock)
<1> DEFINE e == Ensured(db, s, clock + 1)
           t == clock + e.readings + 1
           when == IF Told[db.mems + 1] = 0 THEN t ELSE Told[db.mems + 1]
           d == Written(e.db, e.id, t, when, to)
<1>0. RowsTyped(db) /\ ReadingsArePast(clock, past)
  BY DEF ExportInv, Sound
<1>1. db.mems < MaxMem /\ Commit(d, e.readings + 1)
  BY DEF ObserveMemory
<1>2. clock \in Nat /\ db.mems \in Nat /\ \A k \in past : k \in Nat /\ k <= clock
  BY <1>0 DEF ReadingsArePast, RowsTyped
<1>3. /\ e.id \in SessIds(e.db) /\ e.readings \in {0, 1}
      /\ e.readings = 0 => e.db = db
      /\ e.readings = 1 /\ clock + 1 <= MaxClock => Sound(e.db, clock + 1, past)
      /\ e.db.mem = db.mem /\ e.db.corr = db.corr /\ e.db.mems = db.mems
      /\ e.db.tomb = db.tomb
      /\ \A x \in db.sess : x \in e.db.sess
      /\ \A x \in e.db.sess : x \in db.sess \/ x.at = clock + 1
  <2>1. clock + 1 \in Nat /\ clock < clock + 1 /\ s \in {0} \cup SessIds(db) /\ Sound(db, clock, past)
    BY <1>2 DEF Sessions, ExportInv
  <2>2. QED BY <2>1, EnsuredIsSound
<1>4. clock + (e.readings + 1) <= MaxClock
  BY <1>1 DEF Commit
<1> HIDE DEF e
<1>5. t = clock + (e.readings + 1) /\ t \in Nat /\ t <= MaxClock /\ 1 <= t /\ clock + 1 <= t /\ clock < t
  BY <1>2, <1>3, <1>4
<1>6. Sound(e.db, t, past)
  <2> HIDE DEF t
  <2>1. CASE e.readings = 0
    <3>1. Sound(db, t, past)
      BY <1>2, <1>5, ClockRuns DEF ExportInv
    <3>2. QED BY <1>3, <2>1, <3>1
  <2>2. CASE e.readings = 1
    <3>1. clock + 1 <= MaxClock
      BY <1>2, <1>5, Limits
    <3>2. Sound(e.db, clock + 1, past)
      BY <1>3, <2>2, <3>1
    <3>3. QED BY <1>5, <3>2, ClockRuns
  <2>3. QED BY <1>3, <2>1, <2>2
<1>7. when \in Nat /\ to \in Nat
  <2>1. Told[db.mems + 1] \in Nat
    BY <1>1, <1>2, Limits, TimesAssumption
  <2>2. QED BY <1>5, <2>1, TimesAssumption
<1>8. \A k \in past : k < t
  BY <1>2, <1>5
<1>9. Sound(d, t, past)
  <2> HIDE DEF t, when
  <2>1. e.db.mems < MaxMem
    BY <1>1, <1>3
  <2>2. QED BY <1>3, <1>5, <1>6, <1>7, <1>8, <2>1, WrittenIsSound
<1>10. OnlyAdds(db, d, clock)
  <2> DEFINE m == ObservedRow(e.db, e.id, t, when, to)
  <2>1. d.mem = db.mem \cup {m} /\ d.sess = e.db.sess /\ d.corr = db.corr /\ d.tomb = db.tomb
    <3> HIDE DEF t, when
    <3>1. RowsTyped(e.db) /\ IdsAreUnique(e.db) /\ e.db.graph = GraphOf(e.db.mem)
      BY <1>6 DEF Sound
    <3>2. Observes(e.db, m, d)
      BY <1>7, <3>1, WrittenRow
    <3> HIDE DEF m, d
    <3>3. QED BY <1>3, <3>2 DEF Observes
  <2>2. m.id = db.mems + 1 /\ m.at = t
    BY <1>3 DEF ObservedRow
  <2> HIDE DEF m, d, t
  <2>3. \A x : LaterSession(x, x, clock) /\ LaterMemory(x, x, clock)
    BY DEF LaterSession, LaterMemory
  <2>4. \A q \in db.mem : q.id # m.id
    <3>1. IdsAreUnique(db)
      BY DEF ExportInv, Sound
    <3>2. \A q \in db.mem : q.id \in Nat /\ q.id <= db.mems
      BY <1>0, <3>1 DEF RowsTyped, MemoryRow, IdsAreUnique
    <3>3. QED BY ONLY <1>2, <2>2, <3>2
  <2>5. \A x \in d.sess : x \in db.sess \/ clock < x.at
    BY <1>2, <1>3, <2>1
  <2>6. \A x \in db.sess : x \in d.sess
    BY <1>3, <2>1
  <2>7. /\ \A x \in db.sess : \E y \in d.sess : LaterSession(x, y, clock)
        /\ \A y \in d.sess : clock < y.at \/ \E x \in db.sess : LaterSession(x, y, clock)
    BY ONLY <2>3, <2>5, <2>6
  <2>8. /\ \A q \in db.mem : \E r \in d.mem : LaterMemory(q, r, clock)
        /\ \A r \in d.mem : \/ \E q \in db.mem : LaterMemory(q, r, clock)
                            \/ /\ \A q \in db.mem : q.id # r.id
                               /\ clock < r.at
    <3>1. ASSUME NEW q \in db.mem PROVE \E r \in d.mem : LaterMemory(q, r, clock)
      <4>1. q \in d.mem
        BY <2>1
      <4>2. QED BY ONLY <2>3, <4>1
    <3>2. ASSUME NEW r \in d.mem, r \in db.mem PROVE \E q \in db.mem : LaterMemory(q, r, clock)
      BY ONLY <2>3, <3>2
    <3>3. ASSUME NEW r \in d.mem, r = m PROVE (\A q \in db.mem : q.id # r.id) /\ clock < r.at
      BY ONLY <1>5, <2>2, <2>4, <3>3
    <3>4. \A r \in d.mem : r \in db.mem \/ r = m
      BY ONLY <2>1
    <3>5. ASSUME NEW r \in d.mem
          PROVE  \/ \E q \in db.mem : LaterMemory(q, r, clock)
                 \/ (\A q \in db.mem : q.id # r.id) /\ clock < r.at
      BY <3>2, <3>3, <3>4
    <3>6. QED BY ONLY <3>1, <3>5
  <2>9. /\ \A k \in db.corr : k \in d.corr
        /\ \A k \in d.corr : k \in db.corr
    BY ONLY <2>1
  <2>10. QED BY ONLY <2>1, <2>7, <2>8, <2>9 DEF OnlyAdds
<1> HIDE DEF d, t
<1>11. e.readings + 1 \in Nat
  BY <1>3
<1>12. db' = d
  BY <1>1 DEF Commit
<1>13. QED BY <1>1, <1>5, <1>9, <1>10, <1>11, <1>12, CommitIsSound

LEMMA CorrectionKeeps ==
    ASSUME ExportInv, NEW n \in MemIds(db), NEW s \in Sessions, NEW replaced \in BOOLEAN, NEW back \in BOOLEAN,
           ContradictMemory(n, s, replaced, back)
    PROVE  ExportInv' /\ OnlyAdds(db, db', clock)
<1> DEFINE u == clock + 1
           e == Ensured(db, s, u + 1)
           at == IF back THEN clock ELSE u + e.readings + 1
           m == ObservedRow(e.db, e.id, at, u, 0)
           d == IF replaced THEN Written(e.db, e.id, at, u, 0) ELSE e.db
           closed == [d EXCEPT !.mem = {IF q.id = n THEN [q EXCEPT !.to = u] ELSE q : q \in @}]
           by == IF replaced THEN Memory(d.mems) ELSE Nobody
           added == IF replaced THEN {m} ELSE {}
           c == [target |-> Memory(n), at |-> u, sess |-> e.id, repl |-> by]
           w == [closed EXCEPT !.corr = @ \cup {c}]
           readings == 1 + e.readings + (IF replaced THEN 1 ELSE 0)
           t == clock + readings
<1>0. /\ RowsTyped(db) /\ ReadingsArePast(clock, past) /\ StampsArePast(db, clock) /\ IdsAreUnique(db)
  BY DEF ExportInv, Sound
<1>1. Current(db, n) /\ (replaced => db.mems < MaxMem) /\ Commit(w, readings)
  BY DEF ContradictMemory
<1>2. clock \in Nat /\ db.mems \in Nat /\ db.mems <= MaxMem /\ \A k \in past : k \in Nat /\ k <= clock
  BY <1>0 DEF ReadingsArePast, RowsTyped
<1>3. PICK old \in db.mem : old.id = n /\ old.to = 0 /\ 1 <= old.at /\ old.at <= clock /\ old.at \in Nat
  <2>1. PICK q \in db.mem : q.id = n
    BY DEF MemIds
  <2>2. Row(db, n) = q
    BY <1>0, <2>1 DEF IdsAreUnique, Row
  <2>3. q.to = 0
    BY <1>1, <2>2 DEF Current
  <2>4. QED BY <1>0, <2>1, <2>3 DEF StampsArePast, RowsTyped, MemoryRow
<1>4. /\ e.id \in SessIds(e.db) /\ e.readings \in {0, 1}
      /\ e.readings = 0 => e.db = db
      /\ e.readings = 1 /\ u + 1 <= MaxClock => Sound(e.db, u + 1, past)
      /\ e.db.mem = db.mem /\ e.db.corr = db.corr /\ e.db.mems = db.mems /\ e.db.graph = db.graph
      /\ e.db.tomb = db.tomb
      /\ \A x \in db.sess : x \in e.db.sess
      /\ \A x \in e.db.sess : x \in db.sess \/ x.at = u + 1
  <2>1. u + 1 \in Nat /\ clock < u + 1 /\ s \in {0} \cup SessIds(db) /\ Sound(db, clock, past)
    BY <1>2 DEF Sessions, ExportInv
  <2>2. QED BY <2>1, EnsuredIsSound
<1>5. clock + readings <= MaxClock
  BY <1>1 DEF Commit
<1> HIDE DEF e
<1>6. /\ u \in Nat /\ 1 <= u /\ clock < u /\ u <= t /\ t \in Nat /\ t <= MaxClock /\ clock <= t
      /\ e.readings = 1 => u + 1 <= t
      /\ replaced => at \in Nat /\ 1 <= at /\ at <= t
  <2>1. CASE e.readings = 0
    BY <1>2, <1>3, <1>5, <2>1
  <2>2. CASE e.readings = 1
    BY <1>2, <1>3, <1>5, <2>2
  <2>3. QED BY <1>4, <2>1, <2>2
<1>7. Sound(e.db, t, past)
  <2> HIDE DEF t
  <2>1. CASE e.readings = 0
    <3>1. Sound(db, t, past)
      BY <1>2, <1>6, ClockRuns DEF ExportInv
    <3>2. QED BY <1>4, <2>1, <3>1
  <2>2. CASE e.readings = 1
    <3>1. u + 1 <= MaxClock /\ u + 1 \in Nat /\ u + 1 <= t
      BY <1>6, <2>2, Limits
    <3>2. Sound(e.db, u + 1, past)
      BY <1>4, <2>2, <3>1
    <3>3. QED BY <1>6, <3>1, <3>2, ClockRuns
  <2>3. QED BY <1>4, <2>1, <2>2
<1>8. RowsTyped(e.db) /\ IdsAreUnique(e.db) /\ e.db.graph = GraphOf(e.db.mem)
  BY <1>7 DEF Sound
<1>9. e.id \in Nat \ {0}
  BY <1>4, <1>8 DEF SessIds, RowsTyped, SessionRow
<1>10. /\ d.mem = db.mem \cup added /\ d.graph = GraphOf(d.mem)
       /\ d.mems = IF replaced THEN db.mems + 1 ELSE db.mems
       /\ d.sess = e.db.sess /\ d.corr = db.corr /\ d.tomb = e.db.tomb
       /\ d.cur = e.db.cur /\ d.sessions = e.db.sessions
       /\ d = [f \in DatabaseFields |-> d[f]]
  <2>1. CASE replaced
    <3> HIDE DEF u, at
    <3>1. 0 \in Nat /\ u \in Nat
      BY <1>6
    <3>2. Observes(e.db, m, d)
      BY <1>8, <2>1, <3>1, WrittenRow
    <3> HIDE DEF d, m
    <3>3. QED BY <1>4, <2>1, <3>2 DEF Observes
  <2>2. CASE ~replaced
    BY <1>4, <1>8, <2>2 DEF RowsTyped
  <2>3. QED BY <2>1, <2>2
<1>11. replaced => m \in MemoryRow /\ m.id = db.mems + 1 /\ m.sess = e.id /\ m.at = at /\ m.to = 0 /\ m.till = 0
  BY <1>1, <1>2, <1>4, <1>6, <1>9, Limits DEF MemoryRow, ObservedRow
<1> HIDE DEF m, d, u, t, at, readings
<1>12. /\ w.mem = {IF q.id = n THEN [q EXCEPT !.to = u] ELSE q : q \in d.mem}
       /\ w.corr = d.corr \cup {c} /\ w.graph = d.graph /\ w.mems = d.mems
       /\ w.sess = d.sess /\ w.tomb = d.tomb /\ w.cur = d.cur /\ w.sessions = d.sessions
       /\ w = [f \in DatabaseFields |-> w[f]]
  <2> DEFINE mem == {IF q.id = n THEN [q EXCEPT !.to = u] ELSE q : q \in d.mem}
             corr == d.corr \cup {c}
  <2>1. w = [d EXCEPT !.mem = mem, !.corr = corr]
    BY <1>10 DEF DatabaseFields
  <2> HIDE DEF mem, corr, w
  <2>2. /\ w.mem = mem /\ w.corr = corr /\ w.graph = d.graph /\ w.mems = d.mems
        /\ w.sess = d.sess /\ w.tomb = d.tomb /\ w.cur = d.cur /\ w.sessions = d.sessions
        /\ w = [f \in DatabaseFields |-> w[f]]
    BY <1>10, <2>1 DEF DatabaseFields
  <2>3. QED BY <2>2 DEF mem, corr
<1> HIDE DEF w
<1>13. Corrects(e.db, t, u, e.id, old, by, added, w)
  <2>1. n <= db.mems
    BY <1>0, <1>3 DEF IdsAreUnique
  <2>2. \A q \in added : replaced /\ q = m
    OBVIOUS
  <2>3. \/ added = {} /\ by = Nobody
        \/ \E q \in MemoryRow : /\ added = {q} /\ by = Memory(q.id)
                                /\ q.id = e.db.mems + 1 /\ q.sess = e.id /\ 1 <= q.at /\ q.at <= t
                                /\ q.to = 0 /\ q.till = 0
    <3>1. CASE ~replaced
      BY <3>1
    <3>2. CASE replaced
      <4>1. /\ m \in MemoryRow /\ added = {m} /\ by = Memory(m.id)
            /\ m.id = e.db.mems + 1 /\ m.sess = e.id /\ 1 <= m.at /\ m.at <= t
            /\ m.to = 0 /\ m.till = 0
        BY <1>4, <1>6, <1>10, <1>11, <3>2
      <4>2. QED BY <4>1
    <3>3. QED BY <3>1, <3>2
  <2>4. w.mem = {IF q.id = old.id THEN [q EXCEPT !.to = u] ELSE q : q \in e.db.mem} \cup added
    <3>1. \A q \in added : q.id # n
      BY <1>2, <1>3, <1>11, <2>1, <2>2, <1>0 DEF RowsTyped, MemoryRow
    <3>2. {IF q.id = n THEN [q EXCEPT !.to = u] ELSE q : q \in added} = added
      BY <3>1
    <3> HIDE DEF added
    <3>3. QED BY ONLY <1>3, <1>4, <1>10, <1>12, <3>2
  <2>5. w.graph = GraphOf(w.mem)
    <3>1. \A q \in d.mem : q \in MemoryRow
      BY <1>0, <1>10, <1>11 DEF RowsTyped
    <3>2. \A q \in d.mem : \E r \in w.mem : r.id = q.id /\ r.when = q.when
      <4>1. \A q \in d.mem : [q EXCEPT !.to = u].id = q.id /\ [q EXCEPT !.to = u].when = q.when
        BY <3>1 DEF MemoryRow
      <4>2. \A q \in d.mem : (IF q.id = n THEN [q EXCEPT !.to = u] ELSE q) \in w.mem
        BY ONLY <1>12
      <4>3. QED BY ONLY <4>1, <4>2
    <3>3. \A r \in w.mem : \E q \in d.mem : r.id = q.id /\ r.when = q.when
      <4>1. \A q \in d.mem : [q EXCEPT !.to = u].id = q.id /\ [q EXCEPT !.to = u].when = q.when
        BY <3>1 DEF MemoryRow
      <4>2. QED BY ONLY <1>12, <4>1
    <3>4. GraphOf(d.mem) = GraphOf(w.mem)
      BY ONLY <3>2, <3>3, GraphOfSame
    <3>5. QED BY <1>10, <1>12, <3>4
  <2>6. w.mems \in Nat /\ w.mems <= MaxMem /\ e.db.mems <= w.mems /\ \A q \in added : q.id <= w.mems
    BY <1>1, <1>2, <1>4, <1>10, <1>11, <1>12, <2>2, Limits
  <2>7. w.corr = e.db.corr \cup {[target |-> Memory(old.id), at |-> u, sess |-> e.id, repl |-> by]}
    BY <1>3, <1>4, <1>10, <1>12
  <2>8. w.sess = e.db.sess /\ w.tomb = e.db.tomb /\ w.cur = e.db.cur /\ w.sessions = e.db.sessions
    BY <1>10, <1>12
  <2> HIDE DEF added, by
  <2>9. QED BY <1>12, <2>3, <2>4, <2>5, <2>6, <2>7, <2>8 DEF Corrects
<1>14. Sound(w, t, past)
  <2>1. old \in e.db.mem /\ old.to = 0 /\ old.at < u /\ \A k \in past : k < u
    BY <1>2, <1>3, <1>4, <1>6
  <2>2. \A k \in e.db.corr : k.at < u
    BY <1>0, <1>2, <1>4, <1>6 DEF StampsArePast, RowsTyped, CorrectionRow
  <2> HIDE DEF added, by
  <2>3. QED BY <1>4, <1>6, <1>7, <1>13, <2>1, <2>2, CorrectedIsSound
<1>15. readings \in Nat
  BY <1>4 DEF readings
<1>16. OnlyAdds(db, w, clock)
  <2>1. \A x : LaterSession(x, x, clock) /\ LaterMemory(x, x, clock)
    BY DEF LaterSession, LaterMemory
  <2>2. \A q \in db.mem : q \in MemoryRow /\ q.id <= db.mems
    BY <1>0 DEF RowsTyped, IdsAreUnique
  <2>3. ASSUME replaced PROVE \A q \in db.mem : q.id # m.id /\ Memory(q.id) # by
    <3>1. by = Memory(db.mems + 1) /\ m.id = db.mems + 1
      BY <1>10, <1>11, <2>3
    <3>2. \A q \in db.mem : q.id # db.mems + 1
      BY <1>2, <2>2 DEF MemoryRow
    <3> HIDE DEF by
    <3>3. QED BY <3>1, <3>2, EndsDiffer
  <2>4. c.at = u /\ c.repl = by /\ c \in w.corr
    BY <1>12
  <2>5. \A q \in added : replaced /\ q = m
    OBVIOUS
  <2>6. ASSUME replaced PROVE c.repl = Memory(m.id)
    BY <1>10, <1>11, <2>4, <2>6
  <2>7. ~replaced => by = Nobody
    OBVIOUS
  <2>8. w.mem = {IF q.id = n THEN [q EXCEPT !.to = u] ELSE q : q \in db.mem} \cup added
    <3>1. \A q \in added : q.id # n
      BY <1>2, <1>3, <1>11, <2>2, <2>5 DEF MemoryRow
    <3>2. {IF q.id = n THEN [q EXCEPT !.to = u] ELSE q : q \in added} = added
      BY <3>1
    <3> HIDE DEF added
    <3>3. QED BY ONLY <1>10, <1>12, <3>2
  <2>9. \A q \in db.mem : LaterMemory(q, IF q.id = n THEN [q EXCEPT !.to = u] ELSE q, clock)
    <3>1. ASSUME NEW q \in db.mem, q.id = n PROVE LaterMemory(q, [q EXCEPT !.to = u], clock)
      <4>1. q.to = 0
        BY <1>0, <1>3, <3>1 DEF IdsAreUnique
      <4>2. [q EXCEPT !.to = u].to = u
        BY <2>2 DEF MemoryRow
      <4>3. QED BY <1>6, <4>1, <4>2 DEF LaterMemory
    <3>2. QED BY <2>1, <3>1
  <2> HIDE DEF c, by, added
  <2>10. /\ \A x \in db.sess : \E y \in w.sess : LaterSession(x, y, clock)
         /\ \A y \in w.sess : clock < y.at \/ \E x \in db.sess : LaterSession(x, y, clock)
    <3>1. clock < u + 1
      BY <1>2, <1>6
    <3>2. w.sess = e.db.sess
      BY <1>10, <1>12
    <3>3. QED BY <1>4, <2>1, <3>1, <3>2
  <2>11. \A q \in db.mem : \E r \in w.mem : LaterMemory(q, r, clock)
    <3>1. \A q \in db.mem : (IF q.id = n THEN [q EXCEPT !.to = u] ELSE q) \in w.mem
      BY ONLY <2>8
    <3>2. QED BY <2>9, <3>1
  <2>12. \A r \in w.mem : \/ \E q \in db.mem : LaterMemory(q, r, clock)
                          \/ /\ \A q \in db.mem : q.id # r.id
                             /\ clock < r.at \/ \E k \in w.corr : clock < k.at /\ k.repl = Memory(r.id)
    <3>1. ASSUME NEW r \in added
          PROVE  (\A q \in db.mem : q.id # r.id) /\ \E k \in w.corr : clock < k.at /\ k.repl = Memory(r.id)
      BY <1>6, <2>3, <2>4, <2>5, <2>6
    <3>2. ASSUME NEW r \in w.mem, r \notin added PROVE \E q \in db.mem : LaterMemory(q, r, clock)
      <4>1. PICK q \in db.mem : r = IF q.id = n THEN [q EXCEPT !.to = u] ELSE q
        BY <2>8, <3>2
      <4>2. QED BY <2>9, <4>1
    <3>3. QED BY <3>1, <3>2
  <2>13. \A k \in db.corr : k \in w.corr
    BY <1>10, <1>12
  <2>14. \A k \in w.corr : k \in db.corr \/ (clock < k.at /\ \A q \in db.mem : k.repl # Memory(q.id))
    <3>1. \A q \in db.mem : by # Memory(q.id)
      BY <2>3, <2>7, EndsDiffer
    <3>2. \A k \in w.corr : k \in db.corr \/ k = c
      BY <1>10, <1>12
    <3>3. QED BY <1>6, <2>4, <3>1, <3>2
  <2>15. w.tomb = db.tomb
    BY <1>4, <1>10, <1>12
  <2>16. QED BY <2>10, <2>11, <2>12, <2>13, <2>14, <2>15 DEF OnlyAdds
<1>17. db' = w
  BY <1>1 DEF Commit
<1>18. QED BY <1>1, <1>14, <1>15, <1>16, <1>17, CommitIsSound DEF t

LEMMA ErasureKeeps ==
    ASSUME ExportInv, NEW n \in MemIds(db), PurgeMemory(n)
    PROVE  ExportInv'
<1>0. RowsTyped(db)
  BY DEF ExportInv, Sound
<1>1. Sound(Erased(n), clock + 1, {})
  BY ErasedIsSound DEF PurgeMemory
<1>2. \A x \in ErasedSessions(n) : x \in Nat \ {0}
  <2>1. Row(db, n) \in db.mem
    BY DEF Row, MemIds
  <2>2. QED BY <1>0, <2>1 DEF ErasedSessions, Touching, RowsTyped, MemoryRow, CorrectionRow
<1>3. Sound(RekeyedSessions(Erased(n), ErasedSessions(n)), clock + 1, {})
  BY <1>1, <1>2, RekeyedIsSound
<1>4. db' = RekeyedSessions(Erased(n), ErasedSessions(n)) /\ clock' = clock + 1 /\ past' = {clock'}
  BY DEF PurgeMemory
<1>5. Sound(db', clock', {})
  BY <1>3, <1>4
<1>6. Sound(db', clock', {} \cup {clock'})
  BY <1>5, CommitIsACut
<1>7. {} \cup {clock'} = past'
  BY <1>4
<1>8. QED BY <1>6, <1>7, NextInv

LEMMA StepsStaySound == ExportInv /\ [ExportNext]_exportVars => ExportInv'
<1> SUFFICES ASSUME ExportInv, [ExportNext]_exportVars PROVE ExportInv'
  OBVIOUS
<1>1. CASE RebuildGraph
  BY <1>1, RebuildKeeps
<1>2. ASSUME NEW s \in Sessions, NEW to \in Until, ObserveMemory(s, to) PROVE ExportInv'
  BY <1>2, ObserveKeeps
<1>3. ASSUME NEW s \in SessIds(db), EndSession(s) PROVE ExportInv'
  BY <1>3, EndSessionKeeps
<1>4. ASSUME NEW n \in MemIds(db), NEW s \in Sessions, NEW replaced \in BOOLEAN, NEW back \in BOOLEAN,
             ContradictMemory(n, s, replaced, back)
      PROVE  ExportInv'
  BY <1>4, CorrectionKeeps
<1>5. ASSUME NEW n \in MemIds(db), PurgeMemory(n) PROVE ExportInv'
  BY <1>5, ErasureKeeps
<1>6. CASE UNCHANGED exportVars
  BY <1>6, NextInv DEF exportVars, ExportInv
<1>7. QED BY <1>1, <1>2, <1>3, <1>4, <1>5, <1>6 DEF ExportNext

\* Rows are typed, stamps are of readings past, ids are unique, links point to
\* rows that a cut takes along, a correction closes what it corrects, and the
\* graph is the graph of the memories, after any transactions.
THEOREM ExportInvariant == ExportSpec => []ExportInv
<1>1. ExportInit => ExportInv
  BY EmptyIsSound
<1>2. ExportInv /\ [ExportNext]_exportVars => ExportInv'
  BY StepsStaySound
<1>3. QED BY <1>1, <1>2, PTL DEF ExportSpec

-----------------------------------------------------------------------------
(* What the invariant says of the selection at a cut.                       *)

LEMMA KeptIsTaken ==
    ASSUME NEW d, NEW cut
    PROVE  \A m : m \in KeptMemories(d, cut) <=> m \in d.mem /\ m.at <= cut /\ \A c \in d.corr : c.at > cut => c.repl # Memory(m.id)
  BY DEF KeptMemories, Selected, FutureReplacements

\* With a correction a cut takes the memory it corrects.
LEMMA TargetIsKept ==
    ASSUME ExportInv, NEW cut \in Nat, NEW c \in db.corr, c.at <= cut, NEW e, c.target = e, e.kind = "memory"
    PROVE  \E m \in KeptMemories(db, cut) : e = Memory(m.id)
<1>0. RowsTyped(db) /\ EndsAreThere(db) /\ CorrectionsClose(db, past)
  BY DEF ExportInv, Sound
<1>1. c \in CorrectionRow /\ e \in RowEnd /\ e = Memory(e.id)
  <2>1. c \in CorrectionRow
    BY <1>0 DEF RowsTyped
  <2>2. e \in RowEnd
    BY <2>1 DEF CorrectionRow
  <2>3. QED BY <2>1, <2>2, EndsDiffer
<1>2. PICK m \in db.mem : m.id = e.id
  BY <1>0 DEF EndsAreThere, IsRow
<1>3. m.at < c.at /\ \A k \in db.corr : k.repl = c.target => k.at < c.at
  BY <1>0, <1>1, <1>2 DEF CorrectionsClose
<1>4. m.at \in Nat /\ c.at \in Nat /\ \A k \in db.corr : k.at \in Nat
  BY <1>0, <1>1 DEF RowsTyped, CorrectionRow, MemoryRow
<1>5. m.at <= cut /\ \A k \in db.corr : k.at > cut => k.repl # Memory(m.id)
  <2>1. m.at <= cut
    BY <1>3, <1>4
  <2>2. ASSUME NEW k \in db.corr, k.at > cut, k.repl = Memory(m.id) PROVE FALSE
    <3>1. k.at < c.at
      BY <1>1, <1>2, <1>3, <2>2
    <3>2. k.at \in Nat /\ c.at \in Nat /\ c.at <= cut /\ k.at > cut
      BY <1>4, <2>2
    <3>3. QED BY ONLY <3>1, <3>2
  <2>3. QED BY <2>1, <2>2
<1>6. QED BY <1>1, <1>2, <1>5, KeptIsTaken

\* A committed cut takes every correction of its time.
LEMMA CutTakesCorrections ==
    ASSUME ExportInv, NEW cut \in past
    PROVE  KeptCorrections(db, cut) = Selected(db.corr, cut)
<1>0. /\ RowsTyped(db) /\ ReadingsArePast(clock, past) /\ EndsAreThere(db) /\ CorrectionsClose(db, past)
  BY DEF ExportInv, Sound
<1>1. cut \in Nat
  BY <1>0 DEF ReadingsArePast
<1>2. ASSUME NEW c \in db.corr, c.at <= cut, NEW e \in Ends(c), e.kind = "memory"
      PROVE  \E m \in KeptMemories(db, cut) : e = Memory(m.id)
  <2>1. CASE e = c.target
    BY <1>1, <1>2, <2>1, TargetIsKept
  <2>2. CASE e = c.repl
    <3>1. e = Memory(e.id)
      BY <1>0, <1>2, <2>2, EndsDiffer DEF RowsTyped, CorrectionRow
    <3>2. PICK m \in db.mem : m.id = e.id
      BY <1>0, <1>2, <2>2 DEF EndsAreThere, IsRow
    <3>3. m.at <= cut
      BY <1>0, <1>2, <2>2, <3>1, <3>2 DEF CorrectionsClose
    <3>4. ASSUME NEW k \in db.corr, k.at > cut PROVE k.repl # Memory(m.id)
      <4>1. k.repl = Memory(m.id) => k = c
        BY <1>0, <1>2, <2>2, <3>1, <3>2 DEF EndsAreThere
      <4>2. c.at \in Nat
        BY <1>0 DEF RowsTyped, CorrectionRow
      <4>3. QED BY <1>1, <1>2, <3>4, <4>1, <4>2
    <3>5. QED BY <3>1, <3>2, <3>3, <3>4, KeptIsTaken
  <2>3. QED BY <1>2, <2>1, <2>2 DEF Ends
<1>3. QED BY <1>2 DEF KeptCorrections, Selected

LEMMA SelectIs ==
    ASSUME NEW d, NEW cut
    PROVE  LET b == Select(d, cut)
               mentions == KeptObservations(d.graph.mention, d, cut)
               evidence == KeptObservations(d.graph.evidence, d, cut)
           IN  /\ b.sess = KeptSessions(d, cut)
               /\ b.mem = {[m EXCEPT !.to = AtCut(m.to, cut)] : m \in KeptMemories(d, cut)}
               /\ b.corr = KeptCorrections(d, cut) /\ b.tomb = KeptTombstones(d, cut)
               /\ b.mention = mentions /\ b.evidence = evidence
               /\ b.entity = KeptEntities(d.graph, mentions, evidence)
<1>1. {[m EXCEPT !.to = AtCut(@, cut)] : m \in KeptMemories(d, cut)}
        = {[m EXCEPT !.to = AtCut(m.to, cut)] : m \in KeptMemories(d, cut)}
  OBVIOUS
<1>2. QED BY <1>1 DEF Select

\* Rows as a cut shows them.
LEMMA ProjectedRows ==
    ASSUME NEW d, RowsTyped(d), NEW cut \in Nat
    PROVE  /\ \A s \in KeptSessions(d, cut) :
                  \E x \in d.sess : /\ x.at <= cut /\ s = [x EXCEPT !.end = AtCut(x.end, cut)]
                                    /\ s.id = x.id /\ s.at = x.at /\ s.pred = x.pred
           /\ \A x \in d.sess : x.at <= cut =>
                  \E s \in KeptSessions(d, cut) : s.id = x.id /\ s.at = x.at /\ s.pred = x.pred
           /\ \A m \in Select(d, cut).mem :
                  \E q \in KeptMemories(d, cut) : /\ m.id = q.id /\ m.sess = q.sess
                                                  /\ m.to = AtCut(q.to, cut) /\ m.till = q.till
           /\ \A q \in KeptMemories(d, cut) : \E m \in Select(d, cut).mem : m.id = q.id
<1>1. KeptSessions(d, cut) = {[x EXCEPT !.end = AtCut(x.end, cut)] : x \in {x \in d.sess : x.at <= cut}}
  BY DEF KeptSessions, Selected
<1>2. \A x \in d.sess : LET s == [x EXCEPT !.end = AtCut(x.end, cut)]
                        IN  s.id = x.id /\ s.at = x.at /\ s.pred = x.pred
  BY DEF RowsTyped, SessionRow
<1>3. Select(d, cut).mem = {[m EXCEPT !.to = AtCut(m.to, cut)] : m \in KeptMemories(d, cut)}
  BY SelectIs
<1>4. \A q \in KeptMemories(d, cut) : q \in MemoryRow
  BY KeptIsTaken DEF RowsTyped
<1>5. \A q \in KeptMemories(d, cut) : LET m == [q EXCEPT !.to = AtCut(q.to, cut)]
                                      IN  /\ m.id = q.id /\ m.sess = q.sess
                                          /\ m.to = AtCut(q.to, cut) /\ m.till = q.till
  BY <1>4 DEF MemoryRow
<1>6. \A q \in KeptMemories(d, cut) : [q EXCEPT !.to = AtCut(q.to, cut)] \in Select(d, cut).mem
  BY <1>3
<1>7. \A x \in d.sess : x.at <= cut => [x EXCEPT !.end = AtCut(x.end, cut)] \in KeptSessions(d, cut)
  BY <1>1
<1>8. ASSUME NEW s \in KeptSessions(d, cut)
      PROVE  \E x \in d.sess : /\ x.at <= cut /\ s = [x EXCEPT !.end = AtCut(x.end, cut)]
                               /\ s.id = x.id /\ s.at = x.at /\ s.pred = x.pred
  <2>1. PICK x \in d.sess : x.at <= cut /\ s = [x EXCEPT !.end = AtCut(x.end, cut)]
    BY <1>1
  <2>2. QED BY <1>2, <2>1
<1>9. \A m \in Select(d, cut).mem : \E q \in KeptMemories(d, cut) : m = [q EXCEPT !.to = AtCut(q.to, cut)]
  BY <1>3
<1>10. \A x \in d.sess : x.at <= cut =>
          \E s \in KeptSessions(d, cut) : s.id = x.id /\ s.at = x.at /\ s.pred = x.pred
  BY ONLY <1>2, <1>7
<1>11. \A m \in Select(d, cut).mem :
          \E q \in KeptMemories(d, cut) : /\ m.id = q.id /\ m.sess = q.sess
                                          /\ m.to = AtCut(q.to, cut) /\ m.till = q.till
  BY ONLY <1>5, <1>9
<1>12. \A q \in KeptMemories(d, cut) : \E m \in Select(d, cut).mem : m.id = q.id
  BY ONLY <1>5, <1>6
<1>13. QED BY ONLY <1>8, <1>10, <1>11, <1>12, Zenon

\* The entities of some mentions and evidence.
SpansOf(mentions, evidence) ==
    LET Times(x) == {m.at : m \in {m \in mentions : m.entity = x}}
                      \cup {r.at : r \in {r \in evidence : x \in Range(r.triple)}}
    IN  {Spanned(x, Times(x)) : x \in {m.entity : m \in mentions} \cup UNION {Range(r.triple) : r \in evidence}}

LEMMA SpansAreOf ==
    ASSUME NEW mentions, NEW evidence
    PROVE  {m.entity : m \in mentions} \cup UNION {Range(r.triple) : r \in evidence}
             \subseteq {x.id : x \in SpansOf(mentions, evidence)}
<1> DEFINE Times(x) == {m.at : m \in {m \in mentions : m.entity = x}}
                         \cup {r.at : r \in {r \in evidence : x \in Range(r.triple)}}
           seen == {m.entity : m \in mentions} \cup UNION {Range(r.triple) : r \in evidence}
<1>1. \A x : Spanned(x, Times(x)).id = x
  BY DEF Spanned
<1>2. SpansOf(mentions, evidence) = {Spanned(x, Times(x)) : x \in seen}
  BY DEF SpansOf
<1> HIDE DEF Times, seen
<1>3. seen \subseteq {x.id : x \in SpansOf(mentions, evidence)}
  BY <1>1, <1>2
<1>4. QED BY <1>3 DEF seen

\* An observation that is kept is of an entity that the graph has, and the
\* entities kept are those of the observations kept, spanned by them alone.
LEMMA EntitiesFollowObservations ==
    ASSUME NEW es, Events(es), NEW mentions, NEW evidence,
           \A m \in mentions : m \in MentionsOf(es), \A r \in evidence : r \in EvidencesOf(es)
    PROVE  KeptEntities(GraphOf(es), mentions, evidence) = SpansOf(mentions, evidence)
<1> DEFINE Times(x) == {m.at : m \in {m \in mentions : m.entity = x}}
                         \cup {r.at : r \in {r \in evidence : x \in Range(r.triple)}}
           seen == {m.entity : m \in mentions} \cup UNION {Range(r.triple) : r \in evidence}
           rows == {Spanned(x, TimesOf(es, x)) : x \in EntitiesOf(es)}
<1>1. KeptEntities(GraphOf(es), mentions, evidence) = {Projected(y, Times(y.id)) : y \in {y \in rows : Times(y.id) # {}}}
  BY DEF KeptEntities, GraphOf
<1>2. SpansOf(mentions, evidence) = {Spanned(x, Times(x)) : x \in seen}
  BY DEF SpansOf
<1>3. \A x : x \in seen <=> Times(x) # {}
  OBVIOUS
<1>4. \A x \in seen : x \in EntitiesOf(es)
  <2>1. ASSUME NEW m \in mentions PROVE m.entity \in EntitiesOf(es)
    <3>1. PICK e \in es : \E x \in Said[e.id].entities : m = [event |-> e.id, entity |-> x, at |-> e.when]
      BY DEF MentionsOf
    <3>2. QED BY <3>1 DEF EntitiesOf
  <2>2. ASSUME NEW r \in evidence, NEW x \in Range(r.triple) PROVE x \in EntitiesOf(es)
    <3>1. PICK e \in es : \E t \in Said[e.id].triples : r = [event |-> e.id, triple |-> t, at |-> e.when]
      BY DEF EvidencesOf
    <3>2. PICK t \in Said[e.id].triples : r = [event |-> e.id, triple |-> t, at |-> e.when]
      BY <3>1
    <3>3. e.id \in 1 .. MaxMem /\ r.triple = t
      BY <3>2 DEF Events
    <3>4. x \in Said[e.id].entities
      BY <2>2, <3>2, <3>3, TextsAssumption
    <3>5. QED BY <3>4 DEF EntitiesOf
  <2>3. QED BY <2>1, <2>2
<1>5. \A x, T : Spanned(x, T).id = x
  BY DEF Spanned
<1> HIDE DEF Times, seen
<1>6. ASSUME NEW x PROVE Projected(Spanned(x, TimesOf(es, x)), Times(x)) = Spanned(x, Times(x))
  BY SpannedAnew DEF Projected
<1>7. ASSUME NEW x \in seen PROVE Spanned(x, Times(x)) \in {Projected(y, Times(y.id)) : y \in {y \in rows : Times(y.id) # {}}}
  <2>1. PICK y : y = Spanned(x, TimesOf(es, x))
    OBVIOUS
  <2>2. y \in rows /\ y.id = x /\ Times(x) # {}
    BY <1>3, <1>4, <1>5, <2>1
  <2>3. Projected(y, Times(x)) = Spanned(x, Times(x))
    BY <1>6, <2>1
  <2>4. Projected(y, Times(y.id)) \in {Projected(z, Times(z.id)) : z \in {z \in rows : Times(z.id) # {}}}
    BY <2>2
  <2>5. QED BY <2>2, <2>3, <2>4
<1>8. ASSUME NEW y \in rows, Times(y.id) # {} PROVE Projected(y, Times(y.id)) \in {Spanned(x, Times(x)) : x \in seen}
  <2>1. PICK x \in EntitiesOf(es) : y = Spanned(x, TimesOf(es, x))
    OBVIOUS
  <2>2. y.id = x
    BY <1>5, <2>1
  <2>3. Projected(y, Times(x)) = Spanned(x, Times(x))
    BY <1>6, <2>1
  <2>4. x \in seen
    BY <1>3, <1>8, <2>2
  <2>5. QED BY <2>2, <2>3, <2>4
<1>9. QED BY <1>1, <1>2, <1>7, <1>8

-----------------------------------------------------------------------------
(* The safety properties.                                                   *)

LEMMA CutIsImportable ==
    ASSUME ExportInv, NEW cut \in past
    PROVE  Importable(Select(db, cut))
<1> DEFINE b == Select(db, cut)
           mentions == KeptObservations(db.graph.mention, db, cut)
           evidence == KeptObservations(db.graph.evidence, db, cut)
<1>0. /\ RowsTyped(db) /\ ReadingsArePast(clock, past) /\ StampsArePast(db, clock) /\ IdsAreUnique(db)
      /\ SuccessionIsOlder(db) /\ SessionsAreThere(db, past) /\ EndsAreThere(db) /\ CorrectionsClose(db, past)
      /\ db.graph = GraphOf(db.mem)
  BY DEF ExportInv, Sound
<1>1. cut \in Nat
  BY <1>0 DEF ReadingsArePast
<1>2. /\ b.sess = KeptSessions(db, cut) /\ b.corr = KeptCorrections(db, cut) /\ b.tomb = KeptTombstones(db, cut)
      /\ b.mention = mentions /\ b.evidence = evidence
      /\ b.entity = KeptEntities(db.graph, mentions, evidence)
  BY SelectIs
<1>3. /\ \A s \in b.sess : \E x \in db.sess : x.at <= cut /\ s.id = x.id /\ s.at = x.at /\ s.pred = x.pred
      /\ \A x \in db.sess : x.at <= cut => \E s \in b.sess : s.id = x.id /\ s.at = x.at /\ s.pred = x.pred
      /\ \A m \in b.mem : \E q \in KeptMemories(db, cut) : m.id = q.id /\ m.sess = q.sess
      /\ \A q \in KeptMemories(db, cut) : \E m \in b.mem : m.id = q.id
  BY <1>0, <1>1, <1>2, ProjectedRows
<1> HIDE DEF b
<1>4. \A x \in db.sess : x.at <= cut => x.id \in SessIds(b)
  BY <1>3 DEF SessIds
<1>5. \A s \in b.sess : s.pred # 0 => \E q \in b.sess : q.id = s.pred /\ q.at < s.at
  <2>1. ASSUME NEW s \in b.sess, s.pred # 0 PROVE \E q \in b.sess : q.id = s.pred /\ q.at < s.at
    <3>1. PICK x \in db.sess : x.at <= cut /\ s.at = x.at /\ s.pred = x.pred
      BY <1>3
    <3>2. PICK q \in db.sess : q.id = s.pred /\ q.at < s.at
      BY <1>0, <2>1, <3>1 DEF SuccessionIsOlder
    <3>3. q.at \in Nat /\ x.at \in Nat
      BY <1>0 DEF RowsTyped, SessionRow
    <3>4. q.at <= cut
      BY <1>1, <3>1, <3>2, <3>3
    <3>5. QED BY <1>3, <3>2, <3>4
  <2>2. QED BY <2>1
<1>6. \A s, q \in b.sess : s.id = q.id => s.at = q.at
  BY <1>0, <1>3 DEF IdsAreUnique
<1>7. \A s \in b.sess : s.at \in Nat
  BY <1>0, <1>3 DEF RowsTyped, SessionRow
<1>8. ASSUME NEW p \in Succession(b)
      PROVE  \E s, q \in b.sess : p[1] = s.id /\ p[2] = q.id /\ q.at < s.at
  <2>1. PICK s \in b.sess : s.pred # 0 /\ p = <<s.id, s.pred>>
    BY DEF Succession
  <2>2. PICK q \in b.sess : q.id = s.pred /\ q.at < s.at
    BY <1>5, <2>1
  <2>3. QED BY <2>1, <2>2
<1>9. \A p \in Succession(b) : p[2] \in SessIds(b) /\ p[1] # p[2]
  <2>1. ASSUME NEW p \in Succession(b) PROVE p[2] \in SessIds(b) /\ p[1] # p[2]
    <3>1. PICK s \in b.sess, q \in b.sess : p[1] = s.id /\ p[2] = q.id /\ q.at < s.at
      BY <1>8
    <3>2. q.at # s.at
      BY <1>7, <3>1
    <3>3. QED BY <1>6, <3>1, <3>2 DEF SessIds
  <2>2. QED BY <2>1
<1>10. \A m \in b.mem : m.sess \in SessIds(b)
  <2>1. ASSUME NEW m \in b.mem PROVE m.sess \in SessIds(b)
    <3>1. PICK q \in KeptMemories(db, cut) : m.sess = q.sess
      BY <1>3
    <3>2. q \in db.mem /\ q.at <= cut /\ \A c \in db.corr : c.at > cut => c.repl # Memory(q.id)
      BY KeptIsTaken
    <3>3. Taken(db, q, cut)
      <4>1. \A c \in db.corr : c.at \in Nat
        BY <1>0 DEF RowsTyped, CorrectionRow
      <4>2. QED BY <1>1, <3>2, <4>1 DEF Taken
    <3>4. PICK x \in db.sess : x.id = q.sess /\ x.at <= cut
      BY <1>0, <3>2, <3>3 DEF SessionsAreThere
    <3>5. QED BY <1>4, <3>1, <3>4
  <2>2. QED BY <2>1
<1>11. \A c \in b.corr :
          /\ c.sess # 0 => c.sess \in SessIds(b)
          /\ \A e \in Ends(c) : IF e.kind = "memory" THEN e.id \in MemIds(b) ELSE e.id \in TombIds(b)
  <2>1. ASSUME NEW c \in b.corr, c.sess # 0 PROVE c.sess \in SessIds(b)
    <3>1. c \in db.corr /\ c.at <= cut
      BY <1>2 DEF KeptCorrections, Selected
    <3>2. PICK x \in db.sess : x.id = c.sess /\ x.at <= cut
      BY <1>0, <2>1, <3>1 DEF SessionsAreThere
    <3>3. QED BY <1>4, <3>2
  <2>2. ASSUME NEW c \in b.corr, NEW e \in Ends(c)
        PROVE  IF e.kind = "memory" THEN e.id \in MemIds(b) ELSE e.id \in TombIds(b)
    <3>1. c \in db.corr /\ e \in {c.target, c.repl} /\ e # Nobody
      BY <1>2 DEF KeptCorrections, Selected, Ends
    <3>2. e \in RowEnd
      BY <1>0, <3>1 DEF RowsTyped, CorrectionRow
    <3>3. CASE e.kind = "memory"
      <4>1. PICK m \in KeptMemories(db, cut) : e = Memory(m.id)
        BY <1>2, <3>3 DEF KeptCorrections
      <4>2. e.id = m.id
        BY <4>1, EndsDiffer
      <4>3. QED BY <1>3, <3>3, <4>2 DEF MemIds
    <3>4. CASE e.kind # "memory"
      <4>1. e.kind = "tombstone" /\ e = Tombstone(e.id)
        BY <3>2, <3>4, EndsDiffer DEF RowEnd
      <4>2. PICK r \in db.tomb : r.id = e.id
        BY <1>0, <3>1, <4>1 DEF EndsAreThere, IsRow
      <4>3. r \in b.tomb
        BY <1>2, <4>1, <4>2 DEF KeptTombstones
      <4>4. QED BY <3>4, <4>2, <4>3 DEF TombIds
    <3>5. QED BY <3>3, <3>4
  <2>3. QED BY <2>1, <2>2
<1>12. \A r \in b.mention \cup b.evidence : r.event \in MemIds(b)
  <2>1. \A m \in KeptMemories(db, cut) : m.id \in MemIds(b)
    BY <1>3 DEF MemIds
  <2>2. QED BY <1>2, <2>1 DEF KeptObservations
<1>13. {m.entity : m \in b.mention} \cup UNION {Range(r.triple) : r \in b.evidence} \subseteq {x.id : x \in b.entity}
  <2>1. Events(db.mem)
    BY <1>0, MemoriesAreEvents
  <2>2. /\ \A m \in b.mention : m \in MentionsOf(db.mem)
        /\ \A r \in b.evidence : r \in EvidencesOf(db.mem)
    BY <1>0, <1>2 DEF KeptObservations, Selected, GraphOf
  <2>3. b.entity = SpansOf(b.mention, b.evidence)
    BY <1>0, <1>2, <2>1, <2>2, EntitiesFollowObservations
  <2>4. QED BY <2>3, SpansAreOf
<1>14. ASSUME NEW w \in SUBSET SessIds(b), w # {}
       PROVE  \E s \in w : \A p \in Succession(b) : p[1] = s => p[2] \notin w
  <2> DEFINE starts == {x.at : x \in {x \in b.sess : x.id \in w}}
  <2>1. starts \subseteq Nat /\ starts # {}
    BY <1>7, <1>14 DEF SessIds
  <2>2. PICK a \in starts : \A y \in starts : a <= y
    <3> HIDE DEF starts
    <3>1. QED BY <2>1, LeastNumber
  <2>3. PICK x \in b.sess : x.id \in w /\ x.at = a
    OBVIOUS
  <2>4. ASSUME NEW p \in Succession(b), p[1] = x.id, p[2] \in w PROVE FALSE
    <3>1. PICK s \in b.sess, q \in b.sess : p[1] = s.id /\ p[2] = q.id /\ q.at < s.at
      BY <1>8
    <3>2. s.at = a /\ q.at \in starts
      BY <1>6, <2>3, <2>4, <3>1
    <3>3. a <= q.at /\ q.at \in Nat /\ a \in Nat
      BY <2>1, <2>2, <3>2
    <3>4. QED BY ONLY <3>1, <3>2, <3>3
  <2>5. QED BY <2>3, <2>4
<1>15. QED BY <1>9, <1>10, <1>11, <1>12, <1>13, <1>14 DEF Importable, b

LEMMA ReplacementIsNotAlone ==
    ASSUME ExportInv
    PROVE  NoReplacementAlone
<1> SUFFICES ASSUME NEW cut \in Cuts, NEW c \in db.corr, c.repl.kind = "memory", c.repl.id \in MemIds(Select(db, cut))
             PROVE  c \in Select(db, cut).corr
  BY DEF NoReplacementAlone
<1>0. RowsTyped(db) /\ ReadingsArePast(clock, past)
  BY DEF ExportInv, Sound
<1>1. cut \in Nat
  BY <1>0 DEF Cuts, ReadingsArePast
<1>2. PICK m \in KeptMemories(db, cut) : m.id = c.repl.id
  <2>1. PICK r \in Select(db, cut).mem : r.id = c.repl.id
    BY DEF MemIds
  <2>2. QED BY <1>0, <1>1, <2>1, ProjectedRows
<1>3. c.repl = Memory(m.id)
  BY <1>0, <1>2, EndsDiffer DEF RowsTyped, CorrectionRow
<1>4. c.at <= cut
  <2>1. c.at \in Nat
    BY <1>0 DEF RowsTyped, CorrectionRow
  <2>2. ~(c.at > cut)
    BY <1>2, <1>3, KeptIsTaken
  <2>3. QED BY <1>1, <2>1, <2>2
<1>5. \A e \in Ends(c) : e.kind = "memory" => e \in {Memory(q.id) : q \in KeptMemories(db, cut)}
  BY <1>1, <1>2, <1>3, <1>4, TargetIsKept DEF Ends
<1>6. c \in KeptCorrections(db, cut)
  BY <1>4, <1>5 DEF KeptCorrections, Selected
<1>7. QED BY <1>6, SelectIs

LEMMA ShapesHold ==
    ASSUME ExportInv
    PROVE  ExportTypeOK
<1>0. RowsTyped(db) /\ ReadingsArePast(clock, past) /\ StampsArePast(db, clock) /\ IdsAreUnique(db) /\ EndsAreThere(db)
  BY DEF ExportInv, Sound
<1>1. ASSUME NEW c \in db.corr PROVE Cardinality({k \in db.corr : k.target = c.target}) = 1
  <2>1. {k \in db.corr : k.target = c.target} = {c}
    BY <1>0 DEF EndsAreThere
  <2>2. QED BY <2>1, FS_Singleton
<1>2. \A r \in db.sess \cup db.mem \cup db.corr \cup db.tomb : r.at \in Nat
  BY <1>0 DEF RowsTyped, SessionRow, MemoryRow, CorrectionRow, TombRow
<1>3. clock \in 0 .. MaxClock
  BY <1>0, Limits DEF ReadingsArePast
<1>4. \A r \in db.sess \cup db.mem \cup db.corr \cup db.tomb : r.at \in 1 .. clock
  BY <1>0, <1>2, <1>3 DEF StampsArePast
<1>5. QED BY <1>0, <1>1, <1>3, <1>4 DEF ExportTypeOK, IdsAreUnique

LEMMA LineageTells ==
    ASSUME ExportInv
    PROVE  LineageTellsWhatIsCurrent
<1> SUFFICES ASSUME NEW cut \in past, NEW m \in Select(db, cut).mem
             PROVE  m.to # 0 <=> (\E c \in Select(db, cut).corr : c.target = Memory(m.id)) \/ m.till \in 1 .. cut
  BY DEF LineageTellsWhatIsCurrent
<1>0. RowsTyped(db) /\ ReadingsArePast(clock, past) /\ StampsArePast(db, clock) /\ CorrectionsClose(db, past)
  BY DEF ExportInv, Sound
<1>1. cut \in Nat
  BY <1>0 DEF ReadingsArePast
<1>2. Select(db, cut).corr = {c \in db.corr : c.at <= cut}
  BY CutTakesCorrections, SelectIs DEF Selected
<1>3. PICK q \in KeptMemories(db, cut) : m.id = q.id /\ m.to = AtCut(q.to, cut) /\ m.till = q.till
  BY <1>0, <1>1, ProjectedRows
<1>4. q \in db.mem /\ q.to \in Nat /\ q.till \in Nat
  BY <1>0, KeptIsTaken DEF RowsTyped, MemoryRow
<1>5. \A c \in db.corr : c.target = Memory(m.id) => c.at = q.to /\ 1 <= c.at /\ c.at \in Nat
  BY <1>0, <1>3, <1>4 DEF CorrectionsClose, StampsArePast, RowsTyped, CorrectionRow
<1>6. q.till # 0 => q.to = q.till
  BY <1>0, <1>4 DEF CorrectionsClose
<1>7. ASSUME m.to # 0, ~(m.till \in 1 .. cut) PROVE \E c \in Select(db, cut).corr : c.target = Memory(m.id)
  <2>1. q.to # 0 /\ q.to <= cut
    BY <1>3, <1>7 DEF AtCut
  <2>2. q.to # q.till
    BY <1>1, <1>3, <1>4, <1>7, <2>1
  <2>3. PICK c \in db.corr : c.target = Memory(m.id)
    BY <1>0, <1>3, <1>4, <2>1, <2>2 DEF CorrectionsClose
  <2>4. QED BY <1>2, <1>5, <2>1, <2>3
<1>8. ASSUME NEW c \in Select(db, cut).corr, c.target = Memory(m.id) PROVE m.to # 0
  BY <1>2, <1>3, <1>5, <1>8 DEF AtCut
<1>9. ASSUME m.till \in 1 .. cut PROVE m.to # 0
  BY <1>1, <1>3, <1>4, <1>6, <1>9 DEF AtCut
<1>10. QED BY <1>7, <1>8, <1>9

LEMMA GraphIsRebuilt ==
    ASSUME ExportInv
    PROVE  GraphFollowsEvents
<1>1. RowsTyped(db) /\ IdsAreUnique(db) /\ db.graph = GraphOf(db.mem)
  BY DEF ExportInv, Sound
<1>2. Rebuilt(db.mem, Said) = db.graph
  BY <1>1, MemoriesAreEvents, RebuiltIsGraph
<1>3. QED BY <1>2 DEF GraphFollowsEvents, RebuiltGraph

\* Mentions and evidence are of their memory and of its time.
LEMMA ObservationsAreOfMemories ==
    ASSUME NEW es, NEW r \in MentionsOf(es) \cup EvidencesOf(es)
    PROVE  \E e \in es : r.event = e.id /\ r.at = e.when
<1>1. CASE r \in MentionsOf(es)
  <2>1. PICK e \in es : \E x \in Said[e.id].entities : r = [event |-> e.id, entity |-> x, at |-> e.when]
    BY <1>1 DEF MentionsOf
  <2>2. QED BY <2>1
<1>2. CASE r \in EvidencesOf(es)
  <2>1. PICK e \in es : \E x \in Said[e.id].triples : r = [event |-> e.id, triple |-> x, at |-> e.when]
    BY <1>2 DEF EvidencesOf
  <2>2. QED BY <2>1
<1>3. QED BY <1>1, <1>2

\* The spans of all observations of some events are those of the events: what a
\* triple's evidence names was mentioned at that time.
LEMMA AllSpans ==
    ASSUME NEW es, Events(es)
    PROVE  SpansOf(MentionsOf(es), EvidencesOf(es)) = {Spanned(x, TimesOf(es, x)) : x \in EntitiesOf(es)}
<1> DEFINE mentions == MentionsOf(es)
           evidence == EvidencesOf(es)
           Times(x) == {m.at : m \in {m \in mentions : m.entity = x}}
                         \cup {r.at : r \in {r \in evidence : x \in Range(r.triple)}}
           seen == {m.entity : m \in mentions} \cup UNION {Range(r.triple) : r \in evidence}
<1>1. SpansOf(mentions, evidence) = {Spanned(x, Times(x)) : x \in seen}
  BY DEF SpansOf
<1>2. ASSUME NEW m \in mentions
      PROVE  \E e \in es : m.entity \in Said[e.id].entities /\ m.at = e.when
  <2>1. PICK e \in es : \E x \in Said[e.id].entities : m = [event |-> e.id, entity |-> x, at |-> e.when]
    BY DEF MentionsOf
  <2>2. QED BY <2>1
<1>3. ASSUME NEW r \in evidence, NEW x \in Range(r.triple)
      PROVE  \E e \in es : x \in Said[e.id].entities /\ r.at = e.when
  <2>1. PICK e \in es : \E t \in Said[e.id].triples : r = [event |-> e.id, triple |-> t, at |-> e.when]
    BY DEF EvidencesOf
  <2>2. PICK t \in Said[e.id].triples : r = [event |-> e.id, triple |-> t, at |-> e.when]
    BY <2>1
  <2>3. e.id \in 1 .. MaxMem /\ r.triple = t /\ r.at = e.when
    BY <2>2 DEF Events
  <2>4. QED BY <1>3, <2>2, <2>3, TextsAssumption
<1>4. ASSUME NEW e \in es, NEW x \in Said[e.id].entities
      PROVE  \E m \in mentions : m.entity = x /\ m.at = e.when
  <2>1. [event |-> e.id, entity |-> x, at |-> e.when] \in mentions
    BY DEF MentionsOf
  <2>2. QED BY <2>1
<1> HIDE DEF mentions, evidence
<1>5. seen = EntitiesOf(es)
  <2>1. \A x \in seen : x \in EntitiesOf(es)
    BY <1>2, <1>3 DEF EntitiesOf
  <2>2. ASSUME NEW x \in EntitiesOf(es) PROVE x \in seen
    <3>1. PICK e \in es : x \in Said[e.id].entities
      BY DEF EntitiesOf
    <3>2. PICK m \in mentions : m.entity = x
      BY <1>4, <3>1
    <3>3. QED BY <3>2
  <2> HIDE DEF seen
  <2>3. QED BY <2>1, <2>2
<1>6. ASSUME NEW x PROVE Times(x) = TimesOf(es, x)
  <2>1. ASSUME NEW a \in Times(x) PROVE a \in TimesOf(es, x)
    BY <1>2, <1>3 DEF TimesOf
  <2>2. ASSUME NEW a \in TimesOf(es, x) PROVE a \in Times(x)
    <3>1. PICK e \in es : x \in Said[e.id].entities /\ a = e.when
      BY DEF TimesOf
    <3>2. QED BY <1>4, <3>1
  <2>3. QED BY <2>1, <2>2
<1> HIDE DEF Times, seen
<1>7. {Spanned(x, Times(x)) : x \in seen} = {Spanned(x, TimesOf(es, x)) : x \in EntitiesOf(es)}
  BY <1>5, <1>6
<1>8. QED BY <1>1, <1>7 DEF mentions, evidence

\* The default cut is after every stamp that an export goes by.
LEMMA DefaultCutIsLast ==
    ASSUME ExportInv
    PROVE  DefaultCut(db) \in Nat /\ \A x \in Clocks(db) : x \in Nat /\ x <= DefaultCut(db)
<1>0. /\ RowsTyped(db) /\ ReadingsArePast(clock, past) /\ StampsArePast(db, clock) /\ IdsAreUnique(db)
      /\ db.graph = GraphOf(db.mem)
  BY DEF ExportInv, Sound
<1> DEFINE whens == {m.when : m \in db.mem}
           f == [m \in db.mem |-> m.when]
           S == {0} \cup Clocks(db)
<1>1. IsFiniteSet(0 .. clock \cup whens)
  <2>1. IsFiniteSet(db.mem)
    BY <1>0, MemoriesAreEvents DEF Events
  <2>2. f \in Surjection(db.mem, whens)
    BY DEF Surjection
  <2>3. IsFiniteSet(whens)
    BY <2>1, <2>2, FS_Surjection
  <2>4. IsFiniteSet(0 .. clock)
    BY <1>0, FS_Interval DEF ReadingsArePast
  <2>5. QED BY <2>3, <2>4, FS_Union
<1>2. \A r \in db.graph.mention \cup db.graph.evidence : r.at \in whens
  BY <1>0, ObservationsAreOfMemories DEF GraphOf
<1>3. /\ \A s \in db.sess : s.end \in 0 .. clock
      /\ \A r \in db.sess \cup db.mem \cup db.corr \cup db.tomb : r.at \in 0 .. clock
  BY <1>0 DEF RowsTyped, SessionRow, MemoryRow, CorrectionRow, TombRow, StampsArePast, ReadingsArePast
<1>4. \A m \in db.mem : m.when \in Nat
  BY <1>0 DEF RowsTyped, MemoryRow
<1>5. \A x \in Clocks(db) : x \in 0 .. clock \cup whens
  <2> HIDE DEF whens
  <2>1. QED BY <1>2, <1>3 DEF Clocks
<1>6. S \subseteq 0 .. clock \cup whens
  <2>1. 0 \in 0 .. clock
    BY <1>0 DEF ReadingsArePast
  <2>2. QED BY <1>5, <2>1
<1>7. IsFiniteSet(S)
  <2> HIDE DEF S, whens
  <2>1. QED BY ONLY <1>1, <1>6, FS_Subset
<1>8. S \subseteq Nat /\ S # {}
  BY <1>4, <1>6
<1>9. Max(S) \in S /\ \A y \in S : y <= Max(S)
  <2> HIDE DEF S
  <2>1. QED BY ONLY <1>7, <1>8, FiniteEnds
<1>10. DefaultCut(db) = Max(S)
  BY DEF DefaultCut
<1>11. \A x \in Clocks(db) : x \in S
  OBVIOUS
<1> HIDE DEF S
<1>12. QED BY <1>8, <1>9, <1>10, <1>11

LEMMA BackupIsWhole ==
    ASSUME ExportInv
    PROVE  BackupLosesNothing
<1> DEFINE cut == DefaultCut(db)
           b == Select(db, cut)
           mentions == KeptObservations(db.graph.mention, db, cut)
           evidence == KeptObservations(db.graph.evidence, db, cut)
<1>0. /\ RowsTyped(db) /\ IdsAreUnique(db) /\ EndsAreThere(db) /\ db.graph = GraphOf(db.mem)
  BY DEF ExportInv, Sound
<1>1. /\ cut \in Nat /\ \A s \in db.sess : s.end \in Nat /\ s.end <= cut
      /\ \A r \in db.sess \cup db.mem \cup db.corr \cup db.tomb \cup db.graph.mention \cup db.graph.evidence :
            r.at \in Nat /\ r.at <= cut
  BY DefaultCutIsLast DEF Clocks
<1> HIDE DEF cut
<1>2. /\ b.sess = KeptSessions(db, cut) /\ b.corr = KeptCorrections(db, cut) /\ b.tomb = KeptTombstones(db, cut)
      /\ b.mem = {[m EXCEPT !.to = AtCut(m.to, cut)] : m \in KeptMemories(db, cut)}
      /\ b.mention = mentions /\ b.evidence = evidence
      /\ b.entity = KeptEntities(db.graph, mentions, evidence)
  BY SelectIs
<1> HIDE DEF b
<1>3. b.sess = db.sess
  <2>1. \A s \in db.sess : [s EXCEPT !.end = AtCut(s.end, cut)] = s
    <3>1. \A s \in db.sess : AtCut(s.end, cut) = s.end
      BY <1>1 DEF AtCut
    <3>2. QED BY <1>0, <3>1 DEF RowsTyped, SessionRow
  <2>2. KeptSessions(db, cut) = {[s EXCEPT !.end = AtCut(s.end, cut)] : s \in db.sess}
    BY <1>1 DEF KeptSessions, Selected
  <2>3. QED BY ONLY <1>2, <2>1, <2>2
<1>4. KeptMemories(db, cut) = db.mem
  <2>1. \A c \in db.corr : ~(c.at > cut)
    BY <1>1
  <2>2. \A m \in db.mem : m.at <= cut
    BY <1>1
  <2>3. \A m : m \in KeptMemories(db, cut) <=> m \in db.mem
    BY ONLY <2>1, <2>2, KeptIsTaken
  <2>4. QED BY ONLY <2>3
<1>5. b.corr = db.corr
  <2>1. ASSUME NEW c \in db.corr, NEW e \in Ends(c), e.kind = "memory"
        PROVE  e \in {Memory(m.id) : m \in db.mem}
    <3>1. e \in {c.target, c.repl} /\ e # Nobody
      BY DEF Ends
    <3>2. e \in RowEnd
      BY <1>0, <3>1 DEF RowsTyped, CorrectionRow
    <3>3. e = Memory(e.id)
      BY <2>1, <3>2, EndsDiffer
    <3>4. PICK m \in db.mem : m.id = e.id
      BY <1>0, <2>1, <3>1 DEF EndsAreThere, IsRow
    <3>5. QED BY <3>3, <3>4
  <2>2. QED BY <1>1, <1>2, <1>4, <2>1 DEF KeptCorrections, Selected
<1>6. b.tomb = db.tomb
  <2>1. \A r \in db.tomb : \E c \in db.corr : Tombstone(r.id) \in Ends(c)
    BY <1>0, EndsDiffer DEF EndsAreThere, Ends
  <2>2. QED BY <1>2, <1>5, <2>1 DEF KeptTombstones
<1>7. mentions = MentionsOf(db.mem) /\ evidence = EvidencesOf(db.mem)
      /\ db.graph.mention = MentionsOf(db.mem) /\ db.graph.evidence = EvidencesOf(db.mem)
  <2>1. db.graph.mention = MentionsOf(db.mem) /\ db.graph.evidence = EvidencesOf(db.mem)
    BY <1>0 DEF GraphOf
  <2>2. \A r \in MentionsOf(db.mem) \cup EvidencesOf(db.mem) : r.at <= cut /\ r.event \in {m.id : m \in KeptMemories(db, cut)}
    BY <1>1, <1>4, <2>1, ObservationsAreOfMemories
  <2>3. QED BY <2>1, <2>2 DEF KeptObservations, Selected
<1>8. b.entity = db.graph.entity
  <2>1. Events(db.mem)
    BY <1>0, MemoriesAreEvents
  <2>2. KeptEntities(GraphOf(db.mem), mentions, evidence) = SpansOf(mentions, evidence)
    <3>1. (\A m \in mentions : m \in MentionsOf(db.mem)) /\ (\A r \in evidence : r \in EvidencesOf(db.mem))
      BY <1>7
    <3> HIDE DEF mentions, evidence
    <3>2. QED BY <2>1, <3>1, EntitiesFollowObservations
  <2>3. db.graph.entity = {Spanned(x, TimesOf(db.mem, x)) : x \in EntitiesOf(db.mem)}
    BY <1>0 DEF GraphOf
  <2> HIDE DEF mentions, evidence
  <2>4. QED BY <1>0, <1>2, <1>7, <2>1, <2>2, <2>3, AllSpans
<1>9. b.mem = {[m EXCEPT !.to = IF m.to > cut THEN 0 ELSE m.to] : m \in db.mem}
  <2>1. \A m \in db.mem : m.to \in Nat
    BY <1>0 DEF RowsTyped, MemoryRow
  <2>2. \A m \in db.mem : AtCut(m.to, cut) = IF m.to > cut THEN 0 ELSE m.to
    BY <1>1, <2>1 DEF AtCut
  <2>3. QED BY ONLY <1>2, <1>4, <2>2
<1>10. {[m EXCEPT !.to = IF m.to > cut THEN 0 ELSE m.to] : m \in db.mem} = {[m EXCEPT !.to = IF @ > cut THEN 0 ELSE @] : m \in db.mem}
  OBVIOUS
<1> HIDE DEF mentions, evidence
<1>11. QED BY <1>2, <1>3, <1>5, <1>6, <1>7, <1>8, <1>9, <1>10 DEF BackupLosesNothing, b, cut

-----------------------------------------------------------------------------
(* What a transaction that erases nothing leaves of the earlier cuts.       *)

\* A row closed after a cut is, at the cut, the row that was open.
LEMMA LaterRowsAreTheirs ==
    ASSUME NEW now \in Nat, NEW cut \in Nat, cut <= now
    PROVE  /\ \A x, s \in SessionRow : LaterSession(x, s, now) =>
                 s.at = x.at /\ [s EXCEPT !.end = AtCut(s.end, cut)] = [x EXCEPT !.end = AtCut(x.end, cut)]
           /\ \A m, q \in MemoryRow : LaterMemory(m, q, now) =>
                 /\ q.id = m.id /\ q.at = m.at
                 /\ [q EXCEPT !.to = AtCut(q.to, cut)] = [m EXCEPT !.to = AtCut(m.to, cut)]
<1>1. \A n \in Nat : now < n => AtCut(n, cut) = 0
  BY DEF AtCut
<1>2. AtCut(0, cut) = 0
  BY DEF AtCut
<1>3. ASSUME NEW x \in SessionRow, NEW s \in SessionRow, LaterSession(x, s, now), s # x
      PROVE  s.at = x.at /\ [s EXCEPT !.end = AtCut(s.end, cut)] = [x EXCEPT !.end = AtCut(x.end, cut)]
  <2>1. x.end = 0 /\ now < s.end /\ s = [x EXCEPT !.end = s.end] /\ s.end \in Nat
    BY <1>3 DEF LaterSession, SessionRow
  <2>2. AtCut(s.end, cut) = 0 /\ AtCut(x.end, cut) = 0
    BY <1>1, <1>2, <2>1
  <2>3. s.at = x.at /\ s.id = x.id /\ s.pred = x.pred
    BY <2>1 DEF SessionRow
  <2>4. [s EXCEPT !.end = 0] = [x EXCEPT !.end = 0]
    BY ONLY x \in SessionRow, s \in SessionRow, <2>3 DEF SessionRow
  <2>5. QED BY <2>2, <2>3, <2>4
<1>4. ASSUME NEW m \in MemoryRow, NEW q \in MemoryRow, LaterMemory(m, q, now), q # m
      PROVE  /\ q.id = m.id /\ q.at = m.at
             /\ [q EXCEPT !.to = AtCut(q.to, cut)] = [m EXCEPT !.to = AtCut(m.to, cut)]
  <2>1. m.to = 0 /\ now < q.to /\ q = [m EXCEPT !.to = q.to] /\ q.to \in Nat
    BY <1>4 DEF LaterMemory, MemoryRow
  <2>2. AtCut(q.to, cut) = 0 /\ AtCut(m.to, cut) = 0
    BY <1>1, <1>2, <2>1
  <2>3. q.id = m.id /\ q.at = m.at /\ q.sess = m.sess /\ q.when = m.when /\ q.till = m.till
    BY <2>1 DEF MemoryRow
  <2>4. [q EXCEPT !.to = 0] = [m EXCEPT !.to = 0]
    BY ONLY m \in MemoryRow, q \in MemoryRow, <2>3 DEF MemoryRow
  <2>5. QED BY <2>2, <2>3, <2>4
<1>5. QED BY <1>3, <1>4

\* The sessions of an earlier cut.
LEMMA EarlierSessionsStay ==
    ASSUME NEW d, NEW w, RowsTyped(d), RowsTyped(w), NEW now \in Nat, OnlyAdds(d, w, now),
           NEW cut \in Nat, cut <= now
    PROVE  KeptSessions(w, cut) = KeptSessions(d, cut)
<1> DEFINE shown(x) == [x EXCEPT !.end = AtCut(x.end, cut)]
<1>1. \A x \in d.sess \cup w.sess : x \in SessionRow /\ x.at \in Nat
  BY DEF RowsTyped, SessionRow
<1>2. \A x \in d.sess, s \in w.sess : LaterSession(x, s, now) => s.at = x.at /\ shown(s) = shown(x)
  BY <1>1, LaterRowsAreTheirs
<1>3. /\ KeptSessions(d, cut) = {shown(x) : x \in {x \in d.sess : x.at <= cut}}
      /\ KeptSessions(w, cut) = {shown(x) : x \in {x \in w.sess : x.at <= cut}}
  BY DEF KeptSessions, Selected
<1> HIDE DEF shown
<1>4. ASSUME NEW x \in d.sess, x.at <= cut PROVE \E s \in w.sess : s.at <= cut /\ shown(s) = shown(x)
  <2>1. PICK s \in w.sess : LaterSession(x, s, now)
    BY DEF OnlyAdds
  <2>2. QED BY <1>2, <1>4, <2>1
<1>5. ASSUME NEW s \in w.sess, s.at <= cut PROVE \E x \in d.sess : x.at <= cut /\ shown(s) = shown(x)
  <2>1. ~(now < s.at)
    BY <1>1, <1>5
  <2>2. PICK x \in d.sess : LaterSession(x, s, now)
    BY <2>1 DEF OnlyAdds
  <2>3. QED BY <1>2, <1>5, <2>2
<1>6. QED BY ONLY <1>3, <1>4, <1>5

\* The memories of an earlier cut: a later row for each, and no other.
LEMMA EarlierMemoriesStay ==
    ASSUME NEW d, NEW w, RowsTyped(d), RowsTyped(w), NEW now \in Nat, OnlyAdds(d, w, now),
           NEW cut \in Nat, cut <= now
    PROVE  /\ \A m \in KeptMemories(d, cut) : \E q \in KeptMemories(w, cut) : LaterMemory(m, q, now)
           /\ \A q \in KeptMemories(w, cut) : \E m \in KeptMemories(d, cut) : LaterMemory(m, q, now)
<1>1. /\ \A m \in d.mem \cup w.mem : m \in MemoryRow /\ m.at \in Nat
      /\ \A c \in d.corr \cup w.corr : c.at \in Nat
  BY DEF RowsTyped, MemoryRow, CorrectionRow
<1>2. \A m \in d.mem, q \in w.mem : LaterMemory(m, q, now) => q.id = m.id /\ q.at = m.at
  <2>1. \A m, q \in MemoryRow : LaterMemory(m, q, now) => q.id = m.id /\ q.at = m.at
    BY DEF LaterMemory, MemoryRow
  <2>2. QED BY ONLY <1>1, <2>1
<1>3. ASSUME NEW m \in KeptMemories(d, cut)
      PROVE  \E q \in KeptMemories(w, cut) : LaterMemory(m, q, now)
  <2>1. m \in d.mem /\ m.at <= cut /\ \A c \in d.corr : c.at > cut => c.repl # Memory(m.id)
    BY KeptIsTaken
  <2>2. PICK q \in w.mem : LaterMemory(m, q, now)
    BY <2>1 DEF OnlyAdds
  <2>3. q.id = m.id /\ q.at <= cut
    BY <1>2, <2>1, <2>2
  <2>4. \A c \in w.corr : c.at > cut => c.repl # Memory(q.id)
    BY <2>1, <2>3 DEF OnlyAdds
  <2>5. QED BY <2>2, <2>3, <2>4, KeptIsTaken
<1>4. ASSUME NEW q \in KeptMemories(w, cut)
      PROVE  \E m \in KeptMemories(d, cut) : LaterMemory(m, q, now)
  <2>1. q \in w.mem /\ q.at <= cut /\ \A c \in w.corr : c.at > cut => c.repl # Memory(q.id)
    BY KeptIsTaken
  <2>2. ~(now < q.at)
    BY <1>1, <2>1
  <2>3. \A c \in w.corr : now < c.at => c.at > cut
    BY <1>1
  <2>4. PICK m \in d.mem : LaterMemory(m, q, now)
    BY <2>1, <2>2, <2>3 DEF OnlyAdds
  <2>5. q.id = m.id /\ q.at = m.at
    BY <1>2, <2>1, <2>4
  <2>6. \A c \in d.corr : c.at > cut => c.repl # Memory(m.id)
    BY <2>1, <2>5 DEF OnlyAdds
  <2>7. QED BY <2>1, <2>4, <2>5, <2>6, KeptIsTaken
<1>5. QED BY <1>3, <1>4

\* The observations of a cut are what its memories said by then.
LEMMA ObservationsOfKept ==
    ASSUME NEW d, IdsAreUnique(d), NEW cut
    PROVE  /\ KeptObservations(MentionsOf(d.mem), d, cut) = {r \in MentionsOf(KeptMemories(d, cut)) : r.at <= cut}
           /\ KeptObservations(EvidencesOf(d.mem), d, cut) = {r \in EvidencesOf(KeptMemories(d, cut)) : r.at <= cut}
<1> DEFINE kept == KeptMemories(d, cut)
<1>1. \A m \in kept : m \in d.mem
  BY KeptIsTaken
<1>2. ASSUME NEW e \in d.mem, e.id \in {m.id : m \in kept} PROVE e \in kept
  BY <1>1, <1>2 DEF IdsAreUnique
<1> HIDE DEF kept
<1>3. ASSUME NEW r
      PROVE  r \in MentionsOf(d.mem) /\ r.event \in {m.id : m \in kept} <=> r \in MentionsOf(kept)
  <2>1. ASSUME r \in MentionsOf(d.mem), r.event \in {m.id : m \in kept} PROVE r \in MentionsOf(kept)
    <3>1. PICK e \in d.mem : \E x \in Said[e.id].entities : r = [event |-> e.id, entity |-> x, at |-> e.when]
      BY <2>1 DEF MentionsOf
    <3>2. e \in kept
      BY <1>2, <2>1, <3>1
    <3>3. QED BY <3>1, <3>2 DEF MentionsOf
  <2>2. ASSUME r \in MentionsOf(kept) PROVE r \in MentionsOf(d.mem) /\ r.event \in {m.id : m \in kept}
    <3>1. PICK e \in kept : \E x \in Said[e.id].entities : r = [event |-> e.id, entity |-> x, at |-> e.when]
      BY <2>2 DEF MentionsOf
    <3>2. QED BY <1>1, <3>1 DEF MentionsOf
  <2>3. QED BY <2>1, <2>2
<1>4. ASSUME NEW r
      PROVE  r \in EvidencesOf(d.mem) /\ r.event \in {m.id : m \in kept} <=> r \in EvidencesOf(kept)
  <2>1. ASSUME r \in EvidencesOf(d.mem), r.event \in {m.id : m \in kept} PROVE r \in EvidencesOf(kept)
    <3>1. PICK e \in d.mem : \E x \in Said[e.id].triples : r = [event |-> e.id, triple |-> x, at |-> e.when]
      BY <2>1 DEF EvidencesOf
    <3>2. e \in kept
      BY <1>2, <2>1, <3>1
    <3>3. QED BY <3>1, <3>2 DEF EvidencesOf
  <2>2. ASSUME r \in EvidencesOf(kept) PROVE r \in EvidencesOf(d.mem) /\ r.event \in {m.id : m \in kept}
    <3>1. PICK e \in kept : \E x \in Said[e.id].triples : r = [event |-> e.id, triple |-> x, at |-> e.when]
      BY <2>2 DEF EvidencesOf
    <3>2. QED BY <1>1, <3>1 DEF EvidencesOf
  <2>3. QED BY <2>1, <2>2
<1>5. QED BY <1>3, <1>4 DEF KeptObservations, Selected, kept

\* Events of the same ids and times say the same.
LEMMA SameObservations ==
    ASSUME NEW es, NEW fs,
           \A e \in es : \E f \in fs : f.id = e.id /\ f.when = e.when,
           \A f \in fs : \E e \in es : f.id = e.id /\ f.when = e.when
    PROVE  MentionsOf(es) = MentionsOf(fs) /\ EvidencesOf(es) = EvidencesOf(fs)
<1>1. ASSUME NEW e \in es
      PROVE  \E f \in fs : /\ {[event |-> e.id, entity |-> x, at |-> e.when] : x \in Said[e.id].entities}
                                = {[event |-> f.id, entity |-> x, at |-> f.when] : x \in Said[f.id].entities}
                           /\ {[event |-> e.id, triple |-> x, at |-> e.when] : x \in Said[e.id].triples}
                                = {[event |-> f.id, triple |-> x, at |-> f.when] : x \in Said[f.id].triples}
  OBVIOUS
<1>2. QED BY <1>1 DEF MentionsOf, EvidencesOf

\* An earlier cut shows the same, whatever was added or closed since.
LEMMA EarlierCutsStay ==
    ASSUME NEW d, NEW w, NEW now, NEW cuts, Sound(d, now, cuts), NEW later, NEW ends, Sound(w, later, ends),
           OnlyAdds(d, w, now), NEW cut \in cuts
    PROVE  Select(w, cut) = Select(d, cut)
<1>0. /\ RowsTyped(d) /\ RowsTyped(w) /\ IdsAreUnique(d) /\ IdsAreUnique(w)
      /\ d.graph = GraphOf(d.mem) /\ w.graph = GraphOf(w.mem)
      /\ now \in Nat /\ cut \in Nat /\ cut <= now
  BY DEF Sound, ReadingsArePast
<1> DEFINE shown(m) == [m EXCEPT !.to = AtCut(m.to, cut)]
<1>1. KeptSessions(w, cut) = KeptSessions(d, cut)
  BY <1>0, EarlierSessionsStay
<1>2. /\ \A m \in KeptMemories(d, cut) : m \in MemoryRow /\ m \in d.mem
      /\ \A q \in KeptMemories(w, cut) : q \in MemoryRow /\ q \in w.mem
  BY <1>0, KeptIsTaken DEF RowsTyped
<1>3. \A m \in KeptMemories(d, cut), q \in KeptMemories(w, cut) :
         LaterMemory(m, q, now) => q.id = m.id /\ q.when = m.when /\ shown(q) = shown(m)
  <2>1. ASSUME NEW m \in MemoryRow, NEW q \in MemoryRow, LaterMemory(m, q, now) PROVE q.when = m.when
    BY <2>1 DEF LaterMemory, MemoryRow
  <2>2. \A m, q \in MemoryRow : LaterMemory(m, q, now) => q.id = m.id /\ shown(q) = shown(m)
    BY <1>0, LaterRowsAreTheirs
  <2> HIDE DEF shown
  <2>3. QED BY ONLY <1>2, <2>1, <2>2
<1> HIDE DEF shown
<1>4. /\ \A m \in KeptMemories(d, cut) :
            \E q \in KeptMemories(w, cut) : q.id = m.id /\ q.when = m.when /\ shown(q) = shown(m)
      /\ \A q \in KeptMemories(w, cut) :
            \E m \in KeptMemories(d, cut) : q.id = m.id /\ q.when = m.when /\ shown(q) = shown(m)
  <2>1. /\ \A m \in KeptMemories(d, cut) : \E q \in KeptMemories(w, cut) : LaterMemory(m, q, now)
        /\ \A q \in KeptMemories(w, cut) : \E m \in KeptMemories(d, cut) : LaterMemory(m, q, now)
    BY <1>0, EarlierMemoriesStay
  <2>2. QED BY ONLY <1>3, <2>1
<1>5. {shown(m) : m \in KeptMemories(w, cut)} = {shown(m) : m \in KeptMemories(d, cut)}
  BY ONLY <1>4
<1>6. /\ {m.id : m \in KeptMemories(w, cut)} = {m.id : m \in KeptMemories(d, cut)}
      /\ {Memory(m.id) : m \in KeptMemories(w, cut)} = {Memory(m.id) : m \in KeptMemories(d, cut)}
  BY ONLY <1>4
<1>7. Selected(w.corr, cut) = Selected(d.corr, cut)
  <2>1. \A c \in w.corr : c.at \in Nat
    BY <1>0 DEF RowsTyped, CorrectionRow
  <2>2. QED BY <1>0, <2>1 DEF OnlyAdds, Selected
<1>8. KeptCorrections(w, cut) = KeptCorrections(d, cut)
  BY <1>6, <1>7 DEF KeptCorrections
<1>9. KeptTombstones(w, cut) = KeptTombstones(d, cut)
  BY <1>8 DEF KeptTombstones, OnlyAdds
<1>10. /\ KeptObservations(w.graph.mention, w, cut) = KeptObservations(d.graph.mention, d, cut)
       /\ KeptObservations(w.graph.evidence, w, cut) = KeptObservations(d.graph.evidence, d, cut)
  <2>1. MentionsOf(KeptMemories(w, cut)) = MentionsOf(KeptMemories(d, cut))
    BY <1>4, SameObservations
  <2>2. EvidencesOf(KeptMemories(w, cut)) = EvidencesOf(KeptMemories(d, cut))
    BY <1>4, SameObservations
  <2>3. /\ w.graph.mention = MentionsOf(w.mem) /\ w.graph.evidence = EvidencesOf(w.mem)
        /\ d.graph.mention = MentionsOf(d.mem) /\ d.graph.evidence = EvidencesOf(d.mem)
    BY <1>0 DEF GraphOf
  <2>4. QED BY <1>0, <2>1, <2>2, <2>3, ObservationsOfKept
<1> DEFINE mentions == KeptObservations(d.graph.mention, d, cut)
           evidence == KeptObservations(d.graph.evidence, d, cut)
<1>11. KeptEntities(w.graph, mentions, evidence) = KeptEntities(d.graph, mentions, evidence)
  <2>1. Events(d.mem) /\ Events(w.mem)
    BY <1>0, MemoriesAreEvents
  <2>2. /\ \A m \in mentions : m \in MentionsOf(d.mem)
        /\ \A r \in evidence : r \in EvidencesOf(d.mem)
    BY <1>0 DEF KeptObservations, Selected, GraphOf
  <2>3. /\ \A m \in mentions : m \in MentionsOf(w.mem)
        /\ \A r \in evidence : r \in EvidencesOf(w.mem)
    BY <1>0, <1>10 DEF KeptObservations, Selected, GraphOf
  <2> HIDE DEF mentions, evidence
  <2>4. KeptEntities(GraphOf(d.mem), mentions, evidence) = SpansOf(mentions, evidence)
    BY <2>1, <2>2, EntitiesFollowObservations
  <2>5. KeptEntities(GraphOf(w.mem), mentions, evidence) = SpansOf(mentions, evidence)
    BY <2>1, <2>3, EntitiesFollowObservations
  <2>6. QED BY <1>0, <2>4, <2>5
<1>12. /\ {[m EXCEPT !.to = AtCut(@, cut)] : m \in KeptMemories(w, cut)} = {shown(m) : m \in KeptMemories(w, cut)}
       /\ {[m EXCEPT !.to = AtCut(@, cut)] : m \in KeptMemories(d, cut)} = {shown(m) : m \in KeptMemories(d, cut)}
  BY DEF shown
<1>13. QED BY <1>1, <1>5, <1>8, <1>9, <1>10, <1>11, <1>12 DEF Select

\* What a step that keeps the past in its cuts leaves of them.
LEMMA StepKeepsCuts ==
    ASSUME ExportInv, [ExportNext]_exportVars, past \subseteq past', NEW cut \in past
    PROVE  Select(db', cut) = Select(db, cut)
<1>0. Sound(db, clock, past)
  BY DEF ExportInv
<1>1. ASSUME ExportInv', OnlyAdds(db, db', clock) PROVE Select(db', cut) = Select(db, cut)
  <2>1. Sound(db', clock', past')
    BY <1>1, NextInv
  <2>2. QED BY <1>0, <1>1, <2>1, EarlierCutsStay
<1>2. CASE RebuildGraph
  BY <1>2, RebuildKeeps
<1>3. ASSUME NEW s \in Sessions, NEW to \in Until, ObserveMemory(s, to)
      PROVE  Select(db', cut) = Select(db, cut)
  BY <1>1, <1>3, ObserveKeeps
<1>4. ASSUME NEW s \in SessIds(db), EndSession(s)
      PROVE  Select(db', cut) = Select(db, cut)
  BY <1>1, <1>4, EndSessionKeeps
<1>5. ASSUME NEW n \in MemIds(db), NEW s \in Sessions, NEW replaced \in BOOLEAN, NEW back \in BOOLEAN,
             ContradictMemory(n, s, replaced, back)
      PROVE  Select(db', cut) = Select(db, cut)
  BY <1>1, <1>5, CorrectionKeeps
<1>6. ASSUME NEW n \in MemIds(db), PurgeMemory(n) PROVE FALSE
  \* A purge forgets every earlier cut.
  <2>1. cut = clock + 1
    BY <1>6 DEF PurgeMemory
  <2>2. clock \in Nat /\ cut \in Nat /\ cut <= clock
    BY <1>0 DEF Sound, ReadingsArePast
  <2>3. QED BY <2>1, <2>2
<1>7. CASE UNCHANGED exportVars
  BY <1>7 DEF exportVars
<1>8. QED BY <1>2, <1>3, <1>4, <1>5, <1>6, <1>7 DEF ExportNext

-----------------------------------------------------------------------------
(* The properties of the runs, for every bound, text and time given.        *)

\* Shapes hold, every bundle at the cut of a commit imports, and no cut shows a
\* replacement without its correction, after any observations, corrections,
\* session ends, purges and rebuilds.
THEOREM BundlesStayWhole == ExportSpec => []BundlesAreWhole
<1>1. ExportInv => BundlesAreWhole
  <2>1. ExportInv => CommittedCutImports
    BY CutIsImportable DEF CommittedCutImports
  <2>2. QED BY <2>1, ShapesHold, ReplacementIsNotAlone DEF BundlesAreWhole
<1>2. QED BY <1>1, ExportInvariant, PTL

\* In a bundle at the cut of a commit a memory is closed exactly when the
\* bundle's lineage corrects it, or when it was observed with a valid_to that
\* the cut has passed.
THEOREM LineageStaysTold == ExportSpec => []LineageTellsWhatIsCurrent
<1>1. ExportInv => LineageTellsWhatIsCurrent
  BY LineageTells
<1>2. QED BY <1>1, ExportInvariant, PTL

\* An export without a cut of its own holds every row there is, a valid_to or an
\* event_time ahead of the clock included.
THEOREM BackupsLoseNothing == ExportSpec => []BackupLosesNothing
<1>1. ExportInv => BackupLosesNothing
  BY BackupIsWhole
<1>2. QED BY <1>1, ExportInvariant, PTL

\* The graph that observe and purge keep up to date row by row is the one that
\* rebuild_graph makes of the events that are left.
THEOREM GraphStaysWithEvents == ExportSpec => []GraphFollowsEvents
<1>1. ExportInv => GraphFollowsEvents
  BY GraphIsRebuilt
<1>2. QED BY <1>1, ExportInvariant, PTL

\* Nothing but a purge changes what an export at an earlier commit shows.
THEOREM CutsAreHistory == ExportSpec => CutIsHistory
<1>1. ExportInv /\ [ExportNext]_exportVars
        => [past \subseteq past' => \A c \in past : Select(db', c) = Select(db, c)]_exportVars
  BY StepKeepsCuts
<1>2. QED BY <1>1, ExportInvariant, PTL DEF ExportSpec, CutIsHistory

=============================================================================
