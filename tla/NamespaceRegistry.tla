-------------------------- MODULE NamespaceRegistry --------------------------
(***************************************************************************)
(* registry.db: which label names which memory database, which repository  *)
(* is bound to it, and the reversible record of every label migration.     *)
(*                                                                         *)
(* Registrations, alias retirement and the touch after every memory write   *)
(* are single BEGIN IMMEDIATE transactions.  A label migration and its undo *)
(* read a plan first and commit later, under the migration lock; of the     *)
(* registry's other writers only namespace retirement takes that lock, so   *)
(* the rest interleaves.                                                    *)
(*                                                                         *)
(* The four tables that describe namespaces are one record, reg, because a  *)
(* migration stores and compares its rows as a whole.  A stamp stands for   *)
(* created_at and updated_at, which have microseconds: every commit that    *)
(* changes the registry has its own, ver, and the digest of the registry's  *)
(* contents is therefore ver as well.  Ids made by new_id() are the stamp   *)
(* of the commit that made them.  Labels stand for their normalized form.   *)
(***************************************************************************)
EXTENDS FiniteSets, Naturals

CONSTANTS Label,    \* namespace labels; the database of a label is named by it
          Fork,     \* Fork[l][repository]: disambiguate_namespace_label
          Context,  \* repositories callers come from: [remote, path]
          Named,    \* those an operator names to a label migration
          Legacy,   \* pairs of labels that shared a file before identities
          MaxVer,   \* bound on the commits of the registry
          MaxMigration, \* bound on the migrations recorded
          None

NoRepo == [remote |-> None, path |-> None]

ASSUME ContextsNamed == NoRepo \notin Context /\ Named \subseteq Context /\ None \notin Label
ASSUME LegacyPairs == \A l, m \in Label : <<l, m>> \in Legacy => l # m
ASSUME ContextsShaped == \A ctx \in Context : ctx = [remote |-> ctx.remote, path |-> ctx.path]
ASSUME ForksAreLabels == Fork \in [Label -> [Context -> Label]]
ASSUME NoneIsNoStamp == None \notin Nat
ASSUME BoundsNat == MaxVer \in Nat /\ MaxMigration \in Nat

VARIABLES reg,        \* [identity, alias, binding, legacy]: sets of rows
          migration,  \* rows of namespace_migrations
          files,      \* labels whose database file exists
          job,        \* the operation that holds the migration lock, or None
          ver,        \* commits so far
          shared      \* namespaces somebody named for several repositories

vars == <<reg, migration, files, job, ver, shared>>

-----------------------------------------------------------------------------
(* Reading the tables.  t is a value of reg. *)

\* _identity_row: the namespace a label resolves to.
NsOf(t, l) ==
    IF \E a \in t.alias : a.label = l THEN (CHOOSE a \in t.alias : a.label = l).ns ELSE None

\* Faulty variant of Unused: the check reads the canonical labels only.
NotCanonical(t, l) == \A i \in t.identity : i.label # l

\* No namespace answers to the label.
Unused(t, l) == \A a \in t.alias : a.label # l

IdentityOf(t, ns) == CHOOSE i \in t.identity : i.ns = ns
Db(t, ns) == IdentityOf(t, ns).db
BindingsOf(t, ns) == {b \in t.binding : b.ns = ns}

\* _namespace_state: whole rows, their stamps included.
NsState(t, ns) ==
    [identity |-> IdentityOf(t, ns),
     aliases |-> {a \in t.alias : a.ns = ns},
     bindings |-> BindingsOf(t, ns),
     legacy |-> {r \in t.legacy : r.db = Db(t, ns)}]

\* _validate_unmapped_namespace_target: a new label may not name somebody
\* else's file.
PathFree(l, db) == l = db \/ l \notin files

Matches(b, ctx) ==
    \/ ctx.remote # None /\ b.remote = ctx.remote
    \/ ctx.path # None /\ b.path = ctx.path

\* The binding a registration looks up: by remote when there is one.
Known(t, ctx) ==
    {b \in t.binding : IF ctx.remote # None THEN b.remote = ctx.remote
                       ELSE ctx.path # None /\ b.path = ctx.path}

\* The unique indexes of repository_bindings allow both rows.
Apart(b, c) ==
    /\ b.remote = None \/ b.remote # c.remote
    /\ b.path = None \/ b.path # c.path

\* Faulty variant of Foreign: the publishing transaction trusts what inference saw.
NeverForeign(t, ns, ctx, explicit) == FALSE

\* _foreign_repository_owner.  Rows of namespaces older than the bindings are
\* projected into bindings when the registry opens, so only these own.
Foreign(t, ns, ctx, explicit) ==
    /\ ~explicit /\ ctx # NoRepo
    /\ BindingsOf(t, ns) # {}
    /\ \A b \in BindingsOf(t, ns) : ~Matches(b, ctx)

\* _bind_repository: its refusals, and the row it leaves.
CanBind(t, ns, ctx) ==
    LET found == {b \in t.binding : Matches(b, ctx)}
    IN  \A b, c \in found : b = c /\ b.ns = ns

\* Faulty variant of BindingRow: the remote is not recorded.
BindingRowOfPath(ns, l, ctx, now) ==
    [id |-> now, ns |-> ns, remote |-> None, path |-> ctx.path, label |-> l, at |-> now]

BindingRow(ns, l, ctx, now) ==
    [id |-> now, ns |-> ns, remote |-> ctx.remote, path |-> ctx.path, label |-> l, at |-> now]

Bind(t, ns, l, ctx, now) ==
    LET found == {b \in t.binding : Matches(b, ctx)}
        Moved(b) == [b EXCEPT !.path = IF ctx.path # None THEN ctx.path ELSE @,
                              !.label = l, !.at = now]
    IN  IF ctx = NoRepo THEN t
        ELSE IF found = {} THEN [t EXCEPT !.binding = @ \cup {BindingRow(ns, l, ctx, now)}]
        ELSE [t EXCEPT !.binding = (@ \ found) \cup {Moved(b) : b \in found}]

Stamp(t, ns, now) ==
    [t EXCEPT !.identity = {IF i.ns = ns THEN [i EXCEPT !.at = now] ELSE i : i \in @}]

StampLegacy(t, db, now) ==
    [t EXCEPT !.legacy = {IF r.db = db THEN [r EXCEPT !.at = now] ELSE r : r \in @}]

Alias(l, ns, canonical, source, now) ==
    [label |-> l, ns |-> ns, canonical |-> canonical, source |-> source, at |-> now]

-----------------------------------------------------------------------------
\* A registry nobody wrote to, or one projected from a legacy table that held
\* two labels of one file.
Init ==
    /\ \/ reg = [identity |-> {}, alias |-> {}, binding |-> {}, legacy |-> {}] /\ files = {}
       \/ \E l, m \in Label :
            /\ <<l, m>> \in Legacy
            /\ files = {l}
            /\ reg = [identity |-> {[ns |-> 0, label |-> l, db |-> l, at |-> 0]},
                      alias |-> {Alias(l, 0, TRUE, None, 0), Alias(m, 0, FALSE, None, 0)},
                      binding |-> {},
                      legacy |-> {[name |-> l, db |-> l, at |-> 0], [name |-> m, db |-> l, at |-> 0]}]
    /\ migration = {} /\ job = None /\ ver = 0 /\ shared = {}

Now == ver + 1
Commit == ver < MaxVer /\ ver' = Now

(* register_namespace: one attempt of _publish_namespace under one label. *)

\* The label resolves.  Without a repository nothing is written.
Reuse(l, ctx, explicit) ==
    LET ns == NsOf(reg, l)
        bound == Bind(Stamp(reg, ns, Now), ns, l, ctx, Now)
    IN  /\ ns # None /\ ctx # NoRepo
        /\ ~Foreign(reg, ns, ctx, explicit)
        /\ CanBind(reg, ns, ctx)
        /\ reg' = IF ctx.path # None THEN StampLegacy(bound, Db(reg, ns), Now) ELSE bound
        /\ shared' = IF explicit THEN shared \cup {ns} ELSE shared
        /\ Commit
        /\ UNCHANGED <<migration, files, job>>

\* A new label for the namespace the repository is bound to.
Attach(l, ctx, explicit) ==
    \E b \in Known(reg, ctx) :
        LET ns == b.ns
            named == [reg EXCEPT !.alias = @ \cup {Alias(l, ns, FALSE, None, Now)}]
            bound == Bind(Stamp(named, ns, Now), ns, l, ctx, Now)
        IN  /\ Unused(reg, l)
            /\ PathFree(l, Db(reg, ns))
            /\ ~Foreign(reg, ns, ctx, explicit)
            /\ CanBind(reg, ns, ctx)
            /\ reg' = IF ctx.path # None THEN StampLegacy(bound, Db(reg, ns), Now) ELSE bound
            /\ Commit
            /\ UNCHANGED <<migration, files, job, shared>>

\* A new namespace with a fresh database file.
Mint(l, ctx) ==
    LET ns == Now
        minted == [identity |-> reg.identity \cup {[ns |-> ns, label |-> l, db |-> l, at |-> Now]},
                   alias |-> reg.alias \cup {Alias(l, ns, TRUE, None, Now)},
                   binding |-> reg.binding,
                   legacy |-> reg.legacy \cup {[name |-> l, db |-> l, at |-> Now]}]
    IN  /\ Unused(reg, l) /\ Known(reg, ctx) = {}
        /\ l \notin files /\ \A i \in reg.identity : i.db # l
        /\ CanBind(reg, ns, ctx)
        /\ reg' = Bind(minted, ns, l, ctx, Now)
        /\ files' = files \cup {l}
        /\ Commit
        /\ UNCHANGED <<migration, job, shared>>

Publish(l, ctx, explicit) == Reuse(l, ctx, explicit) \/ Attach(l, ctx, explicit) \/ Mint(l, ctx)

OwnedElsewhere(l, ctx, explicit) ==
    NsOf(reg, l) # None /\ Foreign(reg, NsOf(reg, l), ctx, explicit)

\* A label another repository owns is forked once.  Which label inference
\* asked for does not matter: it read the registry before this transaction.
Register(l, ctx, explicit) ==
    \/ Publish(l, ctx, explicit)
    \/ OwnedElsewhere(l, ctx, explicit) /\ Fork[l][ctx] # l /\ Publish(Fork[l][ctx], ctx, explicit)

\* touch_namespace, after every observe, contradict and purge that committed.
Touch(ns) ==
    /\ reg' = StampLegacy(Stamp(reg, ns, Now), Db(reg, ns), Now)
    /\ Commit
    /\ UNCHANGED <<migration, files, job, shared>>

-----------------------------------------------------------------------------
(* Label migrations. *)

\* The repository a migration is recorded under: the caller's, or the
\* namespace's first binding, those with a remote first.
RepoKey(t, ns, ctx) ==
    LET bs == BindingsOf(t, ns)
        remote == {b \in bs : b.remote # None}
        First(s) == CHOOSE b \in s : \A c \in s : b.id <= c.id
    IN  IF ctx.remote # None THEN ctx.remote
        ELSE IF ctx.path # None THEN ctx.path
        ELSE IF remote # {} THEN First(remote).remote
        ELSE IF bs # {} THEN First(bs).path
        ELSE None

\* What a dry run checks before it returns a digest.
CanPlan(t, old, new, ctx) ==
    LET ns == NsOf(t, old)
    IN  /\ ns # None
        /\ NsOf(t, new) \in {None, ns}
        /\ NsOf(t, new) = None => PathFree(new, Db(t, ns))
        /\ \A b \in t.binding : Matches(b, ctx) => b.ns = ns

\* Faulty variant of Renamed: the old canonical row keeps its mark.
RenamedBeside(as, ns, old, new) ==
    {[a EXCEPT !.canonical = @ \/ a.label = new,
               !.source = IF a.label \in {old, new} THEN None ELSE @] : a \in as}

\* The alias rows after a migration of ns from old to new.
Renamed(as, ns, old, new) ==
    {[a EXCEPT !.canonical = IF a.label = new THEN TRUE ELSE IF a.ns = ns THEN FALSE ELSE @,
               !.source = IF a.label \in {old, new} THEN None ELSE @] : a \in as}

\* The compatibility rows: the previous canonical name is renamed, or dropped
\* when the file has a row of the new name already.
RenamedLegacy(rows, db, prev, new, now) ==
    LET there == \E r \in rows : r.db = db /\ r.name = new
        gone == {r \in rows : r.db = db /\ r.name = prev}
    IN  (rows \ gone) \cup
        IF there THEN {} ELSE {[r EXCEPT !.name = new, !.at = now] : r \in gone}

Relabelled(t, ns, action, old, new, ctx, now) ==
    LET prev == IdentityOf(t, ns).label
        source == IF action = "alias" /\ old # new THEN old ELSE None
        added == IF NsOf(t, new) = None THEN {Alias(new, ns, FALSE, source, now)} ELSE {}
        named == [t EXCEPT !.alias = @ \cup added]
        renamed ==
            [identity |-> {IF i.ns = ns THEN [i EXCEPT !.label = new, !.at = now] ELSE i
                             : i \in named.identity},
             alias |-> Renamed(named.alias, ns, old, new),
             binding |-> {IF b.ns = ns /\ b.label \in {old, prev}
                          THEN [b EXCEPT !.label = new, !.at = now] ELSE b : b \in named.binding},
             legacy |-> RenamedLegacy(named.legacy, Db(t, ns), prev, new, now)]
    IN  Bind(IF action = "rename" THEN renamed ELSE named, ns, new, ctx, now)

\* A migration of the same action, labels and repository is recorded once;
\* asking again replays the record, which changes nothing.
Recorded(ns, action, old, new, repo) ==
    \E m \in migration : <<m.ns, m.action, m.old, m.new, m.repo>> = <<ns, action, old, new, repo>>

\* change_namespace_label --apply or undo_namespace_migration --apply with the
\* digest of a dry run of this state, up to its backup.  What it asks for is
\* chosen when it commits, for it commits in the state it planned in.  A call
\* with another digest is a replay or is refused, and changes nothing.
Begin ==
    /\ job = None /\ ver < MaxVer
    /\ job' = [kind |-> "migrate", at |-> ver]
    /\ UNCHANGED <<reg, migration, files, ver, shared>>

\* The state the plan saw is still the state.
NoDrift == job # None /\ job.kind = "migrate" /\ ver = job.at

CommitChange(action, old, new, ctx) ==
    /\ NoDrift /\ Cardinality(migration) < MaxMigration
    /\ CanPlan(reg, old, new, ctx)
    /\ LET ns == NsOf(reg, old)
           repo == RepoKey(reg, ns, ctx)
           after == Relabelled(reg, ns, action, old, new, ctx, Now)
       IN  /\ ~Recorded(ns, action, old, new, repo)
           /\ CanBind(reg, ns, ctx)
           /\ reg' = after
           /\ migration' = migration \cup
                {[id |-> Now, ns |-> ns, action |-> action, old |-> old, new |-> new, repo |-> repo,
                  before |-> NsState(reg, ns), after |-> NsState(after, ns), undone |-> 0]}
           /\ shared' = IF ctx # NoRepo THEN shared \cup {ns} ELSE shared
    /\ job' = None
    /\ Commit
    /\ UNCHANGED files

\* Faulty variant of Undoable: the recorded state is not compared.
UndoableOnce(m) == m.undone = 0

\* _plan_namespace_undo_read_only of a migration not undone yet.
Undoable(m) == m.undone = 0 /\ NsState(reg, m.ns) = m.after

\* _restore_namespace_state
Restored(t, ns, state) ==
    [identity |-> {i \in t.identity : i.ns # ns} \cup {state.identity},
     alias |-> {a \in t.alias : a.ns # ns} \cup state.aliases,
     binding |-> {b \in t.binding : b.ns # ns} \cup state.bindings,
     legacy |-> {r \in t.legacy : r.db # Db(t, ns)} \cup state.legacy]

\* Faulty variant of Restorable: the indexes let every binding back in.
AlwaysRestorable(t, ns, state) == TRUE

\* The recorded bindings go back in, unless another namespace has been bound to
\* one of their repositories since: the unique indexes then refuse the INSERT,
\* which the dry run did not foresee.
Restorable(t, ns, state) ==
    \A b \in state.bindings, c \in t.binding : c.ns # ns => Apart(b, c)

CommitUndo(m) ==
    /\ NoDrift /\ Undoable(m)
    /\ Restorable(reg, m.ns, m.before)
    /\ reg' = Restored(reg, m.ns, m.before)
    /\ migration' = (migration \ {m}) \cup {[m EXCEPT !.undone = Now]}
    /\ job' = None
    /\ Commit
    /\ UNCHANGED <<files, shared>>

\* Drift, a failed backup, a constraint or a crash: the transaction rolls back and the lock
\* goes with the process.
Abandon ==
    /\ job # None /\ job.kind = "migrate"
    /\ job' = None
    /\ UNCHANGED <<reg, migration, files, ver, shared>>

-----------------------------------------------------------------------------
\* Faulty variants of Blocked: the bindings, or the dependent aliases, are not asked.
BlockedByAliases(a) == a.canonical \/ \E d \in reg.alias : d.source = a.label
BlockedByBindings(a) == a.canonical \/ \E b \in BindingsOf(reg, a.ns) : b.label = a.label

\* retire_namespace_alias: what keeps an alias in place.
Blocked(a) ==
    \/ a.canonical
    \/ \E b \in BindingsOf(reg, a.ns) : b.label = a.label
    \/ \E d \in reg.alias : d.source = a.label

\* Faulty variant of LegacyRows: the compatibility row stays.
NoLegacyRows(a) == {}

LegacyRows(a) == {r \in reg.legacy : r.name = a.label /\ r.db = Db(reg, a.ns)}

RetireAlias(a) ==
    /\ ~Blocked(a)
    /\ reg' = [reg EXCEPT !.alias = @ \ {a},
                          !.legacy = @ \ LegacyRows(a)]
    /\ Commit
    /\ UNCHANGED <<migration, files, job, shared>>

\* retire_namespace of a namespace another one holds every row of: the rows
\* go in one transaction, the file afterwards, all under the migration lock.
\* The foreign key of namespace_migrations refuses a namespace with history.
RetireNamespace(ns) ==
    LET labels == {a.label : a \in {a \in reg.alias : a.ns = ns}}
    IN  /\ job = None
        /\ \E other \in reg.identity : other.ns # ns
        /\ \A a \in reg.alias : a.ns # ns => a.source \notin labels
        /\ \A m \in migration : m.ns # ns
        /\ reg' = [identity |-> {i \in reg.identity : i.ns # ns},
                   alias |-> {a \in reg.alias : a.ns # ns},
                   binding |-> {b \in reg.binding : b.ns # ns},
                   legacy |-> {r \in reg.legacy : r.db # Db(reg, ns)}]
        /\ job' = [kind |-> "retire", db |-> Db(reg, ns), at |-> Now]
        /\ Commit
        /\ UNCHANGED <<migration, files, shared>>

\* A file that took a write in the meantime stays.
FinishRetire ==
    /\ job # None /\ job.kind = "retire"
    /\ files' \in {files, files \ {job.db}}
    /\ job' = None
    /\ UNCHANGED <<reg, migration, ver, shared>>

Next ==
    \/ \E l \in Label, ctx \in Context \cup {NoRepo}, explicit \in BOOLEAN : Register(l, ctx, explicit)
    \/ \E i \in reg.identity : Touch(i.ns)
    \/ Begin
    \/ \E action \in {"alias", "rename"}, old, new \in Label, ctx \in Named \cup {NoRepo} :
            CommitChange(action, old, new, ctx)
    \/ \E m \in migration : CommitUndo(m)
    \/ Abandon
    \/ \E a \in reg.alias : RetireAlias(a)
    \/ \E i \in reg.identity : RetireNamespace(i.ns)
    \/ FinishRetire

Spec == Init /\ [][Next]_vars

-----------------------------------------------------------------------------
(* Properties *)

\* Every row keeps its shape, and labels, paths and stamps their range.
TypeOK ==
    /\ \A i \in reg.identity : i.label \in Label /\ i.db \in files /\ i.ns <= ver /\ i.at <= ver
    /\ \A a \in reg.alias : a.label \in Label /\ a.canonical \in BOOLEAN /\ a.source \in Label \cup {None}
    /\ \A b \in reg.binding : b.id <= ver /\ [remote |-> b.remote, path |-> b.path] # NoRepo
    /\ \A m \in migration : m.id \in 1..ver /\ m.undone \in 0..ver
    /\ ver \in 0..MaxVer /\ shared \subseteq 0..ver

\* Alias resolution is unique: a label has one row, each row leads to one
\* identity, an identity has exactly one canonical row and it carries the
\* identity's own label, and no two identities share a database.
LabelsResolve ==
    /\ \A a, b \in reg.alias : a.label = b.label => a = b
    /\ \A a \in reg.alias : \E i \in reg.identity : i.ns = a.ns
    /\ \A i \in reg.identity : {a.label : a \in {a \in reg.alias : a.ns = i.ns /\ a.canonical}} = {i.label}
    /\ \A i, j \in reg.identity : i.ns = j.ns \/ i.db = j.db => i = j

\* A binding names a repository nobody else is bound to, under a label that
\* still resolves to the binding's namespace: across renames, undo and alias
\* retirement no binding is left with a dead label.
BindingsResolve ==
    /\ \A b, c \in reg.binding : b = c \/ Apart(b, c)
    /\ \A b \in reg.binding : NsOf(reg, b.label) = b.ns

\* An alias that was derived from another one keeps it alive, in its own
\* namespace.
SourcesResolve == \A a \in reg.alias : a.source # None => NsOf(reg, a.source) = a.ns

\* Every compatibility row is projected: its name is an alias of the identity
\* that owns its file.  Opening the registry adds a missing projection, so a
\* row left behind would bring a retired alias back.
LegacyProjected ==
    \A r \in reg.legacy :
        \E i \in reg.identity : i.db = r.db /\ NsOf(reg, r.name) = i.ns

\* Two repositories share a namespace only when somebody named it for both:
\* however registrations race, a derived label forks instead.
OneOwner ==
    \A i \in reg.identity : i.ns \notin shared => Cardinality(BindingsOf(reg, i.ns)) <= 1

\* Undo removes only rows its migration left and brings back only rows that
\* it replaced: nothing another caller wrote since is lost, and no alias that
\* was retired since comes back.
UndoLosesNothing ==
    [][\A m \in migration : m.undone = 0 /\ m \notin migration' =>
            /\ reg.alias \ reg'.alias \subseteq m.after.aliases \ m.before.aliases
            /\ reg.binding \ reg'.binding \subseteq m.after.bindings \ m.before.bindings
            /\ reg.legacy \ reg'.legacy \subseteq m.after.legacy \ m.before.legacy
            /\ reg'.alias \ reg.alias \subseteq m.before.aliases \ m.after.aliases]_vars

\* No step moves a label from one namespace to another; it must be retired
\* first.
LabelsNeverRepoint ==
    [][\A x \in reg.alias, y \in reg'.alias : x.label = y.label => x.ns = y.ns]_vars

\* Rows as the contract lists them, without the stamps.
Labels(state) ==
    [canonical |-> state.identity.label,
     aliases |-> {<<a.label, a.canonical, a.source>> : a \in state.aliases},
     bindings |-> {<<b.remote, b.path, b.label>> : b \in state.bindings},
     legacy |-> {r.name : r \in state.legacy}]

\* MEMORY_CONTRACT.md section 5: undo refuses when an alias was retired or an
\* affected canonical, alias, legacy-label or binding state changed.  A
\* namespace whose labels are as the migration left them can be undone.
UndoRefusesOnlyDrift ==
    \A m \in migration :
        m.undone = 0 /\ Labels(NsState(reg, m.ns)) = Labels(m.after) => Undoable(m)

\* The comment of init_registry: the legacy table remains the compatibility
\* view.  Every namespace has a row in it.
CompatibilityRow == \A i \in reg.identity : \E r \in reg.legacy : r.db = i.db

\* The registry between any two transactions: shapes, and every label, binding,
\* source and compatibility row leads to the one identity it should.
RegistryResolves ==
    TypeOK /\ LabelsResolve /\ BindingsResolve /\ SourcesResolve /\ LegacyProjected
=============================================================================
