----------------------- MODULE NamespaceRegistryProofs ------------------------
(***************************************************************************)
(* Proofs about NamespaceRegistry for every set of labels and repositories  *)
(* and for any bound on commits and migrations.                             *)
(*                                                                         *)
(* The four tables are one value, so what a transaction leaves of them is   *)
(* said once, as Sound, of a value t: the first lemmas show that every      *)
(* operator the transactions are built from takes a sound value to a sound  *)
(* one.  An undo puts recorded rows back, so the invariant also says what   *)
(* every record of a migration is worth: a sound piece of a registry, of a  *)
(* namespace that is still there, under labels that namespace has kept.     *)
(***************************************************************************)
EXTENDS NamespaceRegistry, FiniteSetTheorems, TLAPS

-----------------------------------------------------------------------------
(* Soundness of the tables.                                                 *)

Remotes == {ctx.remote : ctx \in Context} \cup {None}
Paths == {ctx.path : ctx \in Context} \cup {None}

\* Rows whose stamps and ids are of the first v commits.
IdentityRows(v) == [ns : 0..v, label : Label, db : Label, at : 0..v]
AliasRows(v) == [label : Label, ns : 0..v, canonical : BOOLEAN, source : Label \cup {None}, at : 0..v]
BindingRows(v) == [id : 0..v, ns : 0..v, remote : Remotes, path : Paths, label : Label, at : 0..v]
NameRows(v) == [name : Label, db : Label, at : 0..v]

Tables(v) ==
    [identity : SUBSET IdentityRows(v), alias : SUBSET AliasRows(v),
     binding : SUBSET BindingRows(v), legacy : SUBSET NameRows(v)]

HasAlias(t, l, ns) == \E a \in t.alias : a.label = l /\ a.ns = ns

IdentitiesDistinct(t) == \A i, j \in t.identity : i.ns = j.ns \/ i.db = j.db => i = j

AliasesResolve(t) ==
    /\ \A a, b \in t.alias : a.label = b.label => a = b
    /\ \A a \in t.alias : \E i \in t.identity : i.ns = a.ns
    /\ \A a \in t.alias : a.source # None => HasAlias(t, a.source, a.ns)

CanonicalIsOne(t) ==
    \A i \in t.identity :
        /\ HasAlias(t, i.label, i.ns)
        /\ \A a \in t.alias : a.ns = i.ns => (a.canonical <=> a.label = i.label)

BindingsDistinct(t) ==
    /\ \A b \in t.binding : b.remote # None \/ b.path # None
    /\ \A b, c \in t.binding : b = c \/ Apart(b, c)
    /\ \A b \in t.binding : HasAlias(t, b.label, b.ns)

NamesProjected(t) ==
    \A r \in t.legacy : \E i \in t.identity : i.db = r.db /\ HasAlias(t, r.name, i.ns)

Sound(t, v) ==
    /\ t \in Tables(v)
    /\ IdentitiesDistinct(t)
    /\ AliasesResolve(t)
    /\ CanonicalIsOne(t)
    /\ BindingsDistinct(t)
    /\ NamesProjected(t)

\* A label leads to the namespace of its row, and to None when it has none.
LEMMA NsOfResolves ==
    ASSUME NEW v \in Nat, NEW t, Sound(t, v), NEW l
    PROVE  /\ NsOf(t, l) # None => HasAlias(t, l, NsOf(t, l)) /\ NsOf(t, l) \in 0..v
           /\ \A ns : HasAlias(t, l, ns) => NsOf(t, l) = ns /\ ns \in 0..v /\ ns # None
           /\ NsOf(t, l) = None <=> Unused(t, l)
<1>1. \A a \in t.alias : a.ns \in 0..v /\ a.ns # None
  BY NoneIsNoStamp DEF Sound, Tables, AliasRows
<1>2. \A a, b \in t.alias : a.label = b.label => a = b
  BY DEF Sound, AliasesResolve
<1>3. CASE \E a \in t.alias : a.label = l
  <2>1. PICK a \in t.alias : a.label = l
    BY <1>3
  <2>2. (CHOOSE b \in t.alias : b.label = l) = a
    BY <1>2, <2>1
  <2>3. NsOf(t, l) = a.ns
    BY <2>1, <2>2 DEF NsOf
  <2>4. QED BY <1>1, <1>2, <2>1, <2>3 DEF HasAlias, Unused
<1>4. CASE ~\E a \in t.alias : a.label = l
  BY <1>4 DEF NsOf, HasAlias, Unused
<1>5. QED BY <1>3, <1>4

\* An identity is found by its namespace.
LEMMA IdentityResolves ==
    ASSUME NEW v \in Nat, NEW t, Sound(t, v), NEW i \in t.identity
    PROVE  IdentityOf(t, i.ns) = i /\ Db(t, i.ns) = i.db
  BY DEF Sound, IdentitiesDistinct, IdentityOf, Db

\* What was sound is sound after more commits.
LEMMA SoundLater ==
    ASSUME NEW v \in Nat, NEW t, Sound(t, v)
    PROVE  Sound(t, v + 1)
<1>1. 0..v \subseteq 0..(v + 1)
  OBVIOUS
<1>2. Tables(v) \subseteq Tables(v + 1)
  BY <1>1 DEF Tables, IdentityRows, AliasRows, BindingRows, NameRows
<1>3. QED BY <1>2 DEF Sound

-----------------------------------------------------------------------------
(* What the operators of the transactions keep.                             *)

\* The namespaces of t and their files are those of u.
SameFiles(t, u) ==
    /\ \A i \in t.identity : \E j \in u.identity : j.ns = i.ns /\ j.db = i.db
    /\ \A j \in u.identity : \E i \in t.identity : i.ns = j.ns /\ i.db = j.db

\* Labels of t are labels of u, and mean the same there.
SameLabels(t, u) == \A a \in t.alias : HasAlias(u, a.label, a.ns)

\* A namespace nobody named for a second repository is bound to one.
OneEach(t, common) == \A b, c \in t.binding : b.ns = c.ns /\ b.ns \notin common => b = c

\* A caller comes from a repository with a remote, a path or both, or from none.
LEMMA Contexts ==
    ASSUME NEW ctx \in Context \cup {NoRepo}
    PROVE  /\ ctx.remote \in Remotes /\ ctx.path \in Paths
           /\ ctx # NoRepo <=> ctx.remote # None \/ ctx.path # None
<1>1. CASE ctx \in Context
  BY <1>1, ContextsNamed, ContextsShaped DEF Remotes, Paths, NoRepo
<1>2. CASE ctx = NoRepo
  BY <1>2 DEF Remotes, Paths, NoRepo
<1>3. QED BY <1>1, <1>2

\* Stamping an identity changes its stamp.
LEMMA StampIsSound ==
    ASSUME NEW v \in Nat, NEW t, Sound(t, v), NEW now \in 0..v, NEW ns
    PROVE  /\ Sound(Stamp(t, ns, now), v)
           /\ SameFiles(t, Stamp(t, ns, now))
           /\ Stamp(t, ns, now).alias = t.alias
           /\ Stamp(t, ns, now).binding = t.binding
           /\ Stamp(t, ns, now).legacy = t.legacy
<1> DEFINE u == Stamp(t, ns, now)
           Put(i) == IF i.ns = ns THEN [i EXCEPT !.at = now] ELSE i
<1>1. t \in Tables(v)
  BY DEF Sound
<1>2. /\ u = [t EXCEPT !.identity = {Put(i) : i \in t.identity}]
      /\ u.alias = t.alias /\ u.binding = t.binding /\ u.legacy = t.legacy
      /\ u.identity = {Put(i) : i \in t.identity}
  BY <1>1 DEF Stamp, Tables
<1>3. \A i \in t.identity : /\ Put(i) \in IdentityRows(v)
                            /\ Put(i).ns = i.ns /\ Put(i).db = i.db /\ Put(i).label = i.label
  BY <1>1 DEF Tables, IdentityRows
<1> HIDE DEF Put, u
<1>4. u \in Tables(v)
  BY <1>1, <1>2, <1>3 DEF Tables
<1>5. IdentitiesDistinct(u)
  BY <1>2, <1>3 DEF Sound, IdentitiesDistinct
<1>6. AliasesResolve(u)
  BY <1>2, <1>3 DEF Sound, AliasesResolve, HasAlias
<1>7. CanonicalIsOne(u)
  BY <1>2, <1>3 DEF Sound, CanonicalIsOne, HasAlias
<1>8. BindingsDistinct(u)
  BY <1>2 DEF Sound, BindingsDistinct, HasAlias
<1>9. NamesProjected(u)
  BY <1>2, <1>3 DEF Sound, NamesProjected, HasAlias
<1>10. SameFiles(t, u)
  BY <1>2, <1>3 DEF SameFiles
<1>11. QED BY <1>2, <1>4, <1>5, <1>6, <1>7, <1>8, <1>9, <1>10 DEF Sound, u

\* So does stamping the compatibility rows of a file.
LEMMA StampLegacyIsSound ==
    ASSUME NEW v \in Nat, NEW t, Sound(t, v), NEW now \in 0..v, NEW db
    PROVE  /\ Sound(StampLegacy(t, db, now), v)
           /\ StampLegacy(t, db, now).identity = t.identity
           /\ StampLegacy(t, db, now).alias = t.alias
           /\ StampLegacy(t, db, now).binding = t.binding
<1> DEFINE u == StampLegacy(t, db, now)
           Put(r) == IF r.db = db THEN [r EXCEPT !.at = now] ELSE r
<1>1. t \in Tables(v)
  BY DEF Sound
<1>2. /\ u = [t EXCEPT !.legacy = {Put(r) : r \in t.legacy}]
      /\ u.alias = t.alias /\ u.binding = t.binding /\ u.identity = t.identity
      /\ u.legacy = {Put(r) : r \in t.legacy}
  BY <1>1 DEF StampLegacy, Tables
<1>3. \A r \in t.legacy : Put(r) \in NameRows(v) /\ Put(r).name = r.name /\ Put(r).db = r.db
  BY <1>1 DEF Tables, NameRows
<1> HIDE DEF Put, u
<1>4. u \in Tables(v)
  BY <1>1, <1>2, <1>3 DEF Tables
<1>5. IdentitiesDistinct(u) /\ AliasesResolve(u) /\ CanonicalIsOne(u) /\ BindingsDistinct(u)
  BY <1>2 DEF Sound, IdentitiesDistinct, AliasesResolve, CanonicalIsOne, BindingsDistinct, HasAlias
<1>6. NamesProjected(u)
  BY <1>2, <1>3 DEF Sound, NamesProjected, HasAlias
<1>7. QED BY <1>2, <1>4, <1>5, <1>6 DEF Sound, u

\* _bind_repository: what it refuses keeps every repository with one row.
LEMMA BindIsSound ==
    ASSUME NEW v \in Nat, NEW t, Sound(t, v), NEW now \in 0..v, NEW ns, NEW l,
           NEW ctx \in Context \cup {NoRepo}, HasAlias(t, l, ns), CanBind(t, ns, ctx)
    PROVE  /\ Sound(Bind(t, ns, l, ctx, now), v)
           /\ Bind(t, ns, l, ctx, now).identity = t.identity
           /\ Bind(t, ns, l, ctx, now).alias = t.alias
           /\ Bind(t, ns, l, ctx, now).legacy = t.legacy
<1> DEFINE u == Bind(t, ns, l, ctx, now)
           found == {b \in t.binding : Matches(b, ctx)}
           Put(b) == [b EXCEPT !.path = IF ctx.path # None THEN ctx.path ELSE @,
                               !.label = l, !.at = now]
           row == BindingRow(ns, l, ctx, now)
<1>1. /\ t \in Tables(v) /\ t.binding \subseteq BindingRows(v)
      /\ \A b \in t.binding : b.remote # None \/ b.path # None
      /\ \A b, c \in t.binding : b = c \/ Apart(b, c)
      /\ \A b \in t.binding : HasAlias(t, b.label, b.ns)
  BY DEF Sound, Tables, BindingsDistinct
<1>2. l \in Label /\ ns \in 0..v
  BY <1>1 DEF HasAlias, Tables, AliasRows
<1>3. CASE ctx = NoRepo
  <2>1. u = t
    BY <1>3 DEF Bind
  <2>2. QED BY <2>1
<1>4. CASE ctx # NoRepo
  <2>1. ctx.remote \in Remotes /\ ctx.path \in Paths /\ (ctx.remote # None \/ ctx.path # None)
    BY <1>4, Contexts
  <2>2. \A b, c \in found : b = c /\ b.ns = ns
    BY DEF CanBind
  <2>3. \E rows \in SUBSET BindingRows(v) :
          /\ u = [t EXCEPT !.binding = rows]
          /\ \A b \in rows : b.remote # None \/ b.path # None
          /\ \A b, c \in rows : b = c \/ Apart(b, c)
          /\ \A b \in rows : HasAlias(t, b.label, b.ns)
    <3>1. CASE found = {}
      <4>1. u = [t EXCEPT !.binding = t.binding \cup {row}]
        BY <1>4, <3>1 DEF Bind
      <4>2. row \in BindingRows(v)
        BY <1>2, <2>1 DEF BindingRow, BindingRows
      <4>3. row.remote = ctx.remote /\ row.path = ctx.path /\ row.label = l /\ row.ns = ns
        BY DEF BindingRow
      <4>4. \A b \in t.binding : Apart(b, row) /\ Apart(row, b)
        BY <3>1, <4>3 DEF Matches, Apart
      <4> HIDE DEF u, row
      <4>5. t.binding \cup {row} \in SUBSET BindingRows(v)
        BY <1>1, <4>2
      <4>6. \A b, c \in t.binding \cup {row} : b = c \/ Apart(b, c)
        BY <1>1, <4>4
      <4>7. \A b \in t.binding \cup {row} : HasAlias(t, b.label, b.ns) /\ (b.remote # None \/ b.path # None)
        BY <1>1, <2>1, <4>3
      <4>8. QED BY <4>1, <4>5, <4>6, <4>7
    <3>2. CASE found # {}
      <4>1. PICK b \in t.binding : Matches(b, ctx) /\ found = {b} /\ b.ns = ns
        BY <2>2, <3>2
      <4>2. u = [t EXCEPT !.binding = (t.binding \ {b}) \cup {Put(b)}]
        BY <1>4, <4>1 DEF Bind
      <4>3. /\ Put(b) \in BindingRows(v)
            /\ Put(b).remote = b.remote /\ Put(b).label = l /\ Put(b).ns = ns
            /\ Put(b).path = IF ctx.path # None THEN ctx.path ELSE b.path
        BY <1>1, <1>2, <2>1, <4>1 DEF BindingRows
      <4>4. \A c \in t.binding \ {b} : Apart(c, Put(b)) /\ Apart(Put(b), c)
        <5>1. TAKE c \in t.binding \ {b}
        <5>2. ~Matches(c, ctx) /\ Apart(c, b)
          BY <1>1, <4>1
        <5>3. QED BY <4>3, <5>2 DEF Matches, Apart
      <4> HIDE DEF u, Put
      <4>5. (t.binding \ {b}) \cup {Put(b)} \in SUBSET BindingRows(v)
        BY <1>1, <4>3
      <4>6. \A c \in (t.binding \ {b}) \cup {Put(b)} : c.remote # None \/ c.path # None
        BY <1>1, <4>1, <4>3
      <4>7. \A c \in (t.binding \ {b}) \cup {Put(b)} : HasAlias(t, c.label, c.ns)
        BY <1>1, <4>3
      <4>8. \A c, d \in (t.binding \ {b}) \cup {Put(b)} : c = d \/ Apart(c, d)
        BY <1>1, <4>4
      <4>9. QED BY <4>2, <4>5, <4>6, <4>7, <4>8
    <3>3. QED BY <3>1, <3>2
  <2>4. PICK rows \in SUBSET BindingRows(v) :
          /\ u = [t EXCEPT !.binding = rows]
          /\ \A b \in rows : b.remote # None \/ b.path # None
          /\ \A b, c \in rows : b = c \/ Apart(b, c)
          /\ \A b \in rows : HasAlias(t, b.label, b.ns)
    BY <2>3
  <2>5. /\ u \in Tables(v) /\ u.binding = rows
        /\ u.identity = t.identity /\ u.alias = t.alias /\ u.legacy = t.legacy
    BY <1>1, <2>4 DEF Tables
  <2>6. QED BY <2>4, <2>5 DEF Sound, IdentitiesDistinct, AliasesResolve, CanonicalIsOne,
               BindingsDistinct, NamesProjected, HasAlias
<1>5. QED BY <1>3, <1>4

\* u is t with another label for namespace ns.
AliasTo(t, l, ns, source, now, u) ==
    u = [t EXCEPT !.alias = @ \cup {Alias(l, ns, FALSE, source, now)}]

\* A second label for a namespace, one that no namespace answered to.
LEMMA AliasIsSound ==
    ASSUME NEW v \in Nat, NEW t, Sound(t, v), NEW now \in 0..v, NEW i \in t.identity,
           NEW l \in Label, Unused(t, l),
           NEW source \in Label \cup {None}, source # None => HasAlias(t, source, i.ns),
           NEW u, AliasTo(t, l, i.ns, source, now, u)
    PROVE  /\ Sound(u, v) /\ HasAlias(u, l, i.ns) /\ SameLabels(t, u)
           /\ u.identity = t.identity /\ u.binding = t.binding /\ u.legacy = t.legacy
<1> DEFINE a == Alias(l, i.ns, FALSE, source, now)
<1>1. t \in Tables(v)
  BY DEF Sound
<1>2. /\ u.alias = t.alias \cup {a}
      /\ u.identity = t.identity /\ u.binding = t.binding /\ u.legacy = t.legacy
      /\ u = [identity |-> u.identity, alias |-> u.alias, binding |-> u.binding, legacy |-> u.legacy]
  BY <1>1 DEF AliasTo, Tables
<1>3. i.ns \in 0..v /\ HasAlias(t, i.label, i.ns) /\ i.label # l
  BY <1>1 DEF Tables, IdentityRows, Sound, CanonicalIsOne, HasAlias, Unused
<1>4. a \in AliasRows(v)
  BY <1>3 DEF Alias, AliasRows
<1>5. a.label = l /\ a.ns = i.ns /\ ~a.canonical /\ a.source = source
  BY DEF Alias
<1> HIDE DEF a
<1>6. u \in Tables(v)
  BY <1>1, <1>2, <1>4 DEF Tables
<1>7. \A m, ns : HasAlias(t, m, ns) => HasAlias(u, m, ns)
  BY <1>2 DEF HasAlias
<1>8. HasAlias(u, l, i.ns) /\ SameLabels(t, u)
  BY <1>2, <1>5 DEF HasAlias, SameLabels
<1>9. AliasesResolve(u)
  <2>1. \A x, y \in u.alias : x.label = y.label => x = y
    BY <1>2, <1>5 DEF Sound, AliasesResolve, Unused
  <2>2. \A x \in u.alias : \E j \in u.identity : j.ns = x.ns
    BY <1>2, <1>5 DEF Sound, AliasesResolve
  <2>3. \A x \in u.alias : x.source # None => HasAlias(u, x.source, x.ns)
    BY <1>2, <1>5, <1>7 DEF Sound, AliasesResolve
  <2>4. QED BY <2>1, <2>2, <2>3 DEF AliasesResolve
<1>10. CanonicalIsOne(u)
  <2>1. ASSUME NEW j \in u.identity PROVE HasAlias(u, j.label, j.ns)
    BY <1>2, <1>7 DEF Sound, CanonicalIsOne
  <2>2. ASSUME NEW j \in u.identity, NEW x \in u.alias, x.ns = j.ns
        PROVE  x.canonical <=> x.label = j.label
    <3>1. CASE x \in t.alias
      BY <1>2, <2>2, <3>1 DEF Sound, CanonicalIsOne
    <3>2. CASE x = a
      <4>1. j = i
        BY <1>2, <1>5, <2>2, <3>2 DEF Sound, IdentitiesDistinct
      <4>2. QED BY <1>3, <1>5, <3>2, <4>1
    <3>3. QED BY <1>2, <2>2, <3>1, <3>2
  <2>3. QED BY <2>1, <2>2 DEF CanonicalIsOne
<1>11. IdentitiesDistinct(u)
  BY <1>2 DEF Sound, IdentitiesDistinct
<1>12. BindingsDistinct(u)
  BY <1>2, <1>7 DEF Sound, BindingsDistinct
<1>13. NamesProjected(u)
  BY <1>2, <1>7 DEF Sound, NamesProjected
<1>14. QED BY <1>2, <1>6, <1>8, <1>9, <1>10, <1>11, <1>12, <1>13 DEF Sound

\* u is t with a new namespace.
MintsTo(t, ns, l, now, u) ==
    u = [identity |-> t.identity \cup {[ns |-> ns, label |-> l, db |-> l, at |-> now]},
         alias |-> t.alias \cup {Alias(l, ns, TRUE, None, now)},
         binding |-> t.binding,
         legacy |-> t.legacy \cup {[name |-> l, db |-> l, at |-> now]}]

\* A new namespace under an unused label, with a file of that name.
LEMMA MintIsSound ==
    ASSUME NEW v \in Nat, NEW t, Sound(t, v), NEW now \in 0..v, NEW ns \in 0..v,
           NEW l \in Label, Unused(t, l), \A i \in t.identity : i.ns # ns /\ i.db # l,
           NEW u, MintsTo(t, ns, l, now, u)
    PROVE  Sound(u, v) /\ HasAlias(u, l, ns) /\ SameLabels(t, u)
<1> DEFINE i == [ns |-> ns, label |-> l, db |-> l, at |-> now]
           a == Alias(l, ns, TRUE, None, now)
           r == [name |-> l, db |-> l, at |-> now]
<1>1. t \in Tables(v)
  BY DEF Sound
<1>2. /\ u.alias = t.alias \cup {a} /\ u.identity = t.identity \cup {i}
      /\ u.binding = t.binding /\ u.legacy = t.legacy \cup {r}
      /\ u = [identity |-> u.identity, alias |-> u.alias, binding |-> u.binding, legacy |-> u.legacy]
  BY DEF MintsTo
<1>3. i \in IdentityRows(v) /\ a \in AliasRows(v) /\ r \in NameRows(v)
  BY DEF Alias, IdentityRows, AliasRows, NameRows
<1>4. /\ a.label = l /\ a.ns = ns /\ a.canonical /\ a.source = None
      /\ i.ns = ns /\ i.label = l /\ i.db = l /\ r.name = l /\ r.db = l
  BY DEF Alias
<1> HIDE DEF i, a, r
<1>5. u \in Tables(v)
  BY <1>1, <1>2, <1>3 DEF Tables
<1>6. \A m, n : HasAlias(t, m, n) => HasAlias(u, m, n)
  BY <1>2 DEF HasAlias
<1>7. HasAlias(u, l, ns) /\ SameLabels(t, u)
  BY <1>2, <1>4 DEF HasAlias, SameLabels
<1>8. IdentitiesDistinct(u)
  BY <1>2, <1>4 DEF Sound, IdentitiesDistinct
<1>9. \A x \in t.alias : x.ns # ns
  BY DEF Sound, AliasesResolve
<1>10. AliasesResolve(u)
  <2>1. \A x, y \in u.alias : x.label = y.label => x = y
    BY <1>2, <1>4 DEF Sound, AliasesResolve, Unused
  <2>2. \A x \in u.alias : \E j \in u.identity : j.ns = x.ns
    BY <1>2, <1>4 DEF Sound, AliasesResolve
  <2>3. \A x \in u.alias : x.source # None => HasAlias(u, x.source, x.ns)
    BY <1>2, <1>4, <1>6 DEF Sound, AliasesResolve
  <2>4. QED BY <2>1, <2>2, <2>3 DEF AliasesResolve
<1>11. CanonicalIsOne(u)
  <2>1. ASSUME NEW j \in u.identity PROVE HasAlias(u, j.label, j.ns)
    BY <1>2, <1>4, <1>6, <1>7 DEF Sound, CanonicalIsOne
  <2>2. ASSUME NEW j \in u.identity, NEW x \in u.alias, x.ns = j.ns
        PROVE  x.canonical <=> x.label = j.label
    <3>1. CASE x \in t.alias /\ j \in t.identity
      BY <2>2, <3>1 DEF Sound, CanonicalIsOne
    <3>2. CASE x = a /\ j = i
      BY <1>4, <3>2
    <3>3. QED BY <1>2, <1>4, <1>9, <2>2, <3>1, <3>2
  <2>3. QED BY <2>1, <2>2 DEF CanonicalIsOne
<1>12. BindingsDistinct(u)
  BY <1>2, <1>6 DEF Sound, BindingsDistinct
<1>13. NamesProjected(u)
  BY <1>2, <1>4, <1>6, <1>7 DEF Sound, NamesProjected
<1>14. QED BY <1>5, <1>7, <1>8, <1>10, <1>11, <1>12, <1>13 DEF Sound

\* u is t with namespace me called new.
RenamesTo(t, me, old, new, now, u) ==
    u = [identity |-> {IF i.ns = me.ns THEN [i EXCEPT !.label = new, !.at = now] ELSE i : i \in t.identity},
         alias |-> Renamed(t.alias, me.ns, old, new),
         binding |-> {IF b.ns = me.ns /\ b.label \in {old, me.label}
                      THEN [b EXCEPT !.label = new, !.at = now] ELSE b : b \in t.binding},
         legacy |-> RenamedLegacy(t.legacy, me.db, me.label, new, now)]

\* A rename of a namespace to one of its labels: identity, aliases, bindings
\* and compatibility rows move together.
LEMMA RenameIsSound ==
    ASSUME NEW v \in Nat, NEW t, Sound(t, v), NEW now \in 0..v, NEW old, NEW new,
           NEW me \in t.identity, HasAlias(t, new, me.ns),
           NEW u, RenamesTo(t, me, old, new, now, u)
    PROVE  /\ Sound(u, v) /\ SameFiles(t, u) /\ SameLabels(t, u) /\ SameLabels(u, t)
           /\ \A common : OneEach(t, common) => OneEach(u, common)
           /\ \A ns, ctx : CanBind(t, ns, ctx) => CanBind(u, ns, ctx)
<1> DEFINE PutI(i) == IF i.ns = me.ns THEN [i EXCEPT !.label = new, !.at = now] ELSE i
           PutA(a) == [a EXCEPT !.canonical = IF a.label = new THEN TRUE ELSE IF a.ns = me.ns THEN FALSE ELSE @,
                                !.source = IF a.label \in {old, new} THEN None ELSE @]
           PutB(b) == IF b.ns = me.ns /\ b.label \in {old, me.label}
                      THEN [b EXCEPT !.label = new, !.at = now] ELSE b
           PutR(r) == [r EXCEPT !.name = new, !.at = now]
<1>1. t \in Tables(v)
  BY DEF Sound
<1>2. new \in Label
  BY <1>1 DEF HasAlias, Tables, AliasRows
<1>3. /\ u.identity = {PutI(i) : i \in t.identity}
      /\ u.alias = {PutA(a) : a \in t.alias}
      /\ u.binding = {PutB(b) : b \in t.binding}
      /\ u.legacy = RenamedLegacy(t.legacy, me.db, me.label, new, now)
      /\ u = [identity |-> u.identity, alias |-> u.alias, binding |-> u.binding, legacy |-> u.legacy]
  BY DEF Renamed, RenamesTo
<1>4. \A r \in u.legacy : r \in t.legacy
                          \/ \E s \in t.legacy : s.db = me.db /\ s.name = me.label /\ r = PutR(s)
  BY <1>3 DEF RenamedLegacy
<1>5. \A i \in t.identity :
        /\ PutI(i) \in IdentityRows(v)
        /\ PutI(i).ns = i.ns /\ PutI(i).db = i.db
        /\ PutI(i).label = IF i.ns = me.ns THEN new ELSE i.label
  BY <1>1, <1>2 DEF Tables, IdentityRows
<1>6. \A a \in t.alias :
        /\ PutA(a) \in AliasRows(v)
        /\ PutA(a).label = a.label /\ PutA(a).ns = a.ns
        /\ PutA(a).source \in {None, a.source}
        /\ a.label = new => PutA(a).canonical
        /\ a.label # new /\ a.ns = me.ns => ~PutA(a).canonical
        /\ a.label # new /\ a.ns # me.ns => (PutA(a).canonical <=> a.canonical)
  BY <1>1 DEF Tables, AliasRows
<1>7. \A b \in t.binding :
        /\ PutB(b) \in BindingRows(v)
        /\ PutB(b).ns = b.ns /\ PutB(b).remote = b.remote /\ PutB(b).path = b.path
        /\ PutB(b).label # b.label => b.ns = me.ns /\ PutB(b).label = new
  <2> HIDE DEF PutB
  <2>1. TAKE b \in t.binding
  <2>2. b \in BindingRows(v)
    BY <1>1 DEF Tables
  <2>3. CASE b.ns = me.ns /\ b.label \in {old, me.label}
    <3>1. PutB(b) = [b EXCEPT !.label = new, !.at = now]
      BY <2>3 DEF PutB
    <3>2. QED BY <1>2, <2>2, <2>3, <3>1 DEF BindingRows
  <2>4. CASE ~(b.ns = me.ns /\ b.label \in {old, me.label})
    <3>1. PutB(b) = b
      BY <2>4 DEF PutB
    <3>2. QED BY <2>2, <3>1
  <2>5. QED BY <2>3, <2>4
<1>8. \A r \in t.legacy : PutR(r) \in NameRows(v) /\ PutR(r).db = r.db /\ PutR(r).name = new
  BY <1>1, <1>2 DEF Tables, NameRows
<1> HIDE DEF PutI, PutA, PutB, PutR
<1>10. u \in Tables(v)
  <2>1. /\ u.identity \subseteq IdentityRows(v) /\ u.alias \subseteq AliasRows(v)
        /\ u.binding \subseteq BindingRows(v)
    BY <1>3, <1>5, <1>6, <1>7
  <2>2. u.legacy \subseteq NameRows(v)
    BY <1>1, <1>4, <1>8 DEF Tables
  <2>3. QED BY <1>3, <2>1, <2>2 DEF Tables
<1>11. \A m, n : HasAlias(u, m, n) <=> HasAlias(t, m, n)
  BY <1>3, <1>6 DEF HasAlias
<1>12. SameFiles(t, u) /\ SameLabels(t, u) /\ SameLabels(u, t)
  BY <1>3, <1>5, <1>6, <1>11 DEF SameFiles, SameLabels, HasAlias
<1>13. IdentitiesDistinct(u)
  BY <1>3, <1>5 DEF Sound, IdentitiesDistinct
<1>14. AliasesResolve(u)
  <2>1. \A x, y \in u.alias : x.label = y.label => x = y
    BY <1>3, <1>6 DEF Sound, AliasesResolve
  <2>2. \A x \in u.alias : \E j \in u.identity : j.ns = x.ns
    BY <1>3, <1>5, <1>6 DEF Sound, AliasesResolve
  <2>3. \A x \in u.alias : x.source # None => HasAlias(u, x.source, x.ns)
    BY <1>3, <1>6, <1>11 DEF Sound, AliasesResolve
  <2>4. QED BY <2>1, <2>2, <2>3 DEF AliasesResolve
<1>15. CanonicalIsOne(u)
  <2>1. ASSUME NEW j \in t.identity PROVE HasAlias(u, PutI(j).label, PutI(j).ns)
    BY <1>5, <1>11 DEF Sound, CanonicalIsOne
  <2>2. ASSUME NEW j \in t.identity, NEW a \in t.alias, a.ns = j.ns
        PROVE  PutA(a).canonical <=> PutA(a).label = PutI(j).label
    <3>1. a.label = new => a.ns = me.ns
      BY DEF HasAlias, Sound, AliasesResolve
    <3>2. CASE j.ns = me.ns
      BY <1>5, <1>6, <2>2, <3>2
    <3>3. CASE j.ns # me.ns
      <4>1. PutI(j).label = j.label /\ PutA(a).label = a.label /\ (PutA(a).canonical <=> a.canonical)
        BY <1>5, <1>6, <2>2, <3>1, <3>3
      <4>2. a.canonical <=> a.label = j.label
        BY <2>2 DEF Sound, CanonicalIsOne
      <4>3. QED BY <4>1, <4>2
    <3>4. QED BY <3>2, <3>3
  <2>3. QED BY <1>3, <1>5, <1>6, <2>1, <2>2 DEF CanonicalIsOne
<1>16. BindingsDistinct(u)
  <2>1. \A b \in u.binding : b.remote # None \/ b.path # None
    BY <1>3, <1>7 DEF Sound, BindingsDistinct
  <2>2. \A b, c \in t.binding : PutB(b) = PutB(c) \/ Apart(PutB(b), PutB(c))
    BY <1>7 DEF Sound, BindingsDistinct, Apart
  <2>3. \A b \in u.binding : HasAlias(u, b.label, b.ns)
    BY <1>3, <1>7, <1>11 DEF Sound, BindingsDistinct
  <2>4. QED BY <1>3, <2>1, <2>2, <2>3 DEF BindingsDistinct
<1>17. NamesProjected(u)
  <2>1. SUFFICES ASSUME NEW r \in u.legacy
                 PROVE  \E i \in t.identity : i.db = r.db /\ HasAlias(t, r.name, i.ns)
    BY <1>3, <1>5, <1>11 DEF NamesProjected
  <2>2. QED BY <1>4, <1>8 DEF Sound, NamesProjected
<1>18. \A common : OneEach(t, common) => OneEach(u, common)
  BY <1>3, <1>7 DEF OneEach
<1>19. \A ns, ctx : CanBind(t, ns, ctx) => CanBind(u, ns, ctx)
  BY <1>3, <1>7 DEF CanBind, Matches
<1>20. QED BY <1>10, <1>12, <1>13, <1>14, <1>15, <1>16, <1>17, <1>18, <1>19 DEF Sound

\* A binding follows its repository: only a repository nobody is bound to adds one.
LEMMA BindKeepsOwners ==
    ASSUME NEW v \in Nat, NEW t, Sound(t, v), NEW now, NEW ns, NEW l, NEW ctx,
           CanBind(t, ns, ctx), NEW common, OneEach(t, common),
           \/ ctx = NoRepo \/ ns \in common \/ BindingsOf(t, ns) = {}
           \/ \E b \in BindingsOf(t, ns) : Matches(b, ctx)
    PROVE  OneEach(Bind(t, ns, l, ctx, now), common)
<1> DEFINE found == {b \in t.binding : Matches(b, ctx)}
           Put(b) == [b EXCEPT !.path = IF ctx.path # None THEN ctx.path ELSE @,
                               !.label = l, !.at = now]
           row == BindingRow(ns, l, ctx, now)
<1>1. t \in Tables(v)
  BY DEF Sound
<1>2. CASE ctx = NoRepo
  BY <1>2 DEF Bind
<1>3. CASE ctx # NoRepo /\ found = {}
  <2>1. Bind(t, ns, l, ctx, now).binding = t.binding \cup {row}
    BY <1>1, <1>3 DEF Bind, Tables
  <2>2. row.ns = ns
    BY DEF BindingRow
  <2>3. ns \in common \/ \A b \in t.binding : b.ns # ns
    BY <1>3 DEF BindingsOf
  <2> HIDE DEF row
  <2>4. QED BY <2>1, <2>2, <2>3 DEF OneEach
<1>4. CASE ctx # NoRepo /\ found # {}
  <2>1. PICK b \in t.binding : Matches(b, ctx) /\ found = {b} /\ b.ns = ns
    BY <1>4 DEF CanBind
  <2>2. Bind(t, ns, l, ctx, now).binding = (t.binding \ {b}) \cup {Put(b)}
    BY <1>1, <1>4, <2>1 DEF Bind, Tables
  <2>3. Put(b).ns = b.ns
    BY <1>1, <2>1 DEF Tables, BindingRows
  <2> HIDE DEF Put
  <2>4. QED BY <2>1, <2>2, <2>3 DEF OneEach
<1>5. QED BY <1>2, <1>3, <1>4

\* u is t after a label migration.
RelabelsTo(t, ns, action, old, new, ctx, now, u) == u = Relabelled(t, ns, action, old, new, ctx, now)

\* A label migration: the new label, the rename and the binding in one step.
LEMMA RelabelIsSound ==
    ASSUME NEW v \in Nat, NEW t, Sound(t, v), NEW now \in 0..v, NEW ns,
           NEW action \in {"alias", "rename"}, NEW old \in Label, NEW new \in Label,
           NEW ctx \in Context \cup {NoRepo},
           ns = NsOf(t, old), CanPlan(t, old, new, ctx), CanBind(t, ns, ctx),
           NEW common, OneEach(t, common), ctx = NoRepo \/ ns \in common,
           NEW u, RelabelsTo(t, ns, action, old, new, ctx, now, u)
    PROVE  Sound(u, v) /\ SameFiles(t, u) /\ SameLabels(t, u) /\ OneEach(u, common)
<1>1. t \in Tables(v)
  BY DEF Sound
<1>2. PICK me \in t.identity : me.ns = ns
  BY NsOfResolves DEF CanPlan, HasAlias, Sound, AliasesResolve
<1>3. IdentityOf(t, ns) = me /\ Db(t, ns) = me.db
  BY <1>2, IdentityResolves
<1>4. HasAlias(t, old, ns) /\ ns # None
  BY NsOfResolves DEF CanPlan
<1> DEFINE source == IF action = "alias" /\ old # new THEN old ELSE None
           added == IF NsOf(t, new) = None THEN {Alias(new, ns, FALSE, source, now)} ELSE {}
           named == [t EXCEPT !.alias = @ \cup added]
           renamed ==
            [identity |-> {IF i.ns = ns THEN [i EXCEPT !.label = new, !.at = now] ELSE i
                             : i \in named.identity},
             alias |-> Renamed(named.alias, ns, old, new),
             binding |-> {IF b.ns = ns /\ b.label \in {old, me.label}
                          THEN [b EXCEPT !.label = new, !.at = now] ELSE b : b \in named.binding},
             legacy |-> RenamedLegacy(named.legacy, me.db, me.label, new, now)]
<1>5. u = Bind(IF action = "rename" THEN renamed ELSE named, ns, new, ctx, now)
  BY <1>3 DEF Relabelled, RelabelsTo
<1>6. /\ Sound(named, v) /\ HasAlias(named, new, ns) /\ SameLabels(t, named)
      /\ named.identity = t.identity /\ named.binding = t.binding
  <2>1. CASE NsOf(t, new) = None
    <3>1. Unused(t, new) /\ source \in Label \cup {None}
          /\ (source # None => HasAlias(t, source, me.ns))
      BY <1>2, <1>4, <2>1, NsOfResolves
    <3>2. AliasTo(t, new, me.ns, source, now, named)
      BY <1>2, <2>1 DEF AliasTo
    <3> HIDE DEF source, named
    <3>3. QED BY <1>2, <3>1, <3>2, AliasIsSound
  <2>2. CASE NsOf(t, new) # None
    <3>1. named = t
      BY <1>1, <2>2 DEF Tables
    <3>2. HasAlias(t, new, ns)
      BY <2>2, NsOfResolves DEF CanPlan
    <3>3. SameLabels(t, t)
      BY DEF SameLabels, HasAlias
    <3> HIDE DEF named
    <3>4. QED BY <3>1, <3>2, <3>3
  <2>3. QED BY <2>1, <2>2
<1>7. RenamesTo(named, me, old, new, now, renamed)
  BY <1>2 DEF RenamesTo
<1> HIDE DEF source, added, named, renamed
<1>8. /\ Sound(renamed, v) /\ SameFiles(named, renamed) /\ SameLabels(named, renamed)
      /\ (OneEach(named, common) => OneEach(renamed, common))
      /\ (CanBind(named, ns, ctx) => CanBind(renamed, ns, ctx))
  BY <1>2, <1>6, <1>7, RenameIsSound
<1>9. OneEach(named, common) /\ CanBind(named, ns, ctx)
  BY <1>6 DEF OneEach, CanBind
<1>10. HasAlias(renamed, new, ns)
  BY <1>6, <1>8 DEF SameLabels, HasAlias
<1>11. SameFiles(t, renamed) /\ SameLabels(t, renamed)
  BY <1>6, <1>8 DEF SameFiles, SameLabels, HasAlias
<1>12. SameFiles(t, named)
  BY <1>6 DEF SameFiles
<1>13. ASSUME NEW w, Sound(w, v), HasAlias(w, new, ns), CanBind(w, ns, ctx), OneEach(w, common),
              SameFiles(t, w), SameLabels(t, w), u = Bind(w, ns, new, ctx, now)
       PROVE  Sound(u, v) /\ SameFiles(t, u) /\ SameLabels(t, u) /\ OneEach(u, common)
  <2>1. Sound(u, v) /\ u.identity = w.identity /\ u.alias = w.alias
    BY <1>13, BindIsSound
  <2>2. OneEach(u, common)
    BY <1>13, BindKeepsOwners
  <2>3. QED BY <1>13, <2>1, <2>2 DEF SameFiles, SameLabels, HasAlias
<1>14. QED BY <1>5, <1>6, <1>8, <1>9, <1>10, <1>11, <1>12, <1>13

\* retire_namespace_alias refuses an alias something leads to.
LEMMA RetireAliasIsSound ==
    ASSUME NEW v \in Nat, Sound(reg, v), NEW a \in reg.alias, ~Blocked(a),
           NEW u, u = [reg EXCEPT !.alias = @ \ {a}, !.legacy = @ \ LegacyRows(a)]
    PROVE  Sound(u, v) /\ u.identity = reg.identity /\ u.binding = reg.binding
           /\ u.alias = reg.alias \ {a}
<1>1. reg \in Tables(v)
  BY DEF Sound
<1>2. /\ u.identity = reg.identity /\ u.binding = reg.binding
      /\ u.alias = reg.alias \ {a} /\ u.legacy = reg.legacy \ LegacyRows(a)
      /\ u \in Tables(v)
  BY <1>1 DEF Tables
<1>3. \A m, n : HasAlias(reg, m, n) /\ (m # a.label \/ n # a.ns) => HasAlias(u, m, n)
  BY <1>2 DEF HasAlias
<1>4. /\ ~a.canonical /\ \A b \in reg.binding : b.ns = a.ns => b.label # a.label
      /\ \A d \in reg.alias : d.source # a.label
  BY DEF Blocked, BindingsOf
<1>5. IdentitiesDistinct(u)
  BY <1>2 DEF Sound, IdentitiesDistinct
<1>6. AliasesResolve(u)
  BY <1>2, <1>3, <1>4 DEF Sound, AliasesResolve
<1>7. CanonicalIsOne(u)
  BY <1>2, <1>3, <1>4 DEF Sound, CanonicalIsOne
<1>8. BindingsDistinct(u)
  BY <1>2, <1>3, <1>4 DEF Sound, BindingsDistinct
<1>9. NamesProjected(u)
  <2>1. SUFFICES ASSUME NEW r \in reg.legacy, r \notin LegacyRows(a)
                 PROVE  \E i \in reg.identity : i.db = r.db /\ HasAlias(u, r.name, i.ns)
    BY <1>2 DEF NamesProjected
  <2>2. PICK i \in reg.identity : i.db = r.db /\ HasAlias(reg, r.name, i.ns)
    BY DEF Sound, NamesProjected
  <2>3. r.name # a.label \/ i.ns # a.ns
    BY <2>1, <2>2, IdentityResolves DEF LegacyRows
  <2>4. QED BY <1>3, <2>2, <2>3
<1>10. QED BY <1>2, <1>5, <1>6, <1>7, <1>8, <1>9 DEF Sound

\* u is t without namespace ns.
RetiresTo(t, ns, u) ==
    u = [identity |-> {i \in t.identity : i.ns # ns},
         alias |-> {a \in t.alias : a.ns # ns},
         binding |-> {b \in t.binding : b.ns # ns},
         legacy |-> {r \in t.legacy : r.db # Db(t, ns)}]

\* Every row of a namespace is its own: without it the others are whole.
LEMMA RetireIsSound ==
    ASSUME NEW v \in Nat, NEW t, Sound(t, v), NEW me \in t.identity, NEW u, RetiresTo(t, me.ns, u)
    PROVE  Sound(u, v)
<1>1. /\ u.identity = {i \in t.identity : i.ns # me.ns}
      /\ u.alias = {a \in t.alias : a.ns # me.ns}
      /\ u.binding = {b \in t.binding : b.ns # me.ns}
      /\ u.legacy = {r \in t.legacy : r.db # me.db}
      /\ u = [identity |-> u.identity, alias |-> u.alias, binding |-> u.binding, legacy |-> u.legacy]
  BY IdentityResolves DEF RetiresTo
<1>2. u \in Tables(v)
  BY <1>1 DEF Sound, Tables
<1>3. \A m, n : HasAlias(t, m, n) /\ n # me.ns => HasAlias(u, m, n)
  BY <1>1 DEF HasAlias
<1>4. IdentitiesDistinct(u)
  BY <1>1 DEF Sound, IdentitiesDistinct
<1>5. AliasesResolve(u)
  BY <1>1, <1>3 DEF Sound, AliasesResolve
<1>6. CanonicalIsOne(u)
  BY <1>1, <1>3 DEF Sound, CanonicalIsOne
<1>7. BindingsDistinct(u)
  BY <1>1, <1>3 DEF Sound, BindingsDistinct
<1>8. NamesProjected(u)
  <2>1. SUFFICES ASSUME NEW r \in t.legacy, r.db # me.db
                 PROVE  \E i \in u.identity : i.db = r.db /\ HasAlias(u, r.name, i.ns)
    BY <1>1 DEF NamesProjected
  <2>2. PICK i \in t.identity : i.db = r.db /\ HasAlias(t, r.name, i.ns)
    BY DEF Sound, NamesProjected
  <2>3. i.ns # me.ns
    BY <2>1, <2>2 DEF Sound, IdentitiesDistinct
  <2>4. QED BY <1>1, <1>3, <2>2, <2>3
<1>9. QED BY <1>2, <1>4, <1>5, <1>6, <1>7, <1>8 DEF Sound

-----------------------------------------------------------------------------
(* What a migration records.                                                *)

\* The recorded rows of one namespace, as a registry of their own.
AsTables(state) ==
    [identity |-> {state.identity}, alias |-> state.aliases,
     binding |-> state.bindings, legacy |-> state.legacy]

Whole(state, ns, v) == Sound(AsTables(state), v) /\ state.identity.ns = ns

\* Nothing in the rows of a namespace leads out of it.
LEMMA StateIsWhole ==
    ASSUME NEW v \in Nat, NEW t, Sound(t, v), NEW me \in t.identity
    PROVE  /\ Whole(NsState(t, me.ns), me.ns, v)
           /\ NsState(t, me.ns).identity = me
           /\ NsState(t, me.ns).aliases = {a \in t.alias : a.ns = me.ns}
           /\ NsState(t, me.ns).bindings = {b \in t.binding : b.ns = me.ns}
           /\ NsState(t, me.ns).legacy = {r \in t.legacy : r.db = me.db}
<1> DEFINE u == AsTables(NsState(t, me.ns))
<1>1. /\ NsState(t, me.ns).identity = me
      /\ NsState(t, me.ns).aliases = {a \in t.alias : a.ns = me.ns}
      /\ NsState(t, me.ns).bindings = {b \in t.binding : b.ns = me.ns}
      /\ NsState(t, me.ns).legacy = {r \in t.legacy : r.db = me.db}
  BY IdentityResolves DEF NsState, BindingsOf
<1>2. /\ u.identity = {me}
      /\ u.alias = {a \in t.alias : a.ns = me.ns}
      /\ u.binding = {b \in t.binding : b.ns = me.ns}
      /\ u.legacy = {r \in t.legacy : r.db = me.db}
      /\ u = [identity |-> u.identity, alias |-> u.alias, binding |-> u.binding, legacy |-> u.legacy]
  BY <1>1 DEF AsTables
<1> HIDE DEF u
<1>3. u \in Tables(v)
  BY <1>2 DEF Sound, Tables
<1>4. \A m : HasAlias(t, m, me.ns) => HasAlias(u, m, me.ns)
  BY <1>2 DEF HasAlias
<1>5. IdentitiesDistinct(u)
  BY <1>2 DEF IdentitiesDistinct
<1>6. AliasesResolve(u)
  BY <1>2, <1>4 DEF Sound, AliasesResolve
<1>7. CanonicalIsOne(u)
  BY <1>2, <1>4 DEF Sound, CanonicalIsOne
<1>8. BindingsDistinct(u)
  BY <1>2, <1>4 DEF Sound, BindingsDistinct
<1>9. NamesProjected(u)
  BY <1>2, <1>4 DEF Sound, NamesProjected, IdentitiesDistinct
<1>10. QED BY <1>1, <1>3, <1>5, <1>6, <1>7, <1>8, <1>9 DEF Sound, Whole, u

\* _restore_namespace_state of a whole record, under labels the namespace has
\* kept and with bindings nobody else took, leaves a sound registry.
LEMMA RestoreIsSound ==
    ASSUME NEW v \in Nat, NEW t, Sound(t, v), NEW me \in t.identity,
           NEW state, Whole(state, me.ns, v), state.identity.db = me.db,
           \A a \in state.aliases : HasAlias(t, a.label, me.ns),
           Restorable(t, me.ns, state)
    PROVE  /\ Sound(Restored(t, me.ns, state), v)
           /\ SameFiles(t, Restored(t, me.ns, state))
           /\ Restored(t, me.ns, state).alias = {a \in t.alias : a.ns # me.ns} \cup state.aliases
           /\ Restored(t, me.ns, state).binding = {b \in t.binding : b.ns # me.ns} \cup state.bindings
           /\ Restored(t, me.ns, state).legacy = {r \in t.legacy : r.db # me.db} \cup state.legacy
           /\ \A a \in state.aliases : a.ns = me.ns
           /\ \A b \in state.bindings : b.ns = me.ns
<1> DEFINE w == AsTables(state)
           u == Restored(t, me.ns, state)
           id == state.identity
<1>1. /\ w.identity = {id} /\ w.alias = state.aliases
      /\ w.binding = state.bindings /\ w.legacy = state.legacy
      /\ Sound(w, v) /\ id.ns = me.ns /\ id.db = me.db
  BY DEF AsTables, Whole
<1>2. /\ u.identity = {i \in t.identity : i.ns # me.ns} \cup {id}
      /\ u.alias = {a \in t.alias : a.ns # me.ns} \cup state.aliases
      /\ u.binding = {b \in t.binding : b.ns # me.ns} \cup state.bindings
      /\ u.legacy = {r \in t.legacy : r.db # me.db} \cup state.legacy
      /\ u = [identity |-> u.identity, alias |-> u.alias, binding |-> u.binding, legacy |-> u.legacy]
  BY IdentityResolves DEF Restored
<1> HIDE DEF w, u, id
<1>3. /\ \A a \in state.aliases : a.ns = me.ns
      /\ \A b \in state.bindings : b.ns = me.ns
      /\ \A r \in state.legacy : r.db = me.db /\ HasAlias(w, r.name, me.ns)
  BY <1>1 DEF Sound, AliasesResolve, BindingsDistinct, NamesProjected, HasAlias
<1>4. u \in Tables(v)
  BY <1>1, <1>2 DEF Sound, Tables
<1>5. /\ \A m, n : HasAlias(t, m, n) /\ n # me.ns => HasAlias(u, m, n)
      /\ \A m, n : HasAlias(w, m, n) => HasAlias(u, m, n)
  BY <1>1, <1>2 DEF HasAlias
<1>6. IdentitiesDistinct(u)
  BY <1>1, <1>2 DEF Sound, IdentitiesDistinct
<1>7. AliasesResolve(u)
  <2>1. \A a \in t.alias, b \in state.aliases : a.label = b.label => a.ns = me.ns
    BY DEF HasAlias, Sound, AliasesResolve
  <2>2. \A a, b \in u.alias : a.label = b.label => a = b
    BY <1>1, <1>2, <1>3, <2>1 DEF Sound, AliasesResolve
  <2>3. \A a \in u.alias : \E i \in u.identity : i.ns = a.ns
    BY <1>1, <1>2, <1>3 DEF Sound, AliasesResolve
  <2>4. \A a \in u.alias : a.source # None => HasAlias(u, a.source, a.ns)
    BY <1>1, <1>2, <1>5 DEF Sound, AliasesResolve
  <2>5. QED BY <2>2, <2>3, <2>4 DEF AliasesResolve
<1>8. CanonicalIsOne(u)
  <2>1. \A i \in u.identity : HasAlias(u, i.label, i.ns)
    BY <1>1, <1>2, <1>5 DEF Sound, CanonicalIsOne
  <2>2. ASSUME NEW i \in u.identity, NEW a \in u.alias, a.ns = i.ns
        PROVE  a.canonical <=> a.label = i.label
    BY <1>1, <1>2, <1>3, <2>2 DEF Sound, CanonicalIsOne
  <2>3. QED BY <2>1, <2>2 DEF CanonicalIsOne
<1>9. BindingsDistinct(u)
  <2>1. \A b \in u.binding : b.remote # None \/ b.path # None
    BY <1>1, <1>2 DEF Sound, BindingsDistinct
  <2>2. \A b \in state.bindings, c \in t.binding : c.ns # me.ns => Apart(b, c) /\ Apart(c, b)
    BY DEF Restorable, Apart
  <2>3. \A b, c \in u.binding : b = c \/ Apart(b, c)
    BY <1>1, <1>2, <2>2 DEF Sound, BindingsDistinct
  <2>4. \A b \in u.binding : HasAlias(u, b.label, b.ns)
    BY <1>1, <1>2, <1>5 DEF Sound, BindingsDistinct
  <2>5. QED BY <2>1, <2>3, <2>4 DEF BindingsDistinct
<1>10. NamesProjected(u)
  <2>1. ASSUME NEW r \in t.legacy, r.db # me.db
        PROVE  \E i \in u.identity : i.db = r.db /\ HasAlias(u, r.name, i.ns)
    <3>1. PICK i \in t.identity : i.db = r.db /\ HasAlias(t, r.name, i.ns)
      BY DEF Sound, NamesProjected
    <3>2. i.ns # me.ns
      BY <2>1, <3>1 DEF Sound, IdentitiesDistinct
    <3>3. QED BY <1>2, <1>5, <3>1, <3>2
  <2>2. ASSUME NEW r \in state.legacy
        PROVE  \E i \in u.identity : i.db = r.db /\ HasAlias(u, r.name, i.ns)
    BY <1>1, <1>2, <1>3, <1>5
  <2>3. QED BY <1>2, <2>1, <2>2 DEF NamesProjected
<1>11. SameFiles(t, u)
  BY <1>1, <1>2 DEF SameFiles, Sound, IdentitiesDistinct
<1>12. QED BY <1>2, <1>3, <1>4, <1>6, <1>7, <1>8, <1>9, <1>10, <1>11 DEF Sound, u

-----------------------------------------------------------------------------
(* The invariant.                                                           *)

\* What an undo relies on: the record is whole, of a namespace that is there;
\* its file has not changed, its labels were kept by the migration, and the
\* bindings it brings back are one repository's unless somebody named more.
HistoryIsWhole ==
    \A m \in migration :
        /\ m = [id |-> m.id, ns |-> m.ns, action |-> m.action, old |-> m.old, new |-> m.new,
                repo |-> m.repo, before |-> m.before, after |-> m.after, undone |-> m.undone]
        /\ m.id \in 1..ver /\ m.undone \in 0..ver
        /\ \E i \in reg.identity : i.ns = m.ns
        /\ Whole(m.before, m.ns, ver)
        /\ m.before.identity.db = m.after.identity.db
        /\ \A a \in m.before.aliases : \E d \in m.after.aliases : d.label = a.label
        /\ m.ns \in shared \/ \A b, c \in m.before.bindings : b = c

\* A file about to be unlinked is nobody's.
JobIsOwn ==
    job # None /\ job.kind = "retire" => job.db \in files /\ \A i \in reg.identity : i.db # job.db

RegistryInv ==
    /\ ver \in 0..MaxVer /\ shared \subseteq 0..ver
    /\ Sound(reg, ver)
    /\ \A i \in reg.identity : i.db \in files
    /\ OneEach(reg, shared)
    /\ HistoryIsWhole
    /\ JobIsOwn

\* A label that two values of the tables have leads to one namespace.
LabelsKept(t, u) == \A x \in t.alias, y \in u.alias : x.label = y.label => x.ns = y.ns

\* Labels that still have their alias mean what they meant.
LEMMA SameLabelsAreKept ==
    ASSUME NEW v \in Nat, NEW t, NEW u, Sound(u, v), SameLabels(t, u)
    PROVE  LabelsKept(t, u)
  BY DEF Sound, AliasesResolve, SameLabels, HasAlias, LabelsKept

\* Records stay whole while their namespace stays.
LEMMA HistoryStaysWhole ==
    ASSUME RegistryInv, ver' = ver + 1, migration' = migration, shared \subseteq shared',
           \A m \in migration : \E i \in reg'.identity : i.ns = m.ns
    PROVE  HistoryIsWhole'
<1>1. ver \in Nat /\ 0..ver \subseteq 0..ver' /\ 1..ver \subseteq 1..ver'
  BY DEF RegistryInv
<1>2. \A m \in migration : Whole(m.before, m.ns, ver')
  BY <1>1, SoundLater DEF RegistryInv, HistoryIsWhole, Whole
<1>3. SUFFICES ASSUME NEW m \in migration
               PROVE  /\ m = [id |-> m.id, ns |-> m.ns, action |-> m.action, old |-> m.old, new |-> m.new,
                              repo |-> m.repo, before |-> m.before, after |-> m.after, undone |-> m.undone]
                      /\ m.id \in 1..ver' /\ m.undone \in 0..ver'
                      /\ \E i \in reg'.identity : i.ns = m.ns
                      /\ Whole(m.before, m.ns, ver')
                      /\ m.before.identity.db = m.after.identity.db
                      /\ \A a \in m.before.aliases : \E d \in m.after.aliases : d.label = a.label
                      /\ m.ns \in shared' \/ \A b, c \in m.before.bindings : b = c
  BY DEF HistoryIsWhole
<1>4. QED BY <1>1, <1>2 DEF RegistryInv, HistoryIsWhole

\* A commit that leaves the files of the namespaces as they are.
LEMMA CommitKeeps ==
    ASSUME RegistryInv, Commit, Sound(reg', ver'), SameFiles(reg, reg'),
           OneEach(reg', shared'), shared \subseteq shared', shared' \subseteq 0..ver',
           migration' = migration, files' = files, job' = job
    PROVE  RegistryInv'
<1>1. ver' = ver + 1 /\ ver' \in 0..MaxVer
  BY BoundsNat DEF RegistryInv, Commit, Now
<1>2. \A m \in migration : \E i \in reg'.identity : i.ns = m.ns
  BY DEF RegistryInv, HistoryIsWhole, SameFiles
<1>3. HistoryIsWhole'
  BY <1>1, <1>2, HistoryStaysWhole
<1>4. JobIsOwn'
  BY DEF RegistryInv, JobIsOwn, SameFiles
<1>5. \A i \in reg'.identity : i.db \in files'
  BY DEF RegistryInv, SameFiles
<1>6. QED BY <1>1, <1>3, <1>4, <1>5 DEF RegistryInv

\* The next commit: its stamp is new, and what is sound now is sound then.
LEMMA NextCommit ==
    ASSUME RegistryInv, Commit
    PROVE  /\ ver' = ver + 1 /\ ver \in Nat /\ ver' \in Nat /\ Now = ver' /\ Now \in 0..ver'
           /\ 0..ver \subseteq 0..ver' /\ Sound(reg, ver')
  BY SoundLater DEF RegistryInv, Commit, Now

-----------------------------------------------------------------------------
(* register_namespace.                                                      *)

\* u is t after the label of namespace ns was used from repository ctx.
PublishesTo(t, ns, l, ctx, db, now, u) ==
    LET bound == Bind(Stamp(t, ns, now), ns, l, ctx, now)
    IN  u = IF ctx.path # None THEN StampLegacy(bound, db, now) ELSE bound

\* Stamping, binding and stamping the compatibility rows together.
LEMMA PublishIsSound ==
    ASSUME NEW v \in Nat, NEW t, Sound(t, v), NEW now \in 0..v, NEW ns, NEW l, NEW db,
           NEW ctx \in Context \cup {NoRepo}, HasAlias(t, l, ns), CanBind(t, ns, ctx),
           NEW common, OneEach(t, common),
           ns \in common \/ BindingsOf(t, ns) = {} \/ \E b \in BindingsOf(t, ns) : Matches(b, ctx),
           NEW u, PublishesTo(t, ns, l, ctx, db, now, u)
    PROVE  Sound(u, v) /\ SameFiles(t, u) /\ u.alias = t.alias /\ OneEach(u, common)
<1> DEFINE s == Stamp(t, ns, now)
           bound == Bind(s, ns, l, ctx, now)
<1>1. /\ Sound(s, v) /\ SameFiles(t, s) /\ s.alias = t.alias /\ s.binding = t.binding
  BY StampIsSound
<1>2. u = IF ctx.path # None THEN StampLegacy(bound, db, now) ELSE bound
  BY DEF PublishesTo
<1> HIDE DEF s
<1>3. HasAlias(s, l, ns) /\ CanBind(s, ns, ctx) /\ OneEach(s, common) /\ BindingsOf(s, ns) = BindingsOf(t, ns)
  BY <1>1 DEF HasAlias, CanBind, OneEach, BindingsOf
<1>4. Sound(bound, v) /\ bound.identity = s.identity /\ bound.alias = s.alias
  BY <1>1, <1>3, BindIsSound
<1>5. OneEach(bound, common)
  BY <1>1, <1>3, BindKeepsOwners
<1> HIDE DEF bound
<1>6. /\ Sound(StampLegacy(bound, db, now), v)
      /\ StampLegacy(bound, db, now).identity = bound.identity
      /\ StampLegacy(bound, db, now).alias = bound.alias
      /\ StampLegacy(bound, db, now).binding = bound.binding
  BY <1>4, StampLegacyIsSound
<1>7. QED BY <1>1, <1>2, <1>4, <1>5, <1>6 DEF SameFiles, OneEach

\* A label that resolves already.
LEMMA ReuseKeeps ==
    ASSUME RegistryInv, NEW l, NEW ctx \in Context \cup {NoRepo}, NEW explicit \in BOOLEAN,
           Reuse(l, ctx, explicit)
    PROVE  RegistryInv' /\ LabelsKept(reg, reg')
<1> DEFINE ns == NsOf(reg, l)
<1>1. /\ ver \in Nat /\ ver' \in Nat /\ Now = ver' /\ Now \in 0..ver'
      /\ 0..ver \subseteq 0..ver' /\ Sound(reg, ver')
  BY NextCommit DEF Reuse
<1>2. HasAlias(reg, l, ns) /\ ns \in 0..ver
  BY <1>1, NsOfResolves DEF RegistryInv, Reuse
<1>3. shared' = IF explicit THEN shared \cup {ns} ELSE shared
  BY DEF Reuse
<1>4. shared \subseteq shared' /\ shared' \subseteq 0..ver'
  BY <1>1, <1>2, <1>3 DEF RegistryInv
<1>5. OneEach(reg, shared')
  BY <1>4 DEF RegistryInv, OneEach
<1>6. ns \in shared' \/ BindingsOf(reg, ns) = {} \/ \E b \in BindingsOf(reg, ns) : Matches(b, ctx)
  BY <1>3 DEF Reuse, Foreign
<1>7. CanBind(reg, ns, ctx) /\ PublishesTo(reg, ns, l, ctx, Db(reg, ns), Now, reg')
  BY DEF Reuse, PublishesTo
<1> HIDE DEF ns
<1>8. Sound(reg', ver') /\ SameFiles(reg, reg') /\ reg'.alias = reg.alias /\ OneEach(reg', shared')
  BY <1>1, <1>2, <1>5, <1>6, <1>7, PublishIsSound
<1>9. RegistryInv'
  BY <1>4, <1>8, CommitKeeps DEF Reuse
<1>10. LabelsKept(reg, reg')
  BY <1>8 DEF RegistryInv, Sound, AliasesResolve, LabelsKept
<1>11. QED BY <1>9, <1>10

\* A new label for the namespace a known repository has.
LEMMA AttachKeeps ==
    ASSUME RegistryInv, NEW l \in Label, NEW ctx \in Context \cup {NoRepo}, NEW explicit \in BOOLEAN,
           Attach(l, ctx, explicit)
    PROVE  RegistryInv' /\ LabelsKept(reg, reg')
<1>1. /\ ver \in Nat /\ ver' \in Nat /\ Now = ver' /\ Now \in 0..ver'
      /\ 0..ver \subseteq 0..ver' /\ Sound(reg, ver')
  BY NextCommit DEF Attach
<1>2. PICK b \in Known(reg, ctx) :
        LET ns == b.ns
            named == [reg EXCEPT !.alias = @ \cup {Alias(l, ns, FALSE, None, Now)}]
            bound == Bind(Stamp(named, ns, Now), ns, l, ctx, Now)
        IN  /\ CanBind(reg, ns, ctx)
            /\ reg' = IF ctx.path # None THEN StampLegacy(bound, Db(reg, ns), Now) ELSE bound
  BY DEF Attach
<1>3. Unused(reg, l) /\ Commit /\ UNCHANGED <<migration, files, job, shared>>
  BY DEF Attach
<1> DEFINE named == [reg EXCEPT !.alias = @ \cup {Alias(l, b.ns, FALSE, None, Now)}]
<1>4. b \in reg.binding /\ Matches(b, ctx) /\ b \in BindingsOf(reg, b.ns)
  BY DEF Known, Matches, BindingsOf
<1>5. PICK me \in reg.identity : me.ns = b.ns
  BY <1>4 DEF RegistryInv, Sound, BindingsDistinct, AliasesResolve, HasAlias
<1>6. AliasTo(reg, l, me.ns, None, Now, named)
  BY <1>5 DEF AliasTo
<1>7. PublishesTo(named, b.ns, l, ctx, Db(reg, b.ns), Now, reg')
  BY <1>2 DEF PublishesTo
<1>8. CanBind(reg, b.ns, ctx)
  BY <1>2
<1> HIDE DEF named
<1>9. /\ Sound(named, ver') /\ HasAlias(named, l, b.ns) /\ SameLabels(reg, named)
      /\ named.identity = reg.identity /\ named.binding = reg.binding
  BY <1>1, <1>3, <1>5, <1>6, AliasIsSound
<1>10. /\ CanBind(named, b.ns, ctx) /\ OneEach(named, shared')
       /\ \E c \in BindingsOf(named, b.ns) : Matches(c, ctx)
  BY <1>3, <1>4, <1>8, <1>9 DEF RegistryInv, CanBind, OneEach, BindingsOf
<1>11. Sound(reg', ver') /\ SameFiles(named, reg') /\ reg'.alias = named.alias /\ OneEach(reg', shared')
  BY <1>1, <1>7, <1>9, <1>10, PublishIsSound
<1>12. SameFiles(reg, reg')
  BY <1>9, <1>11 DEF SameFiles
<1>13. shared \subseteq shared' /\ shared' \subseteq 0..ver'
  BY <1>1, <1>3 DEF RegistryInv
<1>14. RegistryInv'
  BY <1>3, <1>11, <1>12, <1>13, CommitKeeps
<1>15. SameLabels(reg, reg')
  BY <1>9, <1>11 DEF SameLabels, HasAlias
<1>16. QED BY <1>1, <1>11, <1>14, <1>15, SameLabelsAreKept

\* A new namespace.
LEMMA MintKeeps ==
    ASSUME RegistryInv, NEW l \in Label, NEW ctx \in Context \cup {NoRepo}, Mint(l, ctx)
    PROVE  RegistryInv' /\ LabelsKept(reg, reg')
<1>1. /\ ver' = ver + 1 /\ ver \in Nat /\ ver' \in Nat /\ Now = ver' /\ Now \in 0..ver'
      /\ 0..ver \subseteq 0..ver' /\ Sound(reg, ver')
  BY NextCommit DEF Mint
<1> DEFINE minted == [identity |-> reg.identity \cup {[ns |-> Now, label |-> l, db |-> l, at |-> Now]},
                      alias |-> reg.alias \cup {Alias(l, Now, TRUE, None, Now)},
                      binding |-> reg.binding,
                      legacy |-> reg.legacy \cup {[name |-> l, db |-> l, at |-> Now]}]
<1>2. /\ Unused(reg, l) /\ l \notin files /\ CanBind(reg, Now, ctx)
      /\ \A i \in reg.identity : i.db # l
      /\ reg' = Bind(minted, Now, l, ctx, Now)
      /\ files' = files \cup {l} /\ Commit /\ UNCHANGED <<migration, job, shared>>
  BY DEF Mint
<1>3. \A i \in reg.identity : i.ns \in 0..ver /\ i.ns # Now
  BY <1>1 DEF RegistryInv, Sound, Tables, IdentityRows
<1>4. MintsTo(reg, Now, l, Now, minted)
  BY DEF MintsTo
<1>5. /\ minted.identity = reg.identity \cup {[ns |-> Now, label |-> l, db |-> l, at |-> Now]}
      /\ minted.binding = reg.binding
  OBVIOUS
<1> HIDE DEF minted
<1>6. Sound(minted, ver') /\ HasAlias(minted, l, Now) /\ SameLabels(reg, minted)
  BY <1>1, <1>2, <1>3, <1>4, MintIsSound
<1>7. \A b \in reg.binding : b.ns # Now
  BY <1>3 DEF RegistryInv, Sound, BindingsDistinct, AliasesResolve, HasAlias
<1>8. CanBind(minted, Now, ctx) /\ OneEach(minted, shared) /\ BindingsOf(minted, Now) = {}
  BY <1>2, <1>5, <1>7 DEF RegistryInv, CanBind, OneEach, BindingsOf
<1>9. Sound(reg', ver') /\ reg'.identity = minted.identity /\ reg'.alias = minted.alias
  BY <1>1, <1>2, <1>6, <1>8, BindIsSound
<1>10. OneEach(reg', shared')
  BY <1>1, <1>2, <1>6, <1>8, BindKeepsOwners
<1>11. \A m \in migration : \E i \in reg'.identity : i.ns = m.ns
  BY <1>5, <1>9 DEF RegistryInv, HistoryIsWhole
<1>12. HistoryIsWhole'
  BY <1>1, <1>2, <1>11, HistoryStaysWhole
<1>13. JobIsOwn'
  BY <1>2, <1>5, <1>9 DEF RegistryInv, JobIsOwn
<1>14. \A i \in reg'.identity : i.db \in files'
  BY <1>2, <1>5, <1>9 DEF RegistryInv
<1>15. ver' \in 0..MaxVer /\ shared' \subseteq 0..ver'
  BY <1>1, <1>2, BoundsNat DEF RegistryInv, Commit
<1>16. SameLabels(reg, reg')
  BY <1>6, <1>9 DEF SameLabels, HasAlias
<1>17. LabelsKept(reg, reg')
  BY <1>1, <1>9, <1>16, SameLabelsAreKept
<1>18. QED BY <1>9, <1>10, <1>12, <1>13, <1>14, <1>15, <1>17 DEF RegistryInv

\* Registration, in each of its outcomes.
LEMMA RegisterKeeps ==
    ASSUME RegistryInv, NEW l \in Label, NEW ctx \in Context \cup {NoRepo}, NEW explicit \in BOOLEAN,
           Register(l, ctx, explicit)
    PROVE  RegistryInv' /\ LabelsKept(reg, reg')
<1>1. PICK k \in Label : Publish(k, ctx, explicit)
  <2>1. OwnedElsewhere(l, ctx, explicit) => ctx \in Context
    BY DEF OwnedElsewhere, Foreign
  <2>2. QED BY <2>1, ForksAreLabels DEF Register
<1>2. QED BY <1>1, ReuseKeeps, AttachKeeps, MintKeeps DEF Publish

\* The counter of a registered namespace.
LEMMA TouchKeeps ==
    ASSUME RegistryInv, NEW ns, Touch(ns)
    PROVE  RegistryInv' /\ LabelsKept(reg, reg')
<1>1. /\ ver \in Nat /\ ver' \in Nat /\ Now = ver' /\ Now \in 0..ver'
      /\ 0..ver \subseteq 0..ver' /\ Sound(reg, ver')
  BY NextCommit DEF Touch
<1> DEFINE s == Stamp(reg, ns, Now)
<1>2. Sound(s, ver') /\ SameFiles(reg, s) /\ s.alias = reg.alias /\ s.binding = reg.binding
  BY <1>1, StampIsSound
<1>3. reg' = StampLegacy(s, Db(reg, ns), Now)
  BY DEF Touch
<1> HIDE DEF s
<1>4. /\ Sound(reg', ver') /\ reg'.identity = s.identity
      /\ reg'.alias = s.alias /\ reg'.binding = s.binding
  BY <1>1, <1>2, <1>3, StampLegacyIsSound
<1>5. shared' = shared /\ shared' \subseteq 0..ver'
  BY <1>1 DEF RegistryInv, Touch
<1>6. SameFiles(reg, reg') /\ OneEach(reg', shared')
  BY <1>2, <1>4, <1>5 DEF SameFiles, OneEach, RegistryInv
<1>7. RegistryInv'
  BY <1>4, <1>5, <1>6, CommitKeeps DEF Touch
<1>8. LabelsKept(reg, reg')
  BY <1>2, <1>4 DEF RegistryInv, Sound, AliasesResolve, LabelsKept
<1>9. QED BY <1>7, <1>8

-----------------------------------------------------------------------------
(* Migrations and retirement.                                               *)

\* Taking or dropping the migration lock changes no row.
LEMMA RowsStay ==
    ASSUME RegistryInv, UNCHANGED <<reg, migration, files, ver, shared>>,
           job' = None \/ job'.kind = "migrate"
    PROVE  RegistryInv' /\ LabelsKept(reg, reg')
<1>1. JobIsOwn'
  BY DEF JobIsOwn
<1>2. HistoryIsWhole'
  BY DEF RegistryInv, HistoryIsWhole
<1>3. LabelsKept(reg, reg')
  BY DEF RegistryInv, Sound, AliasesResolve, LabelsKept
<1>4. QED BY <1>1, <1>2, <1>3 DEF RegistryInv

\* An alias or a rename, with its history row.
LEMMA CommitChangeKeeps ==
    ASSUME RegistryInv, NEW action \in {"alias", "rename"}, NEW old \in Label, NEW new \in Label,
           NEW ctx \in Named \cup {NoRepo}, CommitChange(action, old, new, ctx)
    PROVE  RegistryInv' /\ LabelsKept(reg, reg')
<1> DEFINE ns == NsOf(reg, old)
           repo == RepoKey(reg, ns, ctx)
           row == [id |-> Now, ns |-> ns, action |-> action, old |-> old, new |-> new, repo |-> repo,
                   before |-> NsState(reg, ns), after |-> NsState(reg', ns), undone |-> 0]
<1>1. /\ ver' = ver + 1 /\ ver \in Nat /\ ver' \in Nat /\ Now = ver' /\ Now \in 0..ver'
      /\ 0..ver \subseteq 0..ver' /\ Sound(reg, ver')
  BY NextCommit DEF CommitChange
<1>2. /\ CanPlan(reg, old, new, ctx) /\ CanBind(reg, ns, ctx)
      /\ RelabelsTo(reg, ns, action, old, new, ctx, Now, reg')
      /\ migration' = migration \cup {row}
      /\ shared' = IF ctx # NoRepo THEN shared \cup {ns} ELSE shared
      /\ job' = None /\ files' = files /\ Commit
  BY DEF CommitChange, RelabelsTo
<1>3. row = [id |-> Now, ns |-> ns, action |-> action, old |-> old, new |-> new, repo |-> repo,
             before |-> NsState(reg, ns), after |-> NsState(reg', ns), undone |-> 0]
  OBVIOUS
<1>4. ctx \in Context \cup {NoRepo}
  BY ContextsNamed
<1>5. PICK me \in reg.identity : me.ns = ns /\ ns \in 0..ver
  <2>1. HasAlias(reg, old, ns) /\ ns \in 0..ver
    BY <1>1, <1>2, NsOfResolves DEF RegistryInv, CanPlan
  <2>2. QED BY <2>1 DEF HasAlias, RegistryInv, Sound, AliasesResolve
<1>6. ns = NsOf(reg, old)
  OBVIOUS
<1> HIDE DEF ns, repo, row
<1>7. shared \subseteq shared' /\ shared' \subseteq 0..ver' /\ (ctx = NoRepo \/ ns \in shared')
  BY <1>1, <1>2, <1>5 DEF RegistryInv
<1>8. OneEach(reg, shared')
  BY <1>7 DEF RegistryInv, OneEach
<1>9. Sound(reg', ver') /\ SameFiles(reg, reg') /\ SameLabels(reg, reg') /\ OneEach(reg', shared')
  BY <1>1, <1>2, <1>4, <1>6, <1>7, <1>8, RelabelIsSound
<1>10. PICK you \in reg'.identity : you.ns = ns /\ you.db = me.db
  BY <1>5, <1>9 DEF SameFiles
<1>11. /\ Whole(NsState(reg, ns), ns, ver')
       /\ NsState(reg, ns).identity = me
       /\ NsState(reg, ns).aliases = {a \in reg.alias : a.ns = ns}
       /\ NsState(reg, ns).bindings = {b \in reg.binding : b.ns = ns}
  BY <1>1, <1>5, StateIsWhole
<1>12. /\ NsState(reg', ns).identity = you
       /\ NsState(reg', ns).aliases = {a \in reg'.alias : a.ns = ns}
  <2>1. PICK t : t = reg'
    OBVIOUS
  <2>2. PICK v : v = ver'
    OBVIOUS
  <2>3. v \in Nat /\ Sound(t, v) /\ you \in t.identity /\ you.ns = ns
    BY <1>1, <1>9, <1>10, <2>1, <2>2
  <2>4. NsState(t, you.ns).identity = you
    BY <2>3, StateIsWhole
  <2>5. NsState(t, you.ns).aliases = {a \in t.alias : a.ns = you.ns}
    BY <2>3, StateIsWhole
  <2>6. QED BY <2>1, <2>3, <2>4, <2>5
<1>13. HistoryIsWhole'
  <2>1. /\ row.id = Now /\ row.ns = ns /\ row.undone = 0
        /\ row.before = NsState(reg, ns) /\ row.after = NsState(reg', ns)
        /\ row = [id |-> row.id, ns |-> row.ns, action |-> row.action, old |-> row.old, new |-> row.new,
                  repo |-> row.repo, before |-> row.before, after |-> row.after, undone |-> row.undone]
    BY <1>3
  <2>2. row.before.identity.db = row.after.identity.db
    BY <1>10, <1>11, <1>12, <2>1
  <2>3. \A a \in row.before.aliases : \E d \in row.after.aliases : d.label = a.label
    BY <1>9, <1>11, <1>12, <2>1 DEF SameLabels, HasAlias
  <2>4. ns \in shared' \/ \A b, c \in row.before.bindings : b = c
    BY <1>8, <1>11, <2>1 DEF OneEach
  <2>5. row.id \in 1..ver' /\ row.undone \in 0..ver'
    BY <1>1, <2>1
  <2>6. \A m \in migration : \E i \in reg'.identity : i.ns = m.ns
    BY <1>9 DEF RegistryInv, HistoryIsWhole, SameFiles
  <2>7. \A m \in migration : Whole(m.before, m.ns, ver')
    BY <1>1, SoundLater DEF RegistryInv, HistoryIsWhole, Whole
  <2>8. 1..ver \subseteq 1..ver'
    BY <1>1
  <2>9. ASSUME NEW m \in migration
        PROVE  /\ m = [id |-> m.id, ns |-> m.ns, action |-> m.action, old |-> m.old, new |-> m.new,
                       repo |-> m.repo, before |-> m.before, after |-> m.after, undone |-> m.undone]
               /\ m.id \in 1..ver' /\ m.undone \in 0..ver'
               /\ m.before.identity.db = m.after.identity.db
               /\ \A a \in m.before.aliases : \E d \in m.after.aliases : d.label = a.label
               /\ m.ns \in shared' \/ \A b, c \in m.before.bindings : b = c
    BY <1>1, <1>7, <2>8 DEF RegistryInv, HistoryIsWhole
  <2>10. QED BY <1>2, <1>10, <1>11, <2>1, <2>2, <2>3, <2>4, <2>5, <2>6, <2>7, <2>9 DEF HistoryIsWhole
<1>14. JobIsOwn'
  BY <1>2 DEF JobIsOwn
<1>15. \A i \in reg'.identity : i.db \in files'
  BY <1>2, <1>9 DEF RegistryInv, SameFiles
<1>16. ver' \in 0..MaxVer
  BY <1>1, <1>2, BoundsNat DEF RegistryInv, Commit, Now
<1>17. LabelsKept(reg, reg')
  BY <1>1, <1>9, SameLabelsAreKept
<1>18. QED BY <1>7, <1>9, <1>13, <1>14, <1>15, <1>16, <1>17 DEF RegistryInv

\* The namespace of a migration that can be undone is as the record says.
LEMMA UndoFits ==
    ASSUME RegistryInv, NEW m \in migration, Undoable(m), NEW me \in reg.identity, me.ns = m.ns
    PROVE  /\ m.after.aliases = {a \in reg.alias : a.ns = me.ns}
           /\ m.after.bindings = {b \in reg.binding : b.ns = me.ns}
           /\ m.after.legacy = {r \in reg.legacy : r.db = me.db}
           /\ m.before.identity.db = me.db
           /\ Whole(m.before, me.ns, ver)
           /\ \A a \in m.before.aliases : HasAlias(reg, a.label, me.ns)
<1>1. ver \in Nat /\ Sound(reg, ver)
  BY DEF RegistryInv
<1>2. /\ m.after.identity = me
      /\ m.after.aliases = {a \in reg.alias : a.ns = me.ns}
      /\ m.after.bindings = {b \in reg.binding : b.ns = me.ns}
      /\ m.after.legacy = {r \in reg.legacy : r.db = me.db}
  BY <1>1, StateIsWhole DEF Undoable
<1>3. /\ Whole(m.before, m.ns, ver)
      /\ m.before.identity.db = m.after.identity.db
      /\ \A a \in m.before.aliases : \E d \in m.after.aliases : d.label = a.label
  BY DEF RegistryInv, HistoryIsWhole
<1>4. \A a \in m.before.aliases : HasAlias(reg, a.label, me.ns)
  BY <1>2, <1>3 DEF HasAlias
<1>5. QED BY <1>2, <1>3, <1>4

\* An undo: the rows of before the change come back.
LEMMA CommitUndoKeeps ==
    ASSUME RegistryInv, NEW m \in migration, CommitUndo(m)
    PROVE  RegistryInv' /\ LabelsKept(reg, reg')
<1>1. /\ ver' = ver + 1 /\ ver \in Nat /\ ver' \in Nat /\ Now = ver' /\ Now \in 0..ver'
      /\ 0..ver \subseteq 0..ver' /\ Sound(reg, ver')
  BY NextCommit DEF CommitUndo
<1> DEFINE done == [m EXCEPT !.undone = Now]
<1>2. /\ Undoable(m) /\ Restorable(reg, m.ns, m.before)
      /\ reg' = Restored(reg, m.ns, m.before)
      /\ migration' = (migration \ {m}) \cup {done}
      /\ job' = None /\ files' = files /\ shared' = shared /\ Commit
  BY DEF CommitUndo
<1>3. PICK me \in reg.identity : me.ns = m.ns
  BY DEF RegistryInv, HistoryIsWhole
<1>4. /\ m.before.identity.db = me.db
      /\ Whole(m.before, me.ns, ver)
      /\ \A a \in m.before.aliases : HasAlias(reg, a.label, me.ns)
  BY <1>2, <1>3, UndoFits
<1>5. Whole(m.before, me.ns, ver')
  BY <1>1, <1>4, SoundLater DEF Whole
<1>6. /\ Sound(reg', ver') /\ SameFiles(reg, reg')
      /\ reg'.alias = {a \in reg.alias : a.ns # me.ns} \cup m.before.aliases
      /\ reg'.binding = {b \in reg.binding : b.ns # me.ns} \cup m.before.bindings
      /\ \A a \in m.before.aliases : a.ns = me.ns
      /\ \A b \in m.before.bindings : b.ns = me.ns
  BY <1>1, <1>2, <1>3, <1>4, <1>5, RestoreIsSound
<1>7. OneEach(reg', shared')
  BY <1>2, <1>3, <1>6 DEF RegistryInv, HistoryIsWhole, OneEach
<1>8. HistoryIsWhole'
  <2>1. /\ done.id = m.id /\ done.ns = m.ns /\ done.undone = Now
        /\ done.before = m.before /\ done.after = m.after
        /\ done = [id |-> done.id, ns |-> done.ns, action |-> done.action, old |-> done.old, new |-> done.new,
                   repo |-> done.repo, before |-> done.before, after |-> done.after, undone |-> done.undone]
    BY DEF RegistryInv, HistoryIsWhole
  <2> HIDE DEF done
  <2>2. \A n \in migration : \E i \in reg'.identity : i.ns = n.ns
    BY <1>6 DEF RegistryInv, HistoryIsWhole, SameFiles
  <2>3. \A n \in migration : Whole(n.before, n.ns, ver')
    BY <1>1, SoundLater DEF RegistryInv, HistoryIsWhole, Whole
  <2>4. 1..ver \subseteq 1..ver'
    BY <1>1
  <2>5. ASSUME NEW n \in migration
        PROVE  /\ n = [id |-> n.id, ns |-> n.ns, action |-> n.action, old |-> n.old, new |-> n.new,
                       repo |-> n.repo, before |-> n.before, after |-> n.after, undone |-> n.undone]
               /\ n.id \in 1..ver' /\ n.undone \in 0..ver'
               /\ n.before.identity.db = n.after.identity.db
               /\ \A a \in n.before.aliases : \E d \in n.after.aliases : d.label = a.label
               /\ n.ns \in shared' \/ \A b, c \in n.before.bindings : b = c
    BY <1>1, <1>2, <2>4 DEF RegistryInv, HistoryIsWhole
  <2>6. QED BY <1>1, <1>2, <2>1, <2>2, <2>3, <2>5 DEF HistoryIsWhole
<1>9. JobIsOwn'
  BY <1>2 DEF JobIsOwn
<1>10. \A i \in reg'.identity : i.db \in files'
  BY <1>2, <1>6 DEF RegistryInv, SameFiles
<1>11. ver' \in 0..MaxVer /\ shared' \subseteq 0..ver'
  BY <1>1, <1>2, BoundsNat DEF RegistryInv, Commit, Now
<1>12. LabelsKept(reg, reg')
  BY <1>1, <1>4, <1>6 DEF LabelsKept, HasAlias, Sound, AliasesResolve
<1>13. QED BY <1>6, <1>7, <1>8, <1>9, <1>10, <1>11, <1>12 DEF RegistryInv

\* An alias leaves.
LEMMA RetireAliasKeeps ==
    ASSUME RegistryInv, NEW a \in reg.alias, RetireAlias(a)
    PROVE  RegistryInv' /\ LabelsKept(reg, reg')
<1>1. ver' \in Nat /\ 0..ver \subseteq 0..ver' /\ Sound(reg, ver')
  BY NextCommit DEF RetireAlias
<1>2. /\ ~Blocked(a) /\ Commit /\ UNCHANGED <<migration, files, job, shared>>
      /\ reg' = [reg EXCEPT !.alias = @ \ {a}, !.legacy = @ \ LegacyRows(a)]
  BY DEF RetireAlias
<1>3. /\ Sound(reg', ver') /\ reg'.identity = reg.identity /\ reg'.binding = reg.binding
      /\ reg'.alias = reg.alias \ {a}
  BY <1>1, <1>2, RetireAliasIsSound
<1>4. SameFiles(reg, reg') /\ OneEach(reg', shared')
  BY <1>2, <1>3 DEF SameFiles, OneEach, RegistryInv
<1>5. shared \subseteq shared' /\ shared' \subseteq 0..ver'
  BY <1>1, <1>2 DEF RegistryInv
<1>6. RegistryInv'
  BY <1>2, <1>3, <1>4, <1>5, CommitKeeps
<1>7. LabelsKept(reg, reg')
  BY <1>1, <1>3 DEF LabelsKept, Sound, AliasesResolve
<1>8. QED BY <1>6, <1>7

\* An identity leaves, with its aliases and attachments.
LEMMA RetireNamespaceKeeps ==
    ASSUME RegistryInv, NEW me \in reg.identity, RetireNamespace(me.ns)
    PROVE  RegistryInv' /\ LabelsKept(reg, reg')
<1>1. /\ ver' = ver + 1 /\ ver \in Nat /\ ver' \in Nat /\ 0..ver \subseteq 0..ver' /\ Sound(reg, ver')
  BY NextCommit DEF RetireNamespace
<1>2. /\ \A m \in migration : m.ns # me.ns
      /\ RetiresTo(reg, me.ns, reg')
      /\ job' = [kind |-> "retire", db |-> Db(reg, me.ns), at |-> Now]
      /\ Commit /\ UNCHANGED <<migration, files, shared>>
  BY DEF RetireNamespace, RetiresTo
<1>3. Sound(reg', ver')
  BY <1>1, <1>2, RetireIsSound
<1>4. /\ reg'.identity = {i \in reg.identity : i.ns # me.ns}
      /\ reg'.alias = {a \in reg.alias : a.ns # me.ns}
      /\ reg'.binding = {b \in reg.binding : b.ns # me.ns}
  BY <1>2 DEF RetiresTo
<1>5. \A m \in migration : \E i \in reg'.identity : i.ns = m.ns
  BY <1>2, <1>4 DEF RegistryInv, HistoryIsWhole
<1>6. HistoryIsWhole'
  BY <1>1, <1>2, <1>5, HistoryStaysWhole
<1>7. JobIsOwn'
  <2>1. job'.db = me.db
    BY <1>1, <1>2, IdentityResolves
  <2>2. QED BY <1>1, <1>2, <1>4, <2>1 DEF RegistryInv, JobIsOwn, Sound, IdentitiesDistinct
<1>8. OneEach(reg', shared') /\ \A i \in reg'.identity : i.db \in files'
  BY <1>2, <1>4 DEF RegistryInv, OneEach
<1>9. ver' \in 0..MaxVer /\ shared' \subseteq 0..ver'
  BY <1>1, <1>2, BoundsNat DEF RegistryInv, Commit, Now
<1>10. LabelsKept(reg, reg')
  BY <1>1, <1>4 DEF LabelsKept, Sound, AliasesResolve
<1>11. QED BY <1>3, <1>6, <1>7, <1>8, <1>9, <1>10 DEF RegistryInv

\* The last commit of a retirement.
LEMMA FinishRetireKeeps ==
    ASSUME RegistryInv, FinishRetire
    PROVE  RegistryInv' /\ LabelsKept(reg, reg')
<1>1. \A i \in reg'.identity : i.db \in files'
  BY DEF RegistryInv, JobIsOwn, FinishRetire
<1>2. JobIsOwn' /\ HistoryIsWhole'
  BY DEF JobIsOwn, RegistryInv, HistoryIsWhole, FinishRetire
<1>3. LabelsKept(reg, reg')
  BY DEF RegistryInv, Sound, AliasesResolve, LabelsKept, FinishRetire
<1>4. QED BY <1>1, <1>2, <1>3 DEF RegistryInv, FinishRetire

-----------------------------------------------------------------------------
(* The theorems.                                                            *)

\* An empty registry, or one projected from two legacy names of one file.
LEMMA InitIsResolved == Init => RegistryInv
<1>1. SUFFICES ASSUME Init PROVE RegistryInv
  OBVIOUS
<1>2. ver = 0 /\ migration = {} /\ job = None /\ shared = {}
  BY <1>1 DEF Init
<1>3. Sound(reg, 0) /\ (\A i \in reg.identity : i.db \in files) /\ reg.binding = {}
  <2>1. CASE reg = [identity |-> {}, alias |-> {}, binding |-> {}, legacy |-> {}]
    BY <2>1 DEF Sound, Tables, IdentitiesDistinct, AliasesResolve, CanonicalIsOne, BindingsDistinct,
       NamesProjected
  <2>2. ASSUME NEW l \in Label, NEW m \in Label, l # m, files = {l},
               reg = [identity |-> {[ns |-> 0, label |-> l, db |-> l, at |-> 0]},
                      alias |-> {Alias(l, 0, TRUE, None, 0), Alias(m, 0, FALSE, None, 0)},
                      binding |-> {},
                      legacy |-> {[name |-> l, db |-> l, at |-> 0], [name |-> m, db |-> l, at |-> 0]}]
        PROVE  Sound(reg, 0) /\ (\A i \in reg.identity : i.db \in files) /\ reg.binding = {}
    <3> DEFINE i == [ns |-> 0, label |-> l, db |-> l, at |-> 0]
               a == Alias(l, 0, TRUE, None, 0)
               b == Alias(m, 0, FALSE, None, 0)
               r == [name |-> l, db |-> l, at |-> 0]
               s == [name |-> m, db |-> l, at |-> 0]
    <3>1. /\ i \in IdentityRows(0) /\ a \in AliasRows(0) /\ b \in AliasRows(0)
          /\ r \in NameRows(0) /\ s \in NameRows(0)
      BY <2>2 DEF IdentityRows, AliasRows, NameRows, Alias
    <3>2. /\ i.ns = 0 /\ i.label = l /\ i.db = l
          /\ a.label = l /\ a.ns = 0 /\ a.canonical /\ a.source = None
          /\ b.label = m /\ b.ns = 0 /\ ~b.canonical /\ b.source = None
          /\ r.name = l /\ r.db = l /\ s.name = m /\ s.db = l
      BY DEF Alias
    <3>3. /\ reg.identity = {i} /\ reg.alias = {a, b} /\ reg.binding = {} /\ reg.legacy = {r, s}
          /\ reg = [identity |-> reg.identity, alias |-> reg.alias, binding |-> reg.binding,
                    legacy |-> reg.legacy]
      BY <2>2
    <3> HIDE DEF i, a, b, r, s
    <3>4. reg \in Tables(0)
      BY <3>1, <3>3 DEF Tables
    <3>5. HasAlias(reg, l, 0) /\ HasAlias(reg, m, 0)
      BY <3>2, <3>3 DEF HasAlias
    <3>6. IdentitiesDistinct(reg) /\ AliasesResolve(reg) /\ BindingsDistinct(reg)
      <4>1. IdentitiesDistinct(reg) /\ BindingsDistinct(reg)
        BY <3>3 DEF IdentitiesDistinct, BindingsDistinct
      <4>2. \A x \in reg.alias : (x = a \/ x = b) /\ x.ns = 0 /\ x.source = None
        BY <3>2, <3>3
      <4>3. \A x, y \in reg.alias : x.label = y.label => x = y
        <5>1. a.label # b.label
          <6>1. a.label = l /\ b.label = m
            BY <3>2
          <6>2. QED BY <2>2, <6>1
        <5>2. SUFFICES ASSUME NEW x \in reg.alias, NEW y \in reg.alias, x.label = y.label
                       PROVE  x = y
          OBVIOUS
        <5>3. (x = a \/ x = b) /\ (y = a \/ y = b)
          BY <4>2
        <5>4. QED BY <5>1, <5>2, <5>3
      <4>4. \A x \in reg.alias : \E j \in reg.identity : j.ns = x.ns
        BY <3>2, <3>3, <4>2
      <4>5. QED BY <4>1, <4>2, <4>3, <4>4 DEF AliasesResolve
    <3>7. CanonicalIsOne(reg)
      <4>1. \A j \in reg.identity : j.label = l /\ j.ns = 0
        BY <3>2, <3>3
      <4>2. (a.canonical <=> a.label = l) /\ (b.canonical <=> b.label = l)
        BY <2>2, <3>2
      <4> DEFINE Fits(x) == x.canonical <=> x.label = l
      <4>3. Fits(a) /\ Fits(b)
        BY <4>2
      <4> HIDE DEF Fits
      <4>4. \A x \in reg.alias : Fits(x)
        BY <3>3, <4>3
      <4> USE DEF Fits
      <4>5. QED BY <3>5, <4>1, <4>4 DEF CanonicalIsOne
    <3>8. NamesProjected(reg)
      BY <3>2, <3>3, <3>5 DEF NamesProjected
    <3>9. QED BY <2>2, <3>2, <3>3, <3>4, <3>6, <3>7, <3>8 DEF Sound
  <2>3. QED BY <1>1, <2>1, <2>2, LegacyPairs DEF Init
<1>4. OneEach(reg, shared) /\ HistoryIsWhole /\ JobIsOwn
  BY <1>2, <1>3 DEF OneEach, HistoryIsWhole, JobIsOwn
<1>5. QED BY <1>2, <1>3, <1>4, BoundsNat DEF RegistryInv

\* No transaction, lock or crash breaks the invariant or moves a label.
LEMMA StepsKeep == RegistryInv /\ [Next]_vars => RegistryInv' /\ LabelsKept(reg, reg')
<1>1. SUFFICES ASSUME RegistryInv, [Next]_vars PROVE RegistryInv' /\ LabelsKept(reg, reg')
  OBVIOUS
<1>2. CASE UNCHANGED vars
  <2>1. RegistryInv'
    BY <1>1, <1>2 DEF vars, RegistryInv, HistoryIsWhole, JobIsOwn
  <2>2. LabelsKept(reg, reg')
    BY <1>1, <1>2 DEF vars, RegistryInv, Sound, AliasesResolve, LabelsKept
  <2>3. QED BY <2>1, <2>2
<1>3. ASSUME NEW l \in Label, NEW ctx \in Context \cup {NoRepo}, NEW explicit \in BOOLEAN,
             Register(l, ctx, explicit)
      PROVE  RegistryInv' /\ LabelsKept(reg, reg')
  BY <1>1, <1>3, RegisterKeeps
<1>4. ASSUME NEW i \in reg.identity, Touch(i.ns) PROVE RegistryInv' /\ LabelsKept(reg, reg')
  BY <1>1, <1>4, TouchKeeps
<1>5. CASE Begin
  BY <1>1, <1>5, RowsStay DEF Begin
<1>6. ASSUME NEW action \in {"alias", "rename"}, NEW old \in Label, NEW new \in Label,
             NEW ctx \in Named \cup {NoRepo}, CommitChange(action, old, new, ctx)
      PROVE  RegistryInv' /\ LabelsKept(reg, reg')
  BY <1>1, <1>6, CommitChangeKeeps
<1>7. ASSUME NEW m \in migration, CommitUndo(m) PROVE RegistryInv' /\ LabelsKept(reg, reg')
  BY <1>1, <1>7, CommitUndoKeeps
<1>8. CASE Abandon
  BY <1>1, <1>8, RowsStay DEF Abandon
<1>9. ASSUME NEW a \in reg.alias, RetireAlias(a) PROVE RegistryInv' /\ LabelsKept(reg, reg')
  BY <1>1, <1>9, RetireAliasKeeps
<1>10. ASSUME NEW i \in reg.identity, RetireNamespace(i.ns) PROVE RegistryInv' /\ LabelsKept(reg, reg')
  BY <1>1, <1>10, RetireNamespaceKeeps
<1>11. CASE FinishRetire
  BY <1>1, <1>11, FinishRetireKeeps
<1>12. QED BY <1>1, <1>2, <1>3, <1>4, <1>5, <1>6, <1>7, <1>8, <1>9, <1>10, <1>11 DEF Next

\* The registry between any two transactions of register_namespace,
\* touch_namespace, change_namespace_label, undo and retirement.
THEOREM RegistryInvariant == Spec => []RegistryInv
<1>1. RegistryInv /\ [Next]_vars => RegistryInv'
  BY StepsKeep
<1>2. QED BY <1>1, InitIsResolved, PTL DEF Spec

\* Every label, binding, alias source and compatibility row leads to the one
\* identity it should.
THEOREM RegistryStaysResolved == Spec => []RegistryResolves
<1>1. RegistryInv => RegistryResolves
  <2>1. SUFFICES ASSUME RegistryInv PROVE RegistryResolves
    OBVIOUS
  <2>2. ver \in Nat /\ Sound(reg, ver)
    BY <2>1 DEF RegistryInv
  <2>3. TypeOK
    <3>1. \A i \in reg.identity : i.label \in Label /\ i.db \in files /\ i.ns <= ver /\ i.at <= ver
      BY <2>1, <2>2 DEF RegistryInv, Sound, Tables, IdentityRows
    <3>2. \A a \in reg.alias : a.label \in Label /\ a.canonical \in BOOLEAN /\ a.source \in Label \cup {None}
      BY <2>2 DEF Sound, Tables, AliasRows
    <3>3. \A b \in reg.binding : b.id <= ver /\ [remote |-> b.remote, path |-> b.path] # NoRepo
      BY <2>2 DEF Sound, Tables, BindingRows, BindingsDistinct, NoRepo
    <3>4. \A m \in migration : m.id \in 1..ver /\ m.undone \in 0..ver
      BY <2>1 DEF RegistryInv, HistoryIsWhole
    <3>5. QED BY <2>1, <3>1, <3>2, <3>3, <3>4 DEF TypeOK, RegistryInv
  <2>4. LabelsResolve
    BY <2>2 DEF LabelsResolve, Sound, AliasesResolve, CanonicalIsOne, IdentitiesDistinct, HasAlias
  <2>5. BindingsResolve
    BY <2>2, NsOfResolves DEF BindingsResolve, Sound, BindingsDistinct
  <2>6. SourcesResolve
    BY <2>2, NsOfResolves DEF SourcesResolve, Sound, AliasesResolve
  <2>7. LegacyProjected
    BY <2>2, NsOfResolves DEF LegacyProjected, Sound, NamesProjected
  <2>8. QED BY <2>3, <2>4, <2>5, <2>6, <2>7 DEF RegistryResolves
<1>2. QED BY <1>1, RegistryInvariant, PTL

\* A namespace belongs to one repository unless somebody named it for more.
THEOREM OwnersStayApart == Spec => []OneOwner
<1>1. RegistryInv => OneOwner
  <2>1. SUFFICES ASSUME RegistryInv, NEW i \in reg.identity, i.ns \notin shared
                 PROVE  Cardinality(BindingsOf(reg, i.ns)) <= 1
    BY DEF OneOwner
  <2>2. \A b, c \in BindingsOf(reg, i.ns) : b = c
    BY <2>1 DEF RegistryInv, OneEach, BindingsOf
  <2>3. BindingsOf(reg, i.ns) = {} \/ \E b : BindingsOf(reg, i.ns) = {b}
    BY <2>2
  <2>4. QED BY <2>3, FS_EmptySet, FS_Singleton
<1>2. QED BY <1>1, RegistryInvariant, PTL

\* No transaction moves a label to another namespace, an undo included.
THEOREM LabelsStayPut == Spec => LabelsNeverRepoint
<1>1. RegistryInv /\ [Next]_vars =>
        [\A x \in reg.alias, y \in reg'.alias : x.label = y.label => x.ns = y.ns]_vars
  BY StepsKeep DEF LabelsKept
<1>2. QED BY <1>1, RegistryInvariant, PTL DEF Spec, LabelsNeverRepoint

\* An undo puts one namespace back to what its migration found, and touches
\* no row the migration did not.
THEOREM UndoTakesNothing == Spec => UndoLosesNothing
<1>1. RegistryInv /\ [Next]_vars =>
        [\A m \in migration : m.undone = 0 /\ m \notin migration' =>
            /\ reg.alias \ reg'.alias \subseteq m.after.aliases \ m.before.aliases
            /\ reg.binding \ reg'.binding \subseteq m.after.bindings \ m.before.bindings
            /\ reg.legacy \ reg'.legacy \subseteq m.after.legacy \ m.before.legacy
            /\ reg'.alias \ reg.alias \subseteq m.before.aliases \ m.after.aliases]_vars
  <2>1. SUFFICES ASSUME RegistryInv, Next, NEW m \in migration, m.undone = 0, m \notin migration'
                 PROVE  /\ reg.alias \ reg'.alias \subseteq m.after.aliases \ m.before.aliases
                        /\ reg.binding \ reg'.binding \subseteq m.after.bindings \ m.before.bindings
                        /\ reg.legacy \ reg'.legacy \subseteq m.after.legacy \ m.before.legacy
                        /\ reg'.alias \ reg.alias \subseteq m.before.aliases \ m.after.aliases
    OBVIOUS
  <2>2. CommitUndo(m)
    <3>1. CASE \E l \in Label, ctx \in Context \cup {NoRepo}, explicit \in BOOLEAN : Register(l, ctx, explicit)
      <4>1. \A l, ctx, explicit : Publish(l, ctx, explicit) => migration' = migration
        BY DEF Publish, Reuse, Attach, Mint
      <4>2. QED BY <2>1, <3>1, <4>1 DEF Register
    <3>2. CASE \E i \in reg.identity : Touch(i.ns) \/ RetireNamespace(i.ns)
      BY <2>1, <3>2 DEF Touch, RetireNamespace
    <3>3. CASE Begin \/ Abandon \/ FinishRetire \/ \E a \in reg.alias : RetireAlias(a)
      BY <2>1, <3>3 DEF Begin, Abandon, FinishRetire, RetireAlias
    <3>4. CASE \E action \in {"alias", "rename"}, old, new \in Label, ctx \in Named \cup {NoRepo} :
                  CommitChange(action, old, new, ctx)
      BY <2>1, <3>4 DEF CommitChange
    <3>5. CASE \E n \in migration : CommitUndo(n)
      BY <2>1, <3>5 DEF CommitUndo
    <3>6. QED BY <2>1, <3>1, <3>2, <3>3, <3>4, <3>5 DEF Next
  <2>3. PICK me \in reg.identity : me.ns = m.ns
    BY <2>1 DEF RegistryInv, HistoryIsWhole
  <2>4. /\ m.after.aliases = {a \in reg.alias : a.ns = me.ns}
        /\ m.after.bindings = {b \in reg.binding : b.ns = me.ns}
        /\ m.after.legacy = {r \in reg.legacy : r.db = me.db}
    BY <2>1, <2>2, <2>3, UndoFits DEF CommitUndo
  <2>5. /\ reg'.alias = {a \in reg.alias : a.ns # me.ns} \cup m.before.aliases
        /\ reg'.binding = {b \in reg.binding : b.ns # me.ns} \cup m.before.bindings
        /\ reg'.legacy = {r \in reg.legacy : r.db # me.db} \cup m.before.legacy
    BY <2>1, <2>2, <2>3, IdentityResolves DEF CommitUndo, Restored, RegistryInv
  <2>6. QED BY <2>4, <2>5
<1>2. QED BY <1>1, RegistryInvariant, PTL DEF Spec, UndoLosesNothing
=============================================================================
