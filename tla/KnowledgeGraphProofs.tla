------------------------ MODULE KnowledgeGraphProofs ------------------------
(***************************************************************************)
(* Proofs about the knowledge graph: what is stored stays anchored, a fusion *)
(* is carried out as confirmed and every change can be traced, for any files, *)
(* commands and deaths.                                                    *)
(***************************************************************************)
EXTENDS KnowledgeGraph, FiniteSetTheorems, TLAPS

-----------------------------------------------------------------------------
(* Rows, and the order they are written in. *)

Tables == {"entities", "relations", "events"}
EntityFields == {"type", "name", "aliases", "sources"}

\* The entities a row names.
Ends(u) == IF u.table = "relations" THEN {u.row.subject, u.row.object}
           ELSE IF u.table = "events" THEN u.row ELSE {}

\* The rows of some files for a table.
RowsIn(files, kind, what) ==
    UNION {{[table |-> what, id |-> i, row |-> f[what][i]] :
              i \in DOMAIN Part(f, kind, what)} : f \in files}

\* What the first n rows of a queue add to the entities.
Brought(todo, n) == {todo[m].id : m \in {k \in 1..n : todo[k].table = "entities"}}

WellFormed(u) ==
    /\ u.table \in Tables
    /\ u.table = "entities" => u.id \in Nat /\ DOMAIN u.row = EntityFields

\* Every row names entities that are stored or that are written before it.
Grounded(todo, stored) ==
    /\ \E S : todo \in Seq(S)
    /\ \A n \in DOMAIN todo :
          WellFormed(todo[n]) /\ Ends(todo[n]) \subseteq stored \cup Brought(todo, n - 1)

\* The rows of a finite set, each once.
LEMMA SetToSeqCovers ==
    ASSUME NEW S, IsFiniteSet(S)
    PROVE  /\ SetToSeq(S) \in Seq(S) /\ Len(SetToSeq(S)) = Cardinality(S)
           /\ Cardinality(S) \in Nat
           /\ \A x \in S : \E n \in DOMAIN SetToSeq(S) : SetToSeq(S)[n] = x
<1> DEFINE D == 1..Cardinality(S)
           f == SetToSeq(S)
<1>1. Cardinality(S) \in Nat /\ \E b : b \in Bijection(D, S)
  BY FS_CardinalityType DEF ExistsBijection
<1>2. PICK b : b \in Bijection(D, S)
  BY <1>1
<1>3. b \in [D -> S] /\ IsInjective(b)
  BY <1>2 DEF Bijection, Injection
<1>4. f \in [D -> S] /\ IsInjective(f)
  BY <1>3 DEF SetToSeq
<1>5. f \in Injection(D, S)
  BY <1>4 DEF Injection
<1>6. Cardinality(D) = Cardinality(S)
  BY <1>1, FS_Interval
<1>7. f \in Surjection(D, S)
  BY <1>5, <1>6, FS_Injection
<1>8. \A x \in S : \E n \in D : f[n] = x
  BY <1>7 DEF Surjection
<1> HIDE DEF f
<1>9. f \in Seq(S) /\ Len(f) = Cardinality(S) /\ DOMAIN f = D
  BY <1>1, <1>4
<1> QED
  BY <1>1, <1>8, <1>9 DEF f

\* The rows of some files are all in the queue, and finitely many.
LEMMA RowsOfCovers ==
    ASSUME NEW files \in SUBSET KgFiles, NEW kind, NEW what \in Tables
    PROVE  /\ RowsOf(files, kind, what) \in Seq(RowsIn(files, kind, what))
           /\ \A u \in RowsIn(files, kind, what) :
                 \E n \in DOMAIN RowsOf(files, kind, what) : RowsOf(files, kind, what)[n] = u
<1> DEFINE of(f) == {[table |-> what, id |-> i, row |-> f[what][i]] :
                        i \in DOMAIN Part(f, kind, what)}
           sets == {of(f) : f \in files}
<1>1. IsFiniteSet(files)
  BY FS_Subset, KgFilesAssumption
<1>2. ASSUME NEW f \in files PROVE IsFiniteSet(of(f))
  <2>1. IsFiniteSet(DOMAIN Part(f, kind, what))
    <3>1. CASE Takes(kind, what)
      BY <3>1, KgFilesAssumption DEF Part, Tables
    <3>2. CASE ~Takes(kind, what)
      <4>1. DOMAIN Part(f, kind, what) = {}
        BY <3>2 DEF Part
      <4> QED
        BY <4>1, FS_EmptySet
    <3> QED
      BY <3>1, <3>2
  <2> DEFINE g == [i \in DOMAIN Part(f, kind, what) |->
                      [table |-> what, id |-> i, row |-> f[what][i]]]
  <2>2. g \in Surjection(DOMAIN Part(f, kind, what), of(f))
    BY DEF Surjection
  <2> QED
    BY <2>1, <2>2, FS_Surjection
<1>3. IsFiniteSet(sets)
  <2> DEFINE h == [f \in files |-> of(f)]
  <2>1. h \in Surjection(files, sets)
    BY DEF Surjection
  <2> QED
    BY <1>1, <2>1, FS_Surjection
<1>4. IsFiniteSet(UNION sets)
  BY <1>2, <1>3, FS_UNION
<1> QED
  BY <1>4, SetToSeqCovers DEF RowsOf, RowsIn

\* A queue that is extended keeps its first rows.
LEMMA ConcatParts ==
    ASSUME NEW S, NEW T, NEW s \in Seq(S), NEW t \in Seq(T)
    PROVE  /\ s \o t \in Seq(S \cup T)
           /\ Len(s \o t) = Len(s) + Len(t) /\ Len(s) \in Nat /\ Len(t) \in Nat
           /\ \A n \in 1..Len(s) : (s \o t)[n] = s[n]
           /\ \A n \in 1..Len(t) : (s \o t)[Len(s) + n] = t[n]
           /\ DOMAIN (s \o t) = 1..Len(s \o t)
<1>1. s \in Seq(S \cup T) /\ t \in Seq(S \cup T)
  OBVIOUS
<1> QED
  BY <1>1

\* What an extraction has accepted names only what the store has or what it brings
\* itself; the entities go first.
LEMMA AcceptedGrounded ==
    ASSUME NEW files \in SUBSET KgFiles, NEW kind, ExtractionAccepted(files, kind)
    PROVE  Grounded(Upserts(files, kind), DOMAIN kgStore.entities)
<1> DEFINE all(what) == RowsIn(files, kind, what)
           E == RowsOf(files, kind, "entities")
           R == RowsOf(files, kind, "relations")
           V == RowsOf(files, kind, "events")
           stored == DOMAIN kgStore.entities
           todo == Upserts(files, kind)
<1>1. /\ E \in Seq(all("entities")) /\ R \in Seq(all("relations")) /\ V \in Seq(all("events"))
      /\ \A u \in all("entities") : \E n \in DOMAIN E : E[n] = u
  BY RowsOfCovers DEF Tables
<1>2. ASSUME NEW u \in all("entities") PROVE WellFormed(u) /\ Ends(u) = {}
  <2>0. PICK f \in files :
         \E i \in DOMAIN Part(f, kind, "entities") :
            u = [table |-> "entities", id |-> i, row |-> f["entities"][i]]
    BY DEF RowsIn
  <2>1. PICK i \in DOMAIN Part(f, kind, "entities") :
         u = [table |-> "entities", id |-> i, row |-> f["entities"][i]]
    BY <2>0
  <2>2. i \in DOMAIN f.entities
    BY DEF Part
  <2> QED
    BY <2>1, <2>2, KgFilesAssumption DEF WellFormed, Ends, Tables, EntityFields
<1> DEFINE brought == {u.id : u \in all("entities")}
<1>3. ASSUME NEW f \in files
      PROVE  LET known == Known(kind, kgStore.entities)
                 own == Part(f, kind, "entities")
             IN  DOMAIN known \cup DOMAIN own \subseteq stored \cup brought
  <2>1. DOMAIN Known(kind, kgStore.entities) \subseteq stored
    BY DEF Known
  <2>2. ASSUME NEW i \in DOMAIN Part(f, kind, "entities") PROVE i \in brought
    <3>1. [table |-> "entities", id |-> i, row |-> f["entities"][i]] \in all("entities")
      BY DEF RowsIn
    <3> QED
      BY <3>1
  <2> QED
    BY <2>1, <2>2
<1>4. ASSUME NEW u \in all("relations")
      PROVE  WellFormed(u) /\ u.table = "relations" /\ Ends(u) \subseteq stored \cup brought
  <2>0. PICK f \in files :
         \E i \in DOMAIN Part(f, kind, "relations") :
            u = [table |-> "relations", id |-> i, row |-> f["relations"][i]]
    BY DEF RowsIn
  <2>1. PICK i \in DOMAIN Part(f, kind, "relations") :
         u = [table |-> "relations", id |-> i, row |-> f["relations"][i]]
    BY <2>0
  <2>2. Part(f, kind, "relations")[i] = f["relations"][i]
    BY DEF Part
  <2>3. CandidatesValid(f, kind, kgStore.entities)
    BY DEF ExtractionAccepted
  <2>4. {u.row.subject, u.row.object} \subseteq DOMAIN Known(kind, kgStore.entities)
                                           \cup DOMAIN Part(f, kind, "entities")
    <3> DEFINE known == Known(kind, kgStore.entities)
               own == Part(f, kind, "entities")
               here == [j \in DOMAIN known \cup DOMAIN own |->
                           IF j \in DOMAIN own THEN own[j] ELSE known[j]]
    <3>1. Typed(Part(f, kind, "relations")[i], here)
      BY <2>3 DEF CandidatesValid
    <3>2. {u.row.subject, u.row.object} \subseteq DOMAIN here
      BY <2>1, <2>2, <3>1 DEF Typed
    <3> QED
      BY <3>2
  <2> QED
    BY <1>3, <2>1, <2>4 DEF WellFormed, Ends, Tables
<1>5. ASSUME NEW u \in all("events")
      PROVE  WellFormed(u) /\ u.table = "events" /\ Ends(u) \subseteq stored \cup brought
  <2>0. PICK f \in files :
         \E i \in DOMAIN Part(f, kind, "events") :
            u = [table |-> "events", id |-> i, row |-> f["events"][i]]
    BY DEF RowsIn
  <2>1. PICK i \in DOMAIN Part(f, kind, "events") :
         u = [table |-> "events", id |-> i, row |-> f["events"][i]]
    BY <2>0
  <2>2. Part(f, kind, "events")[i] = f["events"][i]
    BY DEF Part
  <2>3. CandidatesValid(f, kind, kgStore.entities)
    BY DEF ExtractionAccepted
  <2>4. u.row \subseteq DOMAIN Known(kind, kgStore.entities)
                                           \cup DOMAIN Part(f, kind, "entities")
    <3> DEFINE known == Known(kind, kgStore.entities)
               own == Part(f, kind, "entities")
               here == [j \in DOMAIN known \cup DOMAIN own |->
                           IF j \in DOMAIN own THEN own[j] ELSE known[j]]
    <3>1. Part(f, kind, "events")[i] \subseteq DOMAIN here
      BY <2>3 DEF CandidatesValid
    <3>2. u.row \subseteq DOMAIN here
      BY <2>1, <2>2, <3>1
    <3> QED
      BY <3>2
  <2> QED
    BY <1>3, <2>1, <2>4 DEF WellFormed, Ends, Tables
<1>6. \A u \in all("entities") : u.table = "entities"
  BY DEF RowsIn
<1> HIDE DEF all, E, R, V, brought, stored
<1> DEFINE ER == E \o R
<1>7. /\ ER \in Seq(all("entities") \cup all("relations"))
      /\ Len(ER) = Len(E) + Len(R) /\ Len(E) \in Nat /\ Len(R) \in Nat
      /\ \A n \in 1..Len(E) : ER[n] = E[n]
      /\ \A n \in 1..Len(R) : ER[Len(E) + n] = R[n]
  BY <1>1, ConcatParts
<1>8. todo = ER \o V
  BY DEF Upserts, E, R, V
<1> HIDE DEF ER, todo
<1>9. /\ todo \in Seq((all("entities") \cup all("relations")) \cup all("events"))
      /\ Len(todo) = Len(ER) + Len(V) /\ Len(V) \in Nat
      /\ \A n \in 1..Len(ER) : todo[n] = ER[n]
      /\ \A n \in 1..Len(V) : todo[Len(ER) + n] = V[n]
      /\ DOMAIN todo = 1..Len(todo)
  <2> DEFINE S == all("entities") \cup all("relations")
             T == all("events")
  <2>1. ER \in Seq(S) /\ V \in Seq(T)
    BY <1>1, <1>7
  <2> HIDE DEF S, T
  <2>2. /\ ER \o V \in Seq(S \cup T)
        /\ Len(ER \o V) = Len(ER) + Len(V) /\ Len(V) \in Nat
        /\ \A n \in 1..Len(ER) : (ER \o V)[n] = ER[n]
        /\ \A n \in 1..Len(V) : (ER \o V)[Len(ER) + n] = V[n]
        /\ DOMAIN (ER \o V) = 1..Len(ER \o V)
    BY <2>1, ConcatParts
  <2> QED
    BY <1>8, <2>2 DEF S, T
<1>10. ASSUME NEW n \in Nat, n >= Len(E) PROVE brought \subseteq Brought(todo, n)
  <2> SUFFICES ASSUME NEW u \in all("entities") PROVE u.id \in Brought(todo, n)
    BY DEF brought
  <2>1. PICK m \in DOMAIN E : E[m] = u
    BY <1>1
  <2>2. m \in 1..Len(E)
    BY <1>1, <2>1
  <2>3. m \in 1..n /\ todo[m] = u
    BY <1>7, <1>9, <1>10, <2>1, <2>2
  <2> QED
    BY <1>6, <2>3 DEF Brought
<1>11. ASSUME NEW n \in DOMAIN todo
       PROVE  WellFormed(todo[n]) /\ Ends(todo[n]) \subseteq stored \cup Brought(todo, n - 1)
  <2>1. CASE n \in 1..Len(E)
    <3>1. todo[n] = E[n] /\ E[n] \in all("entities")
      BY <1>1, <1>7, <1>9, <2>1
    <3> QED
      BY <1>2, <3>1
  <2>2. CASE \E k \in 1..Len(R) : n = Len(E) + k
    <3>1. PICK k \in 1..Len(R) : n = Len(E) + k
      BY <2>2
    <3>2. todo[n] = R[k] /\ R[k] \in all("relations")
      BY <1>1, <1>7, <1>9, <3>1
    <3>3. n - 1 \in Nat /\ n - 1 >= Len(E)
      BY <1>7, <3>1
    <3> QED
      BY <1>4, <1>10, <3>2, <3>3
  <2>3. CASE \E k \in 1..Len(V) : n = Len(ER) + k
    <3>1. PICK k \in 1..Len(V) : n = Len(ER) + k
      BY <2>3
    <3>2. todo[n] = V[k] /\ V[k] \in all("events")
      BY <1>1, <1>9, <3>1
    <3>3. n - 1 \in Nat /\ n - 1 >= Len(E)
      BY <1>7, <3>1
    <3> QED
      BY <1>5, <1>10, <3>2, <3>3
  <2>4. n \in 1..Len(E) \/ (\E k \in 1..Len(R) : n = Len(E) + k)
           \/ \E k \in 1..Len(V) : n = Len(ER) + k
    <3>1. n \in 1..(Len(E) + Len(R) + Len(V)) /\ Len(ER) = Len(E) + Len(R)
      BY <1>7, <1>9
    <3>2. CASE n > Len(E) /\ n <= Len(E) + Len(R)
      <4>1. n - Len(E) \in 1..Len(R) /\ n = Len(E) + (n - Len(E))
        BY <1>7, <3>1, <3>2
      <4> QED
        BY <4>1
    <3>3. CASE n > Len(ER)
      <4>1. n - Len(ER) \in 1..Len(V) /\ n = Len(ER) + (n - Len(ER))
        BY <1>7, <1>9, <3>1, <3>3
      <4> QED
        BY <4>1
    <3> QED
      BY <1>7, <3>1, <3>2, <3>3
  <2> QED
    BY <2>1, <2>2, <2>3, <2>4
<1> QED
  BY <1>9, <1>11 DEF Grounded, todo, stored

\* Writing the first row leaves the others grounded in what is then stored.
LEMMA TailGrounded ==
    ASSUME NEW todo, NEW stored, Grounded(todo, stored), todo # <<>>
    PROVE  LET u == Head(todo)
               now == IF u.table = "entities" THEN stored \cup {u.id} ELSE stored
           IN  /\ Grounded(Tail(todo), now)
               /\ WellFormed(u) /\ Ends(u) \subseteq stored
<1> DEFINE u == Head(todo)
           now == IF u.table = "entities" THEN stored \cup {u.id} ELSE stored
           rest == Tail(todo)
<1>1. PICK S : todo \in Seq(S)
  BY DEF Grounded
<1>2. /\ rest \in Seq(S) /\ u = todo[1] /\ 1 \in DOMAIN todo
      /\ \A n \in DOMAIN rest : n \in Nat /\ n >= 1 /\ n + 1 \in DOMAIN todo /\ rest[n] = todo[n + 1]
      /\ DOMAIN rest = 1..Len(rest) /\ Len(rest) \in Nat
  BY <1>1
<1> HIDE DEF u, rest
<1>3. WellFormed(u) /\ Ends(u) \subseteq stored
  <2>1. Brought(todo, 1 - 1) = {}
    BY DEF Brought
  <2> QED
    BY <1>2, <2>1 DEF Grounded
<1>4. ASSUME NEW n \in DOMAIN rest
      PROVE  WellFormed(rest[n]) /\ Ends(rest[n]) \subseteq now \cup Brought(rest, n - 1)
  <2>1. /\ n \in Nat /\ n >= 1 /\ n + 1 \in DOMAIN todo /\ rest[n] = todo[n + 1] /\ n \in 1..Len(rest)
    BY <1>2
  <2>2. WellFormed(todo[n + 1]) /\ Ends(todo[n + 1]) \subseteq stored \cup Brought(todo, (n + 1) - 1)
    BY <2>1 DEF Grounded
  <2>3. ASSUME NEW i \in Brought(todo, (n + 1) - 1) PROVE i \in now \cup Brought(rest, n - 1)
    <3>1. PICK m \in 1..((n + 1) - 1) : todo[m].table = "entities" /\ i = todo[m].id
      BY <2>3 DEF Brought
    <3>2. CASE m = 1
      BY <1>2, <3>1, <3>2
    <3>3. CASE m # 1
      <4>1. m - 1 \in 1..(n - 1) /\ m - 1 \in DOMAIN rest
        BY <1>2, <2>1, <3>1, <3>3
      <4>2. rest[m - 1] = todo[m]
        BY <1>2, <4>1, <3>1
      <4> QED
        BY <3>1, <4>1, <4>2 DEF Brought
    <3> QED
      BY <3>2, <3>3
  <2> QED
    BY <2>1, <2>2, <2>3
<1>5. Grounded(rest, now)
  BY <1>2, <1>4 DEF Grounded
<1> QED
  BY <1>3, <1>5 DEF u, rest
-----------------------------------------------------------------------------
(* The inductive invariant. *)

\* Ids are numbers, entities have their fields, and no relation and no event names an
\* entity the store does not have.
StoreSound(store) ==
    /\ store = [entities |-> store.entities, relations |-> store.relations,
                events |-> store.events, ledger |-> store.ledger]
    /\ \A i \in DOMAIN store.entities : i \in Nat /\ DOMAIN store.entities[i] = EntityFields
    /\ \A r \in DOMAIN store.relations :
          {store.relations[r].subject, store.relations[r].object} \subseteq DOMAIN store.entities
    /\ \A e \in DOMAIN store.events : store.events[e] \subseteq DOMAIN store.entities

AnswerClosed(answer) == \A r \in answer.relations : {r[1], r[2]} \subseteq answer.nodes

Extracting == kgWork # Nothing /\ kgWork.cmd = "extract"

\* The rows an extraction has still to write are grounded in what is stored.
ExtractGrounded ==
    Extracting => /\ kgWork = [cmd |-> "extract", todo |-> kgWork.todo]
                  /\ Grounded(kgWork.todo, DOMAIN kgStore.entities)

PlanDone(p, store) ==
    IF p.canonical \in DOMAIN store.entities
    THEN /\ p.duplicates \cap DOMAIN store.entities = {}
         /\ [canonical |-> p.canonical, duplicates |-> p.duplicates] \in store.ledger
    ELSE \E f \in store.ledger : p.canonical \in f.duplicates

\* The canonical entity of a plan is stored or has been merged; a plan that is done has
\* been carried out.
FusePlanned ==
    Fusing => /\ kgWork = [cmd |-> "fuse", plans |-> kgWork.plans, todo |-> kgWork.todo]
              /\ \A p \in kgWork.plans :
                    /\ p.canonical \notin p.duplicates
                    /\ \/ p.canonical \in DOMAIN kgStore.entities
                       \/ \E f \in kgStore.ledger : p.canonical \in f.duplicates
              /\ \A p \in kgWork.plans \ kgWork.todo : PlanDone(p, kgStore)
              /\ kgWork.todo \subseteq kgWork.plans

KgInv ==
    /\ StoreSound(kgStore) /\ AnswerClosed(kgServed)
    /\ kgWork # Nothing => kgWork.cmd \in {"extract", "fuse"}
    /\ ExtractGrounded /\ FusePlanned

-----------------------------------------------------------------------------
(* graph extract *)

\* A grounded row can be written.
LEMMA UpsertSound ==
    ASSUME NEW store, NEW u, StoreSound(store), WellFormed(u),
           Ends(u) \subseteq DOMAIN store.entities
    PROVE  LET new == [store EXCEPT ![u.table] = Upserted(@, u.id, u.row)] IN
           /\ StoreSound(new)
           /\ DOMAIN new.entities = IF u.table = "entities" THEN DOMAIN store.entities \cup {u.id}
                                    ELSE DOMAIN store.entities
<1> DEFINE new == [store EXCEPT ![u.table] = Upserted(@, u.id, u.row)]
<1>1. DOMAIN store = {"entities", "relations", "events", "ledger"}
  BY DEF StoreSound
<1>2. /\ new = [entities |-> new.entities, relations |-> new.relations,
                events |-> new.events, ledger |-> new.ledger]
      /\ new.ledger = store.ledger
      /\ new.entities = IF u.table = "entities" THEN Upserted(store.entities, u.id, u.row)
                        ELSE store.entities
      /\ new.relations = IF u.table = "relations" THEN Upserted(store.relations, u.id, u.row)
                         ELSE store.relations
      /\ new.events = IF u.table = "events" THEN Upserted(store.events, u.id, u.row)
                      ELSE store.events
  <2>1. /\ DOMAIN new = {"entities", "relations", "events", "ledger"}
        /\ \A t \in DOMAIN new : new[t] = IF t = u.table THEN Upserted(store[t], u.id, u.row)
                                         ELSE store[t]
        /\ new = [t \in {"entities", "relations", "events", "ledger"} |-> new[t]]
    BY <1>1
  <2>2. u.table \in {"entities", "relations", "events"}
    BY DEF WellFormed, Tables
  <2> HIDE DEF new
  <2>3. new = [entities |-> new.entities, relations |-> new.relations,
               events |-> new.events, ledger |-> new.ledger]
    BY <2>1
  <2> QED
    BY <2>1, <2>2, <2>3
<1> HIDE DEF new
<1>3. CASE u.table = "entities"
  <2>1. new.relations = store.relations /\ new.events = store.events
    BY <1>2, <1>3
  <2>2. /\ DOMAIN new.entities = DOMAIN store.entities \cup {u.id}
        /\ \A i \in DOMAIN new.entities :
              new.entities[i] = IF i = u.id THEN u.row ELSE store.entities[i]
    BY <1>2, <1>3 DEF Upserted
  <2> QED
    BY <1>2, <1>3, <2>1, <2>2 DEF StoreSound, WellFormed, new
<1>4. CASE u.table = "relations"
  <2>1. new.entities = store.entities /\ new.events = store.events
    BY <1>2, <1>4
  <2>2. /\ DOMAIN new.relations = DOMAIN store.relations \cup {u.id}
        /\ \A i \in DOMAIN new.relations :
              new.relations[i] = IF i = u.id THEN u.row ELSE store.relations[i]
    BY <1>2, <1>4 DEF Upserted
  <2>3. {u.row.subject, u.row.object} \subseteq DOMAIN store.entities
    BY <1>4 DEF Ends
  <2> QED
    BY <1>2, <1>4, <2>1, <2>2, <2>3 DEF StoreSound, new
<1>5. CASE u.table = "events"
  <2>1. new.entities = store.entities /\ new.relations = store.relations
    BY <1>2, <1>5
  <2>2. /\ DOMAIN new.events = DOMAIN store.events \cup {u.id}
        /\ \A i \in DOMAIN new.events :
              new.events[i] = IF i = u.id THEN u.row ELSE store.events[i]
    BY <1>2, <1>5 DEF Upserted
  <2>3. u.row \subseteq DOMAIN store.entities
    BY <1>5 DEF Ends
  <2> QED
    BY <1>2, <1>5, <2>1, <2>2, <2>3 DEF StoreSound, new
<1> QED
  BY <1>3, <1>4, <1>5 DEF WellFormed, Tables

-----------------------------------------------------------------------------
(* graph fuse *)

\* A merge takes the duplicates away, and nothing that pointed to them is left behind.
LEMMA FusedSound ==
    ASSUME NEW store, StoreSound(store), NEW c \in DOMAIN store.entities, NEW d, c \notin d
    PROVE  LET new == Fused(store, c, d) IN
           /\ StoreSound(new)
           /\ DOMAIN new.entities = DOMAIN store.entities \ d
           /\ new.ledger = store.ledger \cup {[canonical |-> c, duplicates |-> d]}
           /\ \A i \in d \cap DOMAIN store.entities :
                 /\ NamesOf(store.entities[i]) \subseteq NamesOf(new.entities[c])
                 /\ store.entities[i].sources \subseteq new.entities[c].sources
<1> DEFINE new == Fused(store, c, d)
           kept == [i \in DOMAIN store.entities \ d |->
                       IF i = c THEN Merged(store.entities, c, d) ELSE store.entities[i]]
           to(i) == IF i \in d THEN c ELSE i
           moved(r) == [r EXCEPT !.subject = to(@), !.object = to(@)]
           joins(r) == {moved(r).subject, moved(r).object} \subseteq DOMAIN kept
           merged == Merged(store.entities, c, d)
<1>1. /\ new = [entities |-> new.entities, relations |-> new.relations,
                events |-> new.events, ledger |-> new.ledger]
      /\ new.entities = kept
      /\ new.relations = [r \in {q \in DOMAIN store.relations : joins(store.relations[q])} |->
                             moved(store.relations[r])]
      /\ new.events = [e \in DOMAIN store.events |-> {to(i) : i \in store.events[e]}]
      /\ new.ledger = store.ledger \cup {[canonical |-> c, duplicates |-> d]}
  BY DEF Fused
<1> HIDE DEF new
<1>2. /\ DOMAIN merged = EntityFields
      /\ merged.name = store.entities[c].name
      /\ merged.aliases = store.entities[c].aliases
                            \cup UNION {NamesOf(store.entities[i]) : i \in d}
      /\ merged.sources = store.entities[c].sources
                            \cup UNION {store.entities[i].sources : i \in d}
  <2>1. DOMAIN store.entities[c] = {"type", "name", "aliases", "sources"}
    BY DEF StoreSound, EntityFields
  <2> QED
    BY <2>1 DEF Merged, EntityFields
<1> HIDE DEF merged
<1>3. DOMAIN kept = DOMAIN store.entities \ d /\ kept[c] = merged
  BY DEF merged
<1>4. \A i \in DOMAIN kept : i \in Nat /\ DOMAIN kept[i] = EntityFields
  BY <1>2, <1>3 DEF StoreSound, merged
<1>5. ASSUME NEW r \in DOMAIN new.relations
      PROVE  {new.relations[r].subject, new.relations[r].object} \subseteq DOMAIN kept
  <2>1. new.relations[r] = moved(store.relations[r]) /\ joins(store.relations[r])
    BY <1>1, <1>5
  <2> HIDE DEF moved, kept
  <2> QED
    BY <2>1
<1>6. ASSUME NEW e \in DOMAIN new.events PROVE new.events[e] \subseteq DOMAIN kept
  <2>1. e \in DOMAIN store.events /\ new.events[e] = {to(i) : i \in store.events[e]}
    BY <1>1, <1>6
  <2>2. store.events[e] \subseteq DOMAIN store.entities
    BY <2>1 DEF StoreSound
  <2> QED
    BY <1>3, <2>1, <2>2
<1>7. ASSUME NEW i \in d \cap DOMAIN store.entities
      PROVE  /\ NamesOf(store.entities[i]) \subseteq NamesOf(merged)
             /\ store.entities[i].sources \subseteq merged.sources
  BY <1>2 DEF NamesOf
<1> HIDE DEF kept, joins, moved, to
<1>8. StoreSound(new)
  BY <1>1, <1>4, <1>5, <1>6 DEF StoreSound
<1> QED
  BY <1>1, <1>3, <1>7, <1>8 DEF new

\* The smallest id of a group is in it.
LEMMA MinInGroup ==
    ASSUME NEW S \in SUBSET Nat, S # {}
    PROVE  Min(S) \in S
<1>1. \E x \in S : \A y \in S : ~ (<<y, x>> \in OpToRel(<, Nat))
  BY NatLessThanWellFounded, WFMin
<1>2. PICK x \in S : \A y \in S : ~ (<<y, x>> \in OpToRel(<, Nat))
  BY <1>1
<1>3. ASSUME NEW y \in S, y < x PROVE FALSE
  <2> DEFINE pair == <<y, x>>
  <2>1. pair \in Nat \X Nat /\ pair[1] = y /\ pair[2] = x
    OBVIOUS
  <2>2. pair[1] < pair[2]
    BY <1>3, <2>1
  <2> HIDE DEF pair
  <2>3. pair \in OpToRel(<, Nat)
    BY <2>1, <2>2, Zenon DEF OpToRel
  <2> QED
    BY <1>2, <2>3, Zenon DEF pair
<1>4. \A y \in S : x =< y
  BY <1>3
<1> QED
  BY <1>4 DEF Min

\* A plan keeps a stored entity and merges others into it.
LEMMA PlansSound ==
    ASSUME StoreSound(kgStore), NEW p \in FusionPlans(kgStore.entities)
    PROVE  p.canonical \in DOMAIN kgStore.entities /\ p.canonical \notin p.duplicates
<1> DEFINE ids(type, name) == Matches(kgStore.entities, type, name)
<1>1. PICK i \in DOMAIN kgStore.entities :
         LET type == kgStore.entities[i].type
             name == kgStore.entities[i].name
         IN  /\ Cardinality(ids(type, name)) > 1
             /\ p = [type |-> type, block |-> name, canonical |-> Min(ids(type, name)),
                     duplicates |-> ids(type, name) \ {Min(ids(type, name))}]
  BY DEF FusionPlans
<1> DEFINE group == ids(kgStore.entities[i].type, kgStore.entities[i].name)
<1>2. /\ Cardinality(group) > 1
      /\ p.canonical = Min(group) /\ p.duplicates = group \ {Min(group)}
  BY <1>1
<1>3. group \subseteq DOMAIN kgStore.entities
  BY DEF Matches, Block
<1> HIDE DEF group
<1>4. group # {}
  BY <1>2, FS_EmptySet
<1>5. group \in SUBSET Nat
  BY <1>3 DEF StoreSound
<1> QED
  BY <1>2, <1>3, <1>4, <1>5, MinInGroup

-----------------------------------------------------------------------------
(* graph serve *)

\* The rounds of the search, one by one.
LEMMA Rounds ==
    ASSUME NEW start
    PROVE  /\ Visited(start, 0) = {start}
           /\ Visited(start, 1) = Widened(Visited(start, 0))
           /\ Visited(start, 2) = Widened(Visited(start, 1))
           /\ Visited(start, 3) = Widened(Visited(start, 2))
<1> DEFINE S0 == {start}
           S1 == Widened(S0)
           S2 == Widened(S1)
           S3 == Widened(S2)
           S == <<S0, S1, S2, S3>>
           is(f, hops) == f = [n \in 0..hops |-> IF n = 0 THEN S0 ELSE Widened(f[n - 1])]
           found(hops) == CHOOSE f : is(f, hops)
<1>1. \A hops \in 0..3 : Visited(start, hops) = found(hops)[hops]
  BY DEF Visited
<1>2. ASSUME NEW hops \in 0..3 PROVE is(found(hops), hops)
  <2> DEFINE g == [n \in 0..hops |-> S[n + 1]]
  <2>1. is(g, hops)
    <3>1. S[1] = S0 /\ S[2] = Widened(S[1]) /\ S[3] = Widened(S[2]) /\ S[4] = Widened(S[3])
      OBVIOUS
    <3> HIDE DEF S, S0
    <3>2. ASSUME NEW n \in 0..hops
          PROVE  g[n] = IF n = 0 THEN S0 ELSE Widened(g[n - 1])
      <4>1. n \in {0, 1, 2, 3}
        OBVIOUS
      <4> QED
        BY <3>1, <4>1
    <3> QED
      BY <3>2
  <2> HIDE DEF g, is
  <2> QED
    BY <2>1
<1>3. ASSUME NEW hops \in 0..3, NEW f, is(f, hops)
      PROVE  \A n \in 0..hops : f[n] = IF n = 0 THEN S0 ELSE Widened(f[n - 1])
  BY <1>3
<1> HIDE DEF is, S0
<1>4. Visited(start, 0) = S0
  BY <1>1, <1>2, <1>3
<1>5. Visited(start, 1) = Widened(S0)
  <2>1. found(1)[0] = S0 /\ found(1)[1] = Widened(found(1)[0])
    BY <1>2, <1>3
  <2> QED
    BY <1>1, <2>1
<1>6. Visited(start, 2) = Widened(Widened(S0))
  <2>1. /\ found(2)[0] = S0 /\ found(2)[1] = Widened(found(2)[0])
        /\ found(2)[2] = Widened(found(2)[1])
    BY <1>2, <1>3
  <2> QED
    BY <1>1, <2>1
<1>7. Visited(start, 3) = Widened(Widened(Widened(S0)))
  <2>1. /\ found(3)[0] = S0 /\ found(3)[1] = Widened(found(3)[0])
        /\ found(3)[2] = Widened(found(3)[1]) /\ found(3)[3] = Widened(found(3)[2])
    BY <1>2, <1>3
  <2> QED
    BY <1>1, <2>1
<1> QED
  BY <1>4, <1>5, <1>6, <1>7 DEF S0

\* The next round visits both ends of a relation that touches the last one.
LEMMA WidenedReaches ==
    ASSUME NEW nodes, NEW r \in DOMAIN kgStore.relations, Touches(kgStore.relations[r], nodes),
           NEW x \in {kgStore.relations[r].subject, kgStore.relations[r].object},
           x \in DOMAIN kgStore.entities
    PROVE  x \in Widened(nodes)
<1> DEFINE pairs == {{kgStore.relations[q].subject, kgStore.relations[q].object} :
                        q \in {o \in DOMAIN kgStore.relations :
                                  Touches(kgStore.relations[o], nodes)}}
<1>1. {kgStore.relations[r].subject, kgStore.relations[r].object} \in pairs
  OBVIOUS
<1>2. Widened(nodes) = nodes \cup ((UNION pairs) \cap DOMAIN kgStore.entities)
  BY DEF Widened
<1> HIDE DEF pairs
<1>3. x \in UNION pairs
  BY <1>1
<1> QED
  BY <1>2, <1>3

\* An answer lists both ends of every relation it shows.
LEMMA AnswersClosed ==
    ASSUME StoreSound(kgStore), NEW start, NEW hops \in 0..3
    PROVE  AnswerClosed(Answer(start, hops))
<1>1. CASE hops = 0
  BY <1>1 DEF Answer, AnswerClosed
<1>2. CASE hops # 0
  <2>1. Visited(start, hops) = Widened(Visited(start, hops - 1))
    <3>1. hops = 1 \/ hops = 2 \/ hops = 3
      BY <1>2
    <3>2. 1 - 1 = 0 /\ 2 - 1 = 1 /\ 3 - 1 = 2
      OBVIOUS
    <3> QED
      BY <3>1, <3>2, Rounds
  <2> DEFINE near == Visited(start, hops - 1)
  <2>2. ASSUME NEW r \in DOMAIN kgStore.relations, Touches(kgStore.relations[r], near)
        PROVE  {kgStore.relations[r].subject, kgStore.relations[r].object} \subseteq Widened(near)
    <3>1. {kgStore.relations[r].subject, kgStore.relations[r].object}
             \subseteq DOMAIN kgStore.entities
      BY DEF StoreSound
    <3> QED
      BY <2>2, <3>1, WidenedReaches
  <2>3. Answer(start, hops) =
           [nodes |-> Widened(near),
            relations |-> {<<kgStore.relations[r].subject, kgStore.relations[r].object>> :
                              r \in {q \in DOMAIN kgStore.relations :
                                        Touches(kgStore.relations[q], near)}}]
    BY <1>2, <2>1 DEF Answer
  <2> HIDE DEF near
  <2> QED
    BY <2>2, <2>3 DEF AnswerClosed
<1> QED
  BY <1>1, <1>2

-----------------------------------------------------------------------------
(* Every step. *)

LEMMA ExtractInv ==
    ASSUME KgInv, NEW files \in SUBSET KgFiles, NEW kind, Extract(files, kind)
    PROVE  KgInv'
<1>1. UNCHANGED <<kgStore, kgServed>>
  BY DEF Extract
<1>2. CASE ExtractionAccepted(files, kind)
  <2>1. kgWork' = [cmd |-> "extract", todo |-> Upserts(files, kind)]
    BY <1>2 DEF Extract
  <2>2. Grounded(Upserts(files, kind), DOMAIN kgStore.entities)
    BY <1>2, AcceptedGrounded
  <2> QED
    BY <1>1, <2>1, <2>2 DEF KgInv, ExtractGrounded, FusePlanned, Extracting, Fusing
<1>3. CASE ~ExtractionAccepted(files, kind)
  BY <1>1, <1>3 DEF Extract, KgInv, ExtractGrounded, FusePlanned, Extracting, Fusing
<1> QED
  BY <1>2, <1>3

LEMMA UpsertInv ==
    ASSUME KgInv, UpsertNext
    PROVE  KgInv'
<1> DEFINE u == Head(kgWork.todo)
<1>1. /\ Extracting /\ kgWork = [cmd |-> "extract", todo |-> kgWork.todo]
      /\ Grounded(kgWork.todo, DOMAIN kgStore.entities) /\ kgWork.todo # <<>>
  BY DEF UpsertNext, KgInv, ExtractGrounded, Extracting
<1>2. /\ kgStore' = [kgStore EXCEPT ![u.table] = Upserted(@, u.id, u.row)]
      /\ kgWork' = [cmd |-> "extract", todo |-> Tail(kgWork.todo)]
      /\ kgServed' = kgServed
  BY <1>1 DEF UpsertNext
<1>3. /\ WellFormed(u) /\ Ends(u) \subseteq DOMAIN kgStore.entities
      /\ Grounded(Tail(kgWork.todo), IF u.table = "entities" THEN DOMAIN kgStore.entities \cup {u.id}
                                     ELSE DOMAIN kgStore.entities)
  BY <1>1, TailGrounded
<1>4. /\ StoreSound(kgStore')
      /\ DOMAIN kgStore'.entities = IF u.table = "entities" THEN DOMAIN kgStore.entities \cup {u.id}
                                    ELSE DOMAIN kgStore.entities
  BY <1>2, <1>3, UpsertSound DEF KgInv
<1> QED
  BY <1>2, <1>3, <1>4 DEF KgInv, ExtractGrounded, FusePlanned, Extracting, Fusing

LEMMA FuseInv ==
    ASSUME KgInv, NEW confirm, Fuse(confirm)
    PROVE  KgInv'
<1> DEFINE plans == FusionPlans(kgStore.entities)
<1>1. UNCHANGED <<kgStore, kgServed>>
  BY DEF Fuse
<1>2. CASE plans # {} /\ confirm
  <2>1. kgWork' = [cmd |-> "fuse", plans |-> plans, todo |-> plans]
    BY <1>2 DEF Fuse
  <2>2. \A p \in plans : p.canonical \in DOMAIN kgStore.entities /\ p.canonical \notin p.duplicates
    BY PlansSound DEF KgInv
  <2> HIDE DEF plans
  <2> QED
    BY <1>1, <2>1, <2>2 DEF KgInv, ExtractGrounded, FusePlanned, Extracting, Fusing
<1>3. CASE ~(plans # {} /\ confirm)
  BY <1>1, <1>3 DEF Fuse, KgInv, ExtractGrounded, FusePlanned, Extracting, Fusing
<1> QED
  BY <1>2, <1>3

\* What a merge does to the plans: those that are done stay done.
LEMMA MergeKeepsPlans ==
    ASSUME KgInv, Fusing, NEW plan \in kgWork.todo, ~Superseded(plan),
           plan.duplicates \subseteq DOMAIN kgStore.entities,
           kgStore' = Fused(kgStore, plan.canonical, plan.duplicates)
    PROVE  /\ StoreSound(kgStore')
           /\ \A p \in kgWork.plans :
                 \/ p.canonical \in DOMAIN kgStore'.entities
                 \/ \E f \in kgStore'.ledger : p.canonical \in f.duplicates
           /\ \A p \in (kgWork.plans \ kgWork.todo) \cup {plan} : PlanDone(p, kgStore')
<1> DEFINE c == plan.canonical
           d == plan.duplicates
<1>1. c \in DOMAIN kgStore.entities /\ c \notin d /\ plan \in kgWork.plans
  BY DEF Superseded, KgInv, FusePlanned
<1>2. /\ StoreSound(kgStore')
      /\ DOMAIN kgStore'.entities = DOMAIN kgStore.entities \ d
      /\ kgStore'.ledger = kgStore.ledger \cup {[canonical |-> c, duplicates |-> d]}
  BY <1>1, FusedSound DEF KgInv
<1> DEFINE f == [canonical |-> c, duplicates |-> d]
<1>3. f \in kgStore'.ledger /\ f.duplicates = d /\ kgStore.ledger \subseteq kgStore'.ledger
  BY <1>2
<1> HIDE DEF f
<1>4. ASSUME NEW p \in kgWork.plans
      PROVE  \/ p.canonical \in DOMAIN kgStore'.entities
             \/ \E g \in kgStore'.ledger : p.canonical \in g.duplicates
  BY <1>2, <1>3 DEF KgInv, FusePlanned
<1>5. ASSUME NEW p \in kgWork.plans \ kgWork.todo
      PROVE  PlanDone(p, kgStore')
  BY <1>2, <1>3, <1>4 DEF KgInv, FusePlanned, PlanDone
<1>6. PlanDone(plan, kgStore')
  BY <1>1, <1>2 DEF PlanDone
<1> QED
  BY <1>2, <1>4, <1>5, <1>6

LEMMA FuseNextInv ==
    ASSUME KgInv, FuseNext
    PROVE  KgInv'
<1>1. /\ Fusing
      /\ kgWork = [cmd |-> "fuse", plans |-> kgWork.plans, todo |-> kgWork.todo]
      /\ kgServed' = kgServed
  BY DEF FuseNext, KgInv, FusePlanned
<1>2. PICK plan \in kgWork.todo :
         \/ /\ Superseded(plan)
            /\ kgWork' = [kgWork EXCEPT !.todo = @ \ {plan}]
            /\ kgStore' = kgStore
         \/ /\ ~Superseded(plan)
            /\ plan.duplicates \subseteq DOMAIN kgStore.entities
            /\ kgStore' = Fused(kgStore, plan.canonical, plan.duplicates)
            /\ kgWork' = [kgWork EXCEPT !.todo = @ \ {plan}]
         \/ kgWork' = Nothing /\ kgStore' = kgStore
  BY DEF FuseNext
<1>3. CASE kgWork' = Nothing /\ kgStore' = kgStore
  BY <1>1, <1>3 DEF KgInv, ExtractGrounded, FusePlanned, Extracting, Fusing
<1>4. CASE Superseded(plan) /\ kgStore' = kgStore /\ kgWork' = [kgWork EXCEPT !.todo = @ \ {plan}]
  <2>1. kgWork' = [cmd |-> "fuse", plans |-> kgWork.plans, todo |-> kgWork.todo \ {plan}]
    BY <1>1, <1>4
  <2>2. PlanDone(plan, kgStore)
    BY <1>1, <1>4 DEF Superseded, PlanDone, KgInv, FusePlanned
  <2>3. StoreSound(kgStore') /\ AnswerClosed(kgServed') /\ kgWork'.cmd = "fuse"
    BY <1>1, <1>4, <2>1 DEF KgInv
  <2>4. ExtractGrounded'
    BY <2>3 DEF ExtractGrounded, Extracting
  <2>5. FusePlanned'
    <3>1. kgWork'.plans = kgWork.plans /\ kgWork'.todo = kgWork.todo \ {plan}
      BY <2>1
    <3>2. \A p \in kgWork'.plans \ kgWork'.todo : PlanDone(p, kgStore')
      BY <1>1, <1>4, <2>2, <3>1 DEF KgInv, FusePlanned
    <3> QED
      BY <1>1, <1>4, <2>1, <3>1, <3>2 DEF KgInv, FusePlanned
  <2> QED
    BY <2>3, <2>4, <2>5 DEF KgInv
<1>5. CASE /\ ~Superseded(plan) /\ plan.duplicates \subseteq DOMAIN kgStore.entities
           /\ kgStore' = Fused(kgStore, plan.canonical, plan.duplicates)
           /\ kgWork' = [kgWork EXCEPT !.todo = @ \ {plan}]
  <2>1. kgWork' = [cmd |-> "fuse", plans |-> kgWork.plans, todo |-> kgWork.todo \ {plan}]
    BY <1>1, <1>5
  <2>2. /\ StoreSound(kgStore')
        /\ \A p \in kgWork.plans :
              \/ p.canonical \in DOMAIN kgStore'.entities
              \/ \E f \in kgStore'.ledger : p.canonical \in f.duplicates
        /\ \A p \in (kgWork.plans \ kgWork.todo) \cup {plan} : PlanDone(p, kgStore')
    BY <1>1, <1>5, MergeKeepsPlans
  <2> QED
    BY <1>1, <2>1, <2>2 DEF KgInv, ExtractGrounded, FusePlanned, Extracting, Fusing
<1> QED
  BY <1>2, <1>3, <1>4, <1>5

LEMMA ServeInv ==
    ASSUME KgInv, NEW name, NEW hops \in 0..3, Serve(name, hops)
    PROVE  KgInv'
<1>1. UNCHANGED <<kgStore, kgWork>>
  BY DEF Serve
<1>2. AnswerClosed(kgServed')
  BY AnswersClosed DEF Serve, KgInv
<1> QED
  BY <1>1, <1>2 DEF KgInv, ExtractGrounded, FusePlanned, Extracting, Fusing

LEMMA KgStep == KgInv /\ [KgNext]_kgVars => KgInv'
<1> SUFFICES ASSUME KgInv, [KgNext]_kgVars PROVE KgInv'
  OBVIOUS
<1>1. ASSUME NEW files \in SUBSET KgFiles, NEW kind, Extract(files, kind) PROVE KgInv'
  BY <1>1, ExtractInv
<1>2. CASE UpsertNext
  BY <1>2, UpsertInv
<1>3. ASSUME NEW confirm \in BOOLEAN, Fuse(confirm) PROVE KgInv'
  BY <1>3, FuseInv
<1>4. CASE FuseNext
  BY <1>4, FuseNextInv
<1>5. ASSUME NEW name, NEW hops \in 0..3, Serve(name, hops) PROVE KgInv'
  BY <1>5, ServeInv
<1>6. CASE UNCHANGED <<kgStore, kgServed>> /\ (kgWork' = kgWork \/ kgWork' = Nothing)
  BY <1>6 DEF KgInv, ExtractGrounded, FusePlanned, Extracting, Fusing
<1>7. FinishExtract \/ FinishFuse \/ KgDies \/ UNCHANGED kgVars
         => UNCHANGED <<kgStore, kgServed>> /\ (kgWork' = kgWork \/ kgWork' = Nothing)
  BY DEF FinishExtract, FinishFuse, KgDies, kgVars
<1>8. ASSUME NEW gold, GateQuality(gold) \/ Evaluate(gold)
      PROVE  UNCHANGED <<kgStore, kgServed, kgWork>>
  BY <1>8 DEF GateQuality, Evaluate
<1> QED
  BY <1>1, <1>2, <1>3, <1>4, <1>5, <1>6, <1>7, <1>8 DEF KgNext

LEMMA KgStarts == KgInit => KgInv
<1> SUFFICES ASSUME KgInit PROVE KgInv
  OBVIOUS
<1>1. /\ kgStore.entities = <<>> /\ kgStore.relations = <<>> /\ kgStore.events = <<>>
      /\ kgStore = [entities |-> kgStore.entities, relations |-> kgStore.relations,
                    events |-> kgStore.events, ledger |-> kgStore.ledger]
      /\ kgServed.relations = {} /\ kgWork = Nothing
  BY DEF KgInit
<1> QED
  BY <1>1 DEF KgInv, StoreSound, AnswerClosed, ExtractGrounded, FusePlanned, Extracting, Fusing

\* The inductive invariant of the graph's commands: the store is sound, and what an
\* extraction has still to write or a fusion to merge fits it, wherever commands die.
THEOREM KgInvariance == KgSpec => []KgInv
  BY KgStarts, KgStep, PTL DEF KgSpec

\* No relation, no event and no answer names an entity that is not there, whatever files
\* were extracted (graph_extract writes row by row), however they were fused
\* (merge_entities) and wherever the commands died.
THEOREM GraphStaysAnchored == KgSpec => []GraphAnchored
<1>1. KgInv => GraphAnchored
  BY DEF KgInv, StoreSound, AnswerClosed, GraphAnchored
<1> QED
  BY <1>1, KgInvariance, PTL

\* A confirmed fusion that comes through has carried out all its plans, up to those whose
\* canonical entity an earlier one has merged (graph_fuse), for any entities and names.
THEOREM FusionsCarriedOut == KgSpec => []FusionCarriedOut
<1>1. KgInv => FusionCarriedOut
  BY DEF KgInv, FusePlanned, PlanDone, FusionCarriedOut
<1> QED
  BY <1>1, KgInvariance, PTL

\* An entity leaves the store only by a recorded fusion, and its names and sources go to
\* the entity it was merged into (merge_entities), in every step of every command.
THEOREM FusionsTraced == KgSpec => FusionTraced
<1> DEFINE Traced ==
      \A i \in DOMAIN kgStore.entities \ DOMAIN kgStore'.entities :
          \E f \in kgStore'.ledger :
             /\ i \in f.duplicates
             /\ f.canonical \in DOMAIN kgStore'.entities
             /\ NamesOf(kgStore.entities[i]) \subseteq NamesOf(kgStore'.entities[f.canonical])
             /\ kgStore.entities[i].sources
                  \subseteq kgStore'.entities[f.canonical].sources
<1>1. KgInv /\ [KgNext]_kgVars => [Traced]_kgVars
  <2> SUFFICES ASSUME KgInv, KgNext PROVE Traced
    OBVIOUS
  <2>1. CASE DOMAIN kgStore.entities \subseteq DOMAIN kgStore'.entities
    BY <2>1
  <2>2. CASE UpsertNext
    <3> DEFINE u == Head(kgWork.todo)
    <3>1. Extracting /\ kgWork.todo # <<>> /\ Grounded(kgWork.todo, DOMAIN kgStore.entities)
      BY <2>2 DEF UpsertNext, KgInv, ExtractGrounded, Extracting
    <3>2. WellFormed(u) /\ Ends(u) \subseteq DOMAIN kgStore.entities
      BY <3>1, TailGrounded
    <3>3. kgStore' = [kgStore EXCEPT ![u.table] = Upserted(@, u.id, u.row)]
      BY <2>2 DEF UpsertNext
    <3>4. DOMAIN kgStore.entities \subseteq DOMAIN kgStore'.entities
      <4>1. StoreSound(kgStore)
        BY DEF KgInv
      <4> HIDE DEF u, Traced
      <4>2. DOMAIN kgStore'.entities =
               IF u.table = "entities" THEN DOMAIN kgStore.entities \cup {u.id}
               ELSE DOMAIN kgStore.entities
        BY <3>2, <3>3, <4>1, UpsertSound
      <4> QED
        BY <4>2
    <3> QED
      BY <2>1, <3>4
  <2>3. CASE FuseNext
    <3>1. PICK plan \in kgWork.todo :
             \/ kgStore' = kgStore
             \/ /\ ~Superseded(plan)
                /\ kgStore' = Fused(kgStore, plan.canonical, plan.duplicates)
      BY <2>3 DEF FuseNext
    <3>2. CASE kgStore' = kgStore
      BY <2>1, <3>2
    <3>3. CASE ~Superseded(plan) /\ kgStore' = Fused(kgStore, plan.canonical, plan.duplicates)
      <4> DEFINE c == plan.canonical
                 d == plan.duplicates
                 f == [canonical |-> c, duplicates |-> d]
      <4>1. c \in DOMAIN kgStore.entities /\ c \notin d
        BY <2>3, <3>3 DEF Superseded, KgInv, FusePlanned, FuseNext
      <4>2. /\ DOMAIN kgStore'.entities = DOMAIN kgStore.entities \ d
            /\ f \in kgStore'.ledger
            /\ \A i \in d \cap DOMAIN kgStore.entities :
                  /\ NamesOf(kgStore.entities[i]) \subseteq NamesOf(kgStore'.entities[c])
                  /\ kgStore.entities[i].sources \subseteq kgStore'.entities[c].sources
        BY <3>3, <4>1, FusedSound DEF KgInv
      <4>3. f.canonical = c /\ f.duplicates = d /\ c \in DOMAIN kgStore'.entities
        BY <4>1, <4>2
      <4> HIDE DEF f
      <4> QED
        BY <4>2, <4>3
    <3> QED
      BY <3>1, <3>2, <3>3
  <2>4. UpsertNext \/ FuseNext \/ kgStore' = kgStore
    BY DEF KgNext, Extract, FinishExtract, Fuse, FinishFuse, GateQuality, Evaluate, Serve, KgDies
  <2> QED
    BY <2>1, <2>2, <2>3, <2>4
<1> QED
  BY <1>1, KgInvariance, PTL DEF KgSpec, FusionTraced
=============================================================================
