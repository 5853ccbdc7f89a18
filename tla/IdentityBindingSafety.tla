----------------------- MODULE IdentityBindingSafety ------------------------
(***************************************************************************)
(* For any requests, keys, entities, calls and principals: a command takes *)
(* effect once, and the log tells the bindings.                            *)
(***************************************************************************)
EXTENDS IdentityBindingProps, FiniteSetTheorems, SequenceTheorems, TLAPS

-----------------------------------------------------------------------------
(* The invariant.                                                          *)

Events == EventRows(Keys \cup Calls)

Types ==
    /\ request \in [Requests -> RequestRows]
    /\ action \in [Keys -> ActionRows]
    /\ events \in [Entities -> Seq(Events)]
    /\ writing \subseteq [by : Writers, entity : Entities, seq : Nat]
    /\ call \in [Calls -> CallRows]
    /\ locked \in [Entities -> Calls \cup {Nobody}]
    /\ bindings \in [Entities -> Seq(BindingRows)]

(* An event that is being written is the only one of its writer, and about *)
(* what its writer is about.                                               *)
WritersAreAtWork ==
    /\ \A w, x \in writing : w.by = x.by => w = x
    /\ \A w \in writing :
        /\ w.by \in Requests => /\ request[w.by].at = "WORKED"
                                /\ w.entity = request[w.by].target
        /\ w.by \in Calls => /\ call[w.by].at \in {"INSERTED", "REVOKING"}
                             /\ w.entity = call[w.by].entity

(* One request runs under a key, the first, and the row stays as it was    *)
(* recorded.                                                               *)
Runs(r) == request[r].at \in {"RUNNING", "WORKED"}
Answered(r) == request[r].answer \in {"RESULT", "FAILED", "CONFLICT"}

KeysAreReserved ==
    /\ \A r, q \in Requests : Runs(r) /\ Runs(q) /\ request[r].key = request[q].key => r = q
    /\ \A r \in Requests : Runs(r) => action[request[r].key].status = "NONE"

AnswersAreOnRecord ==
    \A r \in Requests : Answered(r) =>
        /\ action[request[r].key].status # "NONE"
        /\ request[r].answer = ReplayAnswer(action[request[r].key], request[r].target)

EffectsAreOnce ==
    \A k \in Keys, e \in Entities :
        Cardinality(Effects(k, e)) =
            IF action[k] = [status |-> "SUCCEEDED", target |-> e] THEN 1 ELSE 0

CommandInv == KeysAreReserved /\ AnswersAreOnRecord /\ EffectsAreOnce

(* A call that writes holds the lock of its entity, and what it found      *)
(* there stays true until it commits.                                      *)
CallIsAbout(b) ==
    /\ call[b].at \notin {"IDLE", "DONE"} => call[b].entity \in Entities
    /\ call[b].at \in {"VERIFIED", "BINDING", "INSERTED"} => call[b].principal \in Principals
    /\ call[b].at \in {"BINDING", "INSERTED", "REVOKING"} => locked[call[b].entity] = b
    /\ call[b].at = "INSERTED" => Actives(call[b].entity) = {} /\ ~Bound(call[b].principal)

OneInserter ==
    \A b, c \in Calls :
        call[b].at = "INSERTED" /\ call[c].at = "INSERTED" /\ call[b].principal = call[c].principal
        => b = c

CallInv == (\A b \in Calls : CallIsAbout(b)) /\ OneInserter

BindingInv == Types /\ WritersAreAtWork /\ CommandInv /\ CallInv /\ LogTellsBindings

-----------------------------------------------------------------------------
(* The log.                                                                *)

(* One more event is one more of its kind from then on, and nothing else.  *)
LEMMA LogGrows ==
    ASSUME Types, NEW e \in Entities, NEW event \in Events,
           events' = [events EXCEPT ![e] = Append(@, event)]
    PROVE  /\ events' \in [Entities -> Seq(Events)]
           /\ Len(events[e]) \in Nat
           /\ Len(events'[e]) = Len(events[e]) + 1
           /\ \A i \in 1 .. Len(events[e]) : events'[e][i] = events[e][i]
           /\ events'[e][Len(events[e]) + 1] = event
           /\ DOMAIN events[e] = 1 .. Len(events[e])
           /\ DOMAIN events'[e] = 1 .. Len(events[e]) + 1
           /\ \A f \in Entities \ {e} : events'[f] = events[f]
  <1>1. events[e] \in Seq(Events) /\ events'[e] = Append(events[e], event)
    BY DEF Types
  <1>2. /\ Append(events[e], event) \in Seq(Events)
        /\ Len(events[e]) \in Nat
        /\ Len(events'[e]) = Len(events[e]) + 1
        /\ \A i \in 1 .. Len(events[e]) : events'[e][i] = events[e][i]
        /\ events'[e][Len(events[e]) + 1] = event
        /\ DOMAIN events[e] = 1 .. Len(events[e])
        /\ DOMAIN events'[e] = 1 .. Len(events[e]) + 1
    BY <1>1
  <1>3. events' \in [Entities -> Seq(Events)] /\ \A f \in Entities \ {e} : events'[f] = events[f]
    BY <1>2 DEF Types
  <1> QED BY <1>2, <1>3

LEMMA ToldIsCounted ==
    ASSUME NEW kind, NEW e, NEW n \in Nat
    PROVE  /\ IsFiniteSet({i \in 1 .. n : events[e][i].kind = kind})
           /\ Told(kind, e, n) \in Nat
  <1>1. {i \in 1 .. n : events[e][i].kind = kind} \in SUBSET (1 .. n)
    OBVIOUS
  <1>2. IsFiniteSet(1 .. n)
    BY FS_Interval
  <1>3. IsFiniteSet({i \in 1 .. n : events[e][i].kind = kind})
    BY <1>1, <1>2, FS_Subset
  <1> QED BY <1>3, FS_CardinalityType DEF Told

LEMMA ToldGrows ==
    ASSUME Types, NEW e \in Entities, NEW event \in Events,
           events' = [events EXCEPT ![e] = Append(@, event)], NEW kind,
           NEW last \in Nat, last = Len(events[e]) + 1
    PROVE  /\ \A m \in 0 .. Len(events[e]) : Told(kind, e, m)' = Told(kind, e, m)
           /\ event.kind = kind => Told(kind, e, last)' = Told(kind, e, Len(events[e])) + 1
           /\ event.kind # kind => Told(kind, e, last)' = Told(kind, e, Len(events[e]))
           /\ \A f \in Entities \ {e} : \A m : Told(kind, f, m)' = Told(kind, f, m)
  <1> DEFINE n == Len(events[e])
             old == {i \in 1 .. n : events[e][i].kind = kind}
             new == {i \in 1 .. n + 1 : events'[e][i].kind = kind}
  <1>1. n \in Nat /\ (\A i \in 1 .. n : events'[e][i] = events[e][i]) /\ events'[e][n + 1] = event
    BY LogGrows
  <1>2. ASSUME NEW m \in 0 .. n PROVE Told(kind, e, m)' = Told(kind, e, m)
    <2>1. \A i \in 1 .. m : events'[e][i] = events[e][i]
      BY <1>1
    <2>2. {i \in 1 .. m : events'[e][i].kind = kind} = {i \in 1 .. m : events[e][i].kind = kind}
      BY <2>1
    <2> QED BY <2>2 DEF Told
  <1>3. Told(kind, e, n) = Cardinality(old) /\ IsFiniteSet(old)
    BY <1>1, ToldIsCounted DEF Told
  <1>4. n + 1 \notin old
    BY <1>1
  <1>5. event.kind = kind => new = old \cup {n + 1}
    BY <1>1
  <1>6. event.kind # kind => new = old
    BY <1>1
  <1>7. \A f \in Entities \ {e} : \A m : Told(kind, f, m)' = Told(kind, f, m)
    BY LogGrows DEF Told
  <1>8. Cardinality(old \cup {n + 1}) = Cardinality(old) + 1
    BY <1>3, <1>4, FS_AddElement
  <1>9. \A m : m = n + 1 => Told(kind, e, m)' = Cardinality(new)
    BY DEF Told
  <1>10. /\ event.kind = kind => \A m : m = n + 1 => Told(kind, e, m)' = Told(kind, e, n) + 1
         /\ event.kind # kind => \A m : m = n + 1 => Told(kind, e, m)' = Told(kind, e, n)
    BY <1>3, <1>5, <1>6, <1>8, <1>9
  <1> QED BY <1>2, <1>7, <1>10

(* A command's event is one more effect of its key on its entity; other    *)
(* events are no effects.                                                  *)
LEMMA EffectsGrow ==
    ASSUME Types, NEW e \in Entities, NEW event \in Events,
           events' = [events EXCEPT ![e] = Append(@, event)],
           NEW k \in Keys, NEW f \in Entities
    PROVE  /\ e = f /\ event = [kind |-> "DONE", by |-> k]
                => Cardinality(Effects(k, f)') = Cardinality(Effects(k, f)) + 1
           /\ ~(e = f /\ event = [kind |-> "DONE", by |-> k]) => Effects(k, f)' = Effects(k, f)
           /\ Cardinality(Effects(k, f)) \in Nat
  <1> DEFINE n == Len(events[e])
             done == [kind |-> "DONE", by |-> k]
  <1>1. /\ n \in Nat /\ (\A i \in 1 .. n : events'[e][i] = events[e][i]) /\ events'[e][n + 1] = event
        /\ DOMAIN events[e] = 1 .. n /\ DOMAIN events'[e] = 1 .. n + 1
    BY LogGrows
  <1>2. IsFiniteSet(Effects(k, f)) /\ Effects(k, f) \subseteq 1 .. Len(events[f])
    <2>1. Len(events[f]) \in Nat /\ DOMAIN events[f] = 1 .. Len(events[f])
      BY DEF Types
    <2>2. Effects(k, f) \in SUBSET (1 .. Len(events[f]))
      BY <2>1 DEF Effects
    <2>3. IsFiniteSet(1 .. Len(events[f]))
      BY <2>1, FS_Interval
    <2> QED BY <2>2, <2>3, FS_Subset
  <1>3. CASE e # f
    <2>1. events'[f] = events[f]
      BY <1>3, LogGrows
    <2> QED BY <1>2, <1>3, <2>1, FS_CardinalityType DEF Effects
  <1>4. CASE e = f /\ event # done
    <2>1. Effects(k, f)' = Effects(k, f)
      BY <1>1, <1>4 DEF Effects
    <2> QED BY <1>2, <1>4, <2>1, FS_CardinalityType
  <1>5. CASE e = f /\ event = done
    <2>1. Effects(k, f)' = Effects(k, f) \cup {n + 1}
      BY <1>1, <1>5 DEF Effects
    <2>2. n + 1 \notin Effects(k, f)
      BY <1>1, <1>2, <1>5
    <2> HIDE DEF n
    <2>3. Cardinality(Effects(k, f)') = Cardinality(Effects(k, f)) + 1
      BY <1>2, <2>1, <2>2, FS_AddElement
    <2> QED BY <1>2, <1>5, <2>3, FS_CardinalityType
  <1> QED BY <1>3, <1>4, <1>5

-----------------------------------------------------------------------------
(* The log and the bindings.                                               *)

EntityTold(e) ==
    LET n == Len(events[e])
    IN  /\ \A m \in 1 .. n : Told("BOUND", e, m) - Told("REVOKED", e, m) \in {0, 1}
        /\ Told("BOUND", e, n) = Len(bindings[e])
        /\ Told("REVOKED", e, n) = Len(bindings[e]) - Cardinality(Actives(e))
        /\ Actives(e) \subseteq {Len(bindings[e])}

PrincipalsApart ==
    \A e, f \in Entities : \A v \in Actives(e), w \in Actives(f) :
        bindings[e][v].principal = bindings[f][w].principal => e = f

LEMMA LogInParts == LogTellsBindings <=> (\A e \in Entities : EntityTold(e)) /\ PrincipalsApart
  BY DEF LogTellsBindings, EntityTold, PrincipalsApart

LEMMA LogInPartsNext == LogTellsBindings' <=> (\A e \in Entities : EntityTold(e)') /\ PrincipalsApart'
  BY DEF LogTellsBindings, EntityTold, PrincipalsApart

LEMMA EntityStays ==
    ASSUME NEW e \in Entities, EntityTold(e), events'[e] = events[e], bindings'[e] = bindings[e]
    PROVE  EntityTold(e)'
  <1>1. \A kind, m : Told(kind, e, m)' = Told(kind, e, m)
    BY DEF Told
  <1>2. Actives(e)' = Actives(e)
    BY DEF Actives
  <1> QED BY <1>1, <1>2 DEF EntityTold

(* An event that changes the number of versions and of open ones as it     *)
(* says keeps the log in step.                                             *)
LEMMA EntityGrows ==
    ASSUME Types, NEW e \in Entities, NEW event \in Events, EntityTold(e),
           events' = [events EXCEPT ![e] = Append(@, event)],
           NEW k \in Nat, k = Len(bindings[e]),
           NEW a \in {0, 1}, a = Cardinality(Actives(e)),
           NEW n \in Nat, n = Len(bindings'[e]),
           NEW c \in {0, 1}, c = Cardinality(Actives(e)'),
           Actives(e)' \subseteq {n},
           event.kind = "DONE" => n = k /\ c = a,
           event.kind = "BOUND" => n = k + 1 /\ a = 0 /\ c = 1,
           event.kind = "REVOKED" => n = k /\ a = 1 /\ c = 0
    PROVE  EntityTold(e)'
  <1>1. PICK last : last = Len(events[e]) + 1
    OBVIOUS
  <1>2. last \in Nat /\ last = Len(events[e]) + 1 /\ Len(events'[e]) = last
        /\ Len(events[e]) \in Nat /\ Len(events[e]) \in 0 .. Len(events[e])
    <2>1. Len(events[e]) \in Nat /\ Len(events'[e]) = Len(events[e]) + 1
      BY LogGrows
    <2> QED BY <1>1, <2>1
  <1>3. /\ Told("BOUND", e, last)' = n
        /\ Told("REVOKED", e, last)' = n - c
    <2>1. /\ Told("BOUND", e, Len(events[e])) = k
          /\ Told("REVOKED", e, Len(events[e])) = k - a
      BY DEF EntityTold
    <2>2. event.kind \in {"DONE", "BOUND", "REVOKED"}
      BY DEF Events, EventRows
    <2>3. /\ event.kind = "BOUND" => Told("BOUND", e, last)' = Told("BOUND", e, Len(events[e])) + 1
          /\ event.kind # "BOUND" => Told("BOUND", e, last)' = Told("BOUND", e, Len(events[e]))
          /\ event.kind = "REVOKED" => Told("REVOKED", e, last)' = Told("REVOKED", e, Len(events[e])) + 1
          /\ event.kind # "REVOKED" => Told("REVOKED", e, last)' = Told("REVOKED", e, Len(events[e]))
      <3>1. last \in Nat /\ last = Len(events[e]) + 1
        BY <1>2
      <3>2. ASSUME NEW kind
            PROVE  /\ event.kind = kind => Told(kind, e, last)' = Told(kind, e, Len(events[e])) + 1
                   /\ event.kind # kind => Told(kind, e, last)' = Told(kind, e, Len(events[e]))
        BY <3>1, ToldGrows
      <3> QED BY <3>2
    <2>4. CASE event.kind = "DONE"
      BY <2>1, <2>3, <2>4
    <2>5. CASE event.kind = "BOUND"
      BY <2>1, <2>3, <2>5
    <2>6. CASE event.kind = "REVOKED"
      BY <2>1, <2>3, <2>6
    <2> QED BY <2>2, <2>4, <2>5, <2>6
  <1>4. ASSUME NEW m \in 1 .. last
        PROVE  Told("BOUND", e, m)' - Told("REVOKED", e, m)' \in {0, 1}
    <2>1. CASE m = last
      <3>1. n - (n - c) \in {0, 1}
        OBVIOUS
      <3> QED BY <1>3, <2>1, <3>1
    <2>2. CASE m # last
      <3>1. m \in 1 .. Len(events[e]) /\ m \in 0 .. Len(events[e])
        BY <1>2, <2>2
      <3>2. Told("BOUND", e, m)' = Told("BOUND", e, m) /\ Told("REVOKED", e, m)' = Told("REVOKED", e, m)
        BY <1>2, <3>1, ToldGrows
      <3> QED BY <3>1, <3>2 DEF EntityTold
    <2> QED BY <2>1, <2>2
  <1>5. /\ \A m \in 1 .. Len(events'[e]) : Told("BOUND", e, m)' - Told("REVOKED", e, m)' \in {0, 1}
        /\ (Told("BOUND", e, Len(events[e])))' = n
        /\ (Told("REVOKED", e, Len(events[e])))' = n - c
    BY <1>2, <1>3, <1>4 DEF Told
  <1> QED BY <1>5 DEF EntityTold

LEMMA VersionsOf ==
    ASSUME Types, NEW e \in Entities
    PROVE  /\ bindings[e] \in Seq(BindingRows)
           /\ Len(bindings[e]) \in Nat
           /\ DOMAIN bindings[e] = 1 .. Len(bindings[e])
           /\ Actives(e) = {} => Cardinality(Actives(e)) = 0
           /\ Actives(e) # {} /\ EntityTold(e) =>
                 Actives(e) = {Len(bindings[e])} /\ Cardinality(Actives(e)) = 1
  <1>1. bindings[e] \in Seq(BindingRows)
    BY DEF Types
  <1>2. Actives(e) # {} /\ EntityTold(e) => Actives(e) = {Len(bindings[e])}
    BY DEF EntityTold
  <1>3. Actives(e) = {Len(bindings[e])} => Cardinality(Actives(e)) = 1
    BY FS_Singleton
  <1>4. Actives(e) = {} => Cardinality(Actives(e)) = 0
    BY FS_EmptySet
  <1> QED BY <1>1, <1>2, <1>3, <1>4

LEMMA OpenVersions ==
    ASSUME Types, NEW e \in Entities, EntityTold(e)
    PROVE  Cardinality(Actives(e)) \in {0, 1}
  BY VersionsOf

(* The work of a command is not about bindings.                            *)
LEMMA WorkIsNotTold ==
    ASSUME Types, LogTellsBindings, NEW e \in Entities, NEW event \in Events,
           event.kind = "DONE", events' = [events EXCEPT ![e] = Append(@, event)],
           UNCHANGED bindings
    PROVE  LogTellsBindings'
  <1>1. \A f \in Entities : EntityTold(f) /\ Actives(f)' = Actives(f)
    BY LogInParts DEF Actives
  <1>2. \A f \in Entities \ {e} : EntityTold(f)'
    BY <1>1, EntityStays, LogGrows
  <1>3. EntityTold(e)'
    <2>1. PICK n, c : n = Len(bindings[e]) /\ c = Cardinality(Actives(e))
      OBVIOUS
    <2>2. n \in Nat /\ c \in {0, 1}
      BY <1>1, <2>1, VersionsOf, OpenVersions
    <2>3. n = Len(bindings'[e]) /\ c = Cardinality(Actives(e)') /\ Actives(e)' \subseteq {n}
      BY <1>1, <2>1 DEF EntityTold
    <2> QED BY <1>1, <2>1, <2>2, <2>3, EntityGrows
  <1>4. PrincipalsApart'
    BY <1>1, LogInParts DEF PrincipalsApart
  <1>5. \A f \in Entities : EntityTold(f)'
    BY <1>2, <1>3
  <1> QED BY <1>4, <1>5, LogInPartsNext

(* A BOUND of an entity and a principal that are free.                     *)
LEMMA BoundIsTold ==
    ASSUME Types, LogTellsBindings, NEW e \in Entities, NEW event \in Events, NEW p \in Principals,
           event.kind = "BOUND", events' = [events EXCEPT ![e] = Append(@, event)],
           bindings' = [bindings EXCEPT ![e] = Append(@, [principal |-> p, status |-> "ACTIVE"])],
           Actives(e) = {}, ~Bound(p)
    PROVE  /\ bindings' \in [Entities -> Seq(BindingRows)]
           /\ \A f \in Entities \ {e} : bindings'[f] = bindings[f]
           /\ LogTellsBindings'
  <1>1. PICK row, k : row = [principal |-> p, status |-> "ACTIVE"] /\ k = Len(bindings[e])
    OBVIOUS
  <1>2. /\ row \in BindingRows /\ row.principal = p /\ row.status = "ACTIVE"
        /\ k \in Nat /\ DOMAIN bindings[e] = 1 .. k /\ bindings[e] \in Seq(BindingRows)
    BY <1>1, VersionsOf DEF BindingRows
  <1>3. bindings'[e] = Append(bindings[e], row)
    BY <1>1 DEF Types
  <1>4. /\ bindings'[e] \in Seq(BindingRows)
        /\ Len(bindings'[e]) = k + 1
        /\ DOMAIN bindings'[e] = 1 .. k + 1
        /\ bindings'[e][k + 1] = row
        /\ \A v \in 1 .. k : bindings'[e][v] = bindings[e][v]
    BY <1>1, <1>2, <1>3
  <1>5. /\ bindings' \in [Entities -> Seq(BindingRows)]
        /\ \A f \in Entities \ {e} : bindings'[f] = bindings[f]
    BY <1>1, <1>3, <1>4 DEF Types
  <1>6. Actives(e)' = {k + 1}
    <2>1. \A v \in 1 .. k : bindings'[e][v].status # "ACTIVE"
      BY <1>2, <1>4 DEF Actives
    <2>2. \A v \in 1 .. k + 1 : v \in 1 .. k \/ v = k + 1
      BY <1>2
    <2>3. k + 1 \in 1 .. k + 1
      BY <1>2
    <2> QED BY <1>2, <1>4, <2>1, <2>2, <2>3 DEF Actives
  <1>7. \A f \in Entities \ {e} : Actives(f)' = Actives(f)
    BY <1>5 DEF Actives
  <1>8. EntityTold(e) /\ \A f \in Entities \ {e} : EntityTold(f)'
    BY <1>5, LogInParts, EntityStays, LogGrows
  <1>9. EntityTold(e)'
    <2>1. PICK n : n = k + 1
      OBVIOUS
    <2>2. Cardinality(Actives(e)) = 0 /\ Cardinality(Actives(e)') = 1
      BY <1>6, FS_EmptySet, FS_Singleton
    <2>3. n \in Nat /\ n = Len(bindings'[e]) /\ Actives(e)' \subseteq {n}
      BY <1>2, <1>4, <1>6, <2>1
    <2> QED BY <1>1, <1>2, <1>8, <2>1, <2>2, <2>3, EntityGrows
  <1>10. PrincipalsApart'
    <2> SUFFICES ASSUME NEW f \in Entities, NEW g \in Entities, NEW v \in Actives(f)', NEW w \in Actives(g)',
                        bindings'[f][v].principal = bindings'[g][w].principal
                 PROVE  f = g
      BY DEF PrincipalsApart
    <2>1. \A h \in Entities \ {e} : \A u \in Actives(h) : bindings[h][u].principal # p
      BY DEF Bound
    <2>2. CASE f # e /\ g # e
      BY <1>5, <1>7, <2>2, LogInParts DEF PrincipalsApart
    <2>3. CASE f = e /\ g # e
      BY <1>2, <1>4, <1>5, <1>6, <1>7, <2>1, <2>3
    <2>4. CASE f # e /\ g = e
      BY <1>2, <1>4, <1>5, <1>6, <1>7, <2>1, <2>4
    <2> QED BY <2>2, <2>3, <2>4
  <1> QED BY <1>5, <1>8, <1>9, <1>10, LogInPartsNext

(* A REVOKED ends the one version that is open.                            *)
LEMMA RevokedIsTold ==
    ASSUME Types, LogTellsBindings, NEW e \in Entities, NEW event \in Events, NEW v \in Actives(e),
           event.kind = "REVOKED", events' = [events EXCEPT ![e] = Append(@, event)],
           bindings' = [bindings EXCEPT ![e][v].status = "REVOKED"]
    PROVE  /\ bindings' \in [Entities -> Seq(BindingRows)]
           /\ \A f \in Entities \ {e} : bindings'[f] = bindings[f]
           /\ Actives(e)' = {}
           /\ LogTellsBindings'
  <1>1. PICK k : k = Len(bindings[e])
    OBVIOUS
  <1>2. EntityTold(e)
    BY LogInParts
  <1>3. /\ k \in Nat /\ DOMAIN bindings[e] = 1 .. k /\ bindings[e] \in Seq(BindingRows)
        /\ Actives(e) = {v} /\ Cardinality(Actives(e)) = 1
        /\ v \in 1 .. k
    BY <1>1, <1>2, VersionsOf DEF Actives
  <1>4. PICK row : row = [bindings[e][v] EXCEPT !.status = "REVOKED"]
    OBVIOUS
  <1>5. row \in BindingRows /\ row.status = "REVOKED"
    <2>1. bindings[e][v] \in BindingRows
      BY <1>3
    <2> QED BY <1>4, <2>1 DEF BindingRows
  <1>6. bindings'[e] = [bindings[e] EXCEPT ![v] = row]
    BY <1>4 DEF Types
  <1>7. /\ bindings'[e] \in Seq(BindingRows)
        /\ Len(bindings'[e]) = k
        /\ DOMAIN bindings'[e] = 1 .. k
        /\ bindings'[e][v] = row
        /\ \A u \in (1 .. k) \ {v} : bindings'[e][u] = bindings[e][u]
    <2>1. v \in 1 .. Len(bindings[e])
      BY <1>1, <1>3
    <2>2. [bindings[e] EXCEPT ![v] = row] \in Seq(BindingRows)
      BY <1>3, <1>5, <2>1, ExceptSeq
    <2>3. DOMAIN bindings'[e] = 1 .. k
      BY <1>3, <1>6
    <2>4. Len(bindings'[e]) = k
      BY <1>3, <1>6, <2>2, <2>3
    <2> QED BY <1>3, <1>6, <2>2, <2>3, <2>4
  <1>8. /\ bindings' \in [Entities -> Seq(BindingRows)]
        /\ \A f \in Entities \ {e} : bindings'[f] = bindings[f]
    BY <1>4, <1>6, <1>7 DEF Types
  <1>9. Actives(e)' = {}
    BY <1>3, <1>5, <1>7 DEF Actives
  <1>10. \A f \in Entities \ {e} : Actives(f)' = Actives(f)
    BY <1>8 DEF Actives
  <1>11. \A f \in Entities \ {e} : EntityTold(f)'
    BY <1>8, LogInParts, EntityStays, LogGrows
  <1>12. EntityTold(e)'
    <2>1. Cardinality(Actives(e)') = 0
      BY <1>9, FS_EmptySet
    <2>2. k = Len(bindings'[e]) /\ Actives(e)' \subseteq {k}
      BY <1>7, <1>9
    <2> QED BY <1>1, <1>2, <1>3, <2>1, <2>2, EntityGrows
  <1>13. PrincipalsApart'
    BY <1>8, <1>9, <1>10, LogInParts DEF PrincipalsApart
  <1> QED BY <1>8, <1>9, <1>11, <1>12, <1>13, LogInPartsNext

LEMMA LogStays ==
    ASSUME LogTellsBindings, UNCHANGED <<events, bindings>>
    PROVE  LogTellsBindings'
  <1>1. \A e \in Entities : EntityTold(e)'
    BY LogInParts, EntityStays
  <1>2. PrincipalsApart'
    BY LogInParts DEF PrincipalsApart, Actives
  <1> QED BY <1>1, <1>2, LogInPartsNext

-----------------------------------------------------------------------------
(* Requests.                                                               *)

LEMMA InitialBinding == Init => BindingInv
  <1> SUFFICES ASSUME Init PROVE BindingInv
    OBVIOUS
  <1> USE DEF Init, CommandsInit, Row
  <1>1. request \in [Requests -> RequestRows]
    BY DEF RequestRows, Answers
  <1>2. action \in [Keys -> ActionRows] /\ call \in [Calls -> CallRows]
    BY DEF ActionRows, CallRows
  <1>3. Types
    <2>1. <<>> \in Seq(Events) /\ <<>> \in Seq(BindingRows)
      OBVIOUS
    <2>2. events \in [Entities -> Seq(Events)] /\ bindings \in [Entities -> Seq(BindingRows)]
      BY <2>1
    <2>3. locked \in [Entities -> Calls \cup {Nobody}] /\ writing \subseteq [by : Writers, entity : Entities, seq : Nat]
      OBVIOUS
    <2> QED BY <1>1, <1>2, <2>2, <2>3 DEF Types
  <1>4. WritersAreAtWork
    BY DEF WritersAreAtWork
  <1>5. KeysAreReserved /\ AnswersAreOnRecord
    BY DEF KeysAreReserved, AnswersAreOnRecord, Runs, Answered
  <1>6. EffectsAreOnce
    <2>1. \A k \in Keys, e \in Entities : Effects(k, e) = {}
      BY DEF Effects
    <2>2. \A k \in Keys, e \in Entities : action[k] # [status |-> "SUCCEEDED", target |-> e]
      BY CommandConstants
    <2> QED BY <2>1, <2>2, FS_EmptySet DEF EffectsAreOnce
  <1>7. CallInv
    BY DEF CallInv, CallIsAbout, OneInserter
  <1>8. LogTellsBindings
    <2>1. \A e \in Entities : Actives(e) = {}
      BY DEF Actives
    <2>2. \A e \in Entities : EntityTold(e)
      <3> SUFFICES ASSUME NEW e \in Entities PROVE EntityTold(e)
        OBVIOUS
      <3>1. Len(events[e]) = 0 /\ Len(bindings[e]) = 0
        OBVIOUS
      <3>2. \A kind : {i \in 1 .. 0 : events[e][i].kind = kind} = {}
        OBVIOUS
      <3>3. \A kind : Told(kind, e, 0) = 0
        BY <3>2, FS_EmptySet DEF Told
      <3>4. Actives(e) = {} /\ Cardinality(Actives(e)) = 0
        BY <2>1, FS_EmptySet
      <3>5. \A n : n = 0 => (\A m \in 1 .. n : FALSE) /\ Told("BOUND", e, n) = 0 /\ Told("REVOKED", e, n) = 0
        BY <3>3
      <3>6. /\ \A m \in 1 .. Len(events[e]) : FALSE
            /\ Told("BOUND", e, Len(events[e])) = 0
            /\ Told("REVOKED", e, Len(events[e])) = 0
        BY <3>1, <3>5
      <3> HIDE DEF Init, CommandsInit
      <3> QED BY <3>1, <3>4, <3>6 DEF EntityTold
    <2> QED BY <2>1, <2>2, LogInParts DEF PrincipalsApart
  <1> QED BY <1>3, <1>4, <1>5, <1>6, <1>7, <1>8 DEF BindingInv, CommandInv

LEMMA CallsStay ==
    ASSUME CallInv, UNCHANGED bindingVars
    PROVE  CallInv'
  BY DEF CallInv, CallIsAbout, OneInserter, Actives, Bound, bindingVars

LEMMA EffectsStay ==
    ASSUME EffectsAreOnce, UNCHANGED <<events, action>>
    PROVE  EffectsAreOnce'
  BY DEF EffectsAreOnce, Effects

LEMMA RowOfRequest ==
    ASSUME Types, NEW r \in Requests
    PROVE  /\ request[r] \in RequestRows
           /\ request[r].key \in Keys
           /\ request[r].target \in Entities
           /\ action[request[r].key] \in ActionRows
  BY DEF Types, RequestRows

(* An event of a request that is not at work is not being written.         *)
LEMMA IdleWritesNothing ==
    ASSUME Types, WritersAreAtWork, NEW w \in writing
    PROVE  /\ \A r \in Requests : request[r].at # "WORKED" => w.by # r
           /\ \A b \in Calls : call[b].at \notin {"INSERTED", "REVOKING"} => w.by # b
           /\ w.by \in Writers /\ w.entity \in Entities
  BY DEF WritersAreAtWork, Types

LEMMA InsertActionKeeps ==
    ASSUME BindingInv, NEW r \in Requests, InsertAction(r), UNCHANGED bindingVars
    PROVE  BindingInv'
  <1>1. /\ request[r].at = "SENT"
        /\ \A q \in Requests : Runs(q) => request[q].key # request[r].key
        /\ action[request[r].key].status = "NONE"
        /\ request' = [request EXCEPT ![r].at = "RUNNING"]
        /\ UNCHANGED <<action, events, writing>>
    BY DEF InsertAction, InFlight, Runs
  <1>2. /\ request' \in [Requests -> RequestRows]
        /\ \A q \in Requests : /\ request'[q].key = request[q].key
                              /\ request'[q].target = request[q].target
                              /\ request'[q].answer = request[q].answer
        /\ \A q \in Requests \ {r} : request'[q] = request[q]
    BY <1>1 DEF BindingInv, Types, RequestRows
  <1>3. Types'
    BY <1>1, <1>2 DEF BindingInv, Types, bindingVars
  <1>4. WritersAreAtWork'
    BY <1>1, <1>2, IdleWritesNothing DEF BindingInv, WritersAreAtWork, bindingVars
  <1>5. KeysAreReserved' /\ AnswersAreOnRecord'
    BY <1>1, <1>2 DEF BindingInv, CommandInv, KeysAreReserved, AnswersAreOnRecord, Runs, Answered
  <1> QED BY <1>1, <1>3, <1>4, <1>5, EffectsStay, CallsStay, LogStays
          DEF BindingInv, CommandInv, bindingVars

LEMMA ReplayActionKeeps ==
    ASSUME BindingInv, NEW r \in Requests, ReplayAction(r), UNCHANGED bindingVars
    PROVE  BindingInv'
  <1>1. PICK a : a = ReplayAnswer(action[request[r].key], request[r].target)
    OBVIOUS
  <1>2. /\ request[r].at = "SENT"
        /\ action[request[r].key].status # "NONE"
        /\ request' = [request EXCEPT ![r].at = "DONE", ![r].answer = a]
        /\ UNCHANGED <<action, events, writing>>
    BY <1>1 DEF ReplayAction, Answer
  <1>3. a \in {"CONFLICT", "RESULT", "FAILED"}
    BY <1>1 DEF ReplayAnswer
  <1>4. /\ request' \in [Requests -> RequestRows]
        /\ \A q \in Requests : /\ request'[q].key = request[q].key
                              /\ request'[q].target = request[q].target
        /\ \A q \in Requests \ {r} : request'[q] = request[q]
        /\ request'[r].at = "DONE" /\ request'[r].answer = a
    BY <1>2, <1>3 DEF BindingInv, Types, RequestRows, Answers
  <1>5. Types'
    BY <1>2, <1>4 DEF BindingInv, Types, bindingVars
  <1>6. WritersAreAtWork'
    BY <1>2, <1>4, IdleWritesNothing DEF BindingInv, WritersAreAtWork, bindingVars
  <1>7. KeysAreReserved'
    BY <1>2, <1>4 DEF BindingInv, CommandInv, KeysAreReserved, Runs
  <1>8. AnswersAreOnRecord'
    BY <1>1, <1>2, <1>4 DEF BindingInv, CommandInv, AnswersAreOnRecord, Answered
  <1> QED BY <1>2, <1>5, <1>6, <1>7, <1>8, EffectsStay, CallsStay, LogStays
          DEF BindingInv, CommandInv, bindingVars

LEMMA ExecuteKeeps ==
    ASSUME BindingInv, NEW r \in Requests, Execute(r), UNCHANGED bindingVars
    PROVE  BindingInv'
  <1>1. PICK x : x = [by |-> r, entity |-> request[r].target, seq |-> Len(events[request[r].target]) + 1]
    OBVIOUS
  <1>2. /\ request[r].at = "RUNNING"
        /\ writing' = writing \cup {x}
        /\ request' = [request EXCEPT ![r].at = "WORKED"]
        /\ UNCHANGED <<action, events>>
    BY <1>1 DEF Execute, AppendEvent
  <1>3. /\ request' \in [Requests -> RequestRows]
        /\ \A q \in Requests : /\ request'[q].key = request[q].key
                              /\ request'[q].target = request[q].target
                              /\ request'[q].answer = request[q].answer
        /\ \A q \in Requests \ {r} : request'[q] = request[q]
        /\ request'[r].at = "WORKED"
    BY <1>2 DEF BindingInv, Types, RequestRows
  <1>4. x \in [by : Writers, entity : Entities, seq : Nat]
    <2>1. Len(events[request[r].target]) \in Nat /\ request[r].target \in Entities
      BY RowOfRequest DEF BindingInv, Types
    <2> QED BY <1>1, <2>1 DEF Writers
  <1>5. Types'
    BY <1>2, <1>3, <1>4 DEF BindingInv, Types, bindingVars
  <1>6. WritersAreAtWork'
    <2>1. r \notin Calls /\ x.by = r /\ x.entity = request[r].target
      BY <1>1, BindingConstants
    <2>2. \A w \in writing : w.by # r
      BY <1>2, IdleWritesNothing DEF BindingInv
    <2> QED BY <1>2, <1>3, <2>1, <2>2 DEF BindingInv, WritersAreAtWork, bindingVars
  <1>7. KeysAreReserved' /\ AnswersAreOnRecord'
    BY <1>2, <1>3 DEF BindingInv, CommandInv, KeysAreReserved, AnswersAreOnRecord, Runs, Answered
  <1> QED BY <1>2, <1>5, <1>6, <1>7, EffectsStay, CallsStay, LogStays
          DEF BindingInv, CommandInv, bindingVars

(* A request that ends, with the row of its key as it leaves it.           *)
LEMMA RequestEnds ==
    ASSUME BindingInv, NEW r \in Requests, Runs(r), UNCHANGED bindingVars,
           NEW a \in Answers, NEW row \in ActionRows,
           request' = [request EXCEPT ![r].at = "DONE", ![r].answer = a],
           action' = [action EXCEPT ![request[r].key] = row],
           a \in {"RESULT", "FAILED"} =>
              /\ row.status # "NONE"
              /\ a = ReplayAnswer(row, request[r].target),
           a \notin {"RESULT", "FAILED"} => a # "CONFLICT",
           events' \in [Entities -> Seq(Events)],
           writing' \subseteq {w \in writing : w.by # r}
    PROVE  Types' /\ WritersAreAtWork' /\ KeysAreReserved' /\ AnswersAreOnRecord'
  <1>1. PICK k : k = request[r].key
    OBVIOUS
  <1>2. /\ k \in Keys /\ action[k].status = "NONE"
        /\ \A q \in Requests : Runs(q) /\ request[q].key = k => q = r
    BY <1>1, RowOfRequest DEF BindingInv, CommandInv, KeysAreReserved
  <1>3. /\ request' \in [Requests -> RequestRows]
        /\ \A q \in Requests : /\ request'[q].key = request[q].key
                              /\ request'[q].target = request[q].target
        /\ \A q \in Requests \ {r} : request'[q] = request[q]
        /\ request'[r].at = "DONE" /\ request'[r].answer = a
    BY DEF BindingInv, Types, RequestRows
  <1>4. /\ action' \in [Keys -> ActionRows]
        /\ action'[k] = row
        /\ \A l \in Keys \ {k} : action'[l] = action[l]
    BY <1>1, <1>2 DEF BindingInv, Types
  <1>5. Types'
    BY <1>3, <1>4 DEF BindingInv, Types, bindingVars
  <1>6. WritersAreAtWork'
    BY <1>3 DEF BindingInv, WritersAreAtWork, bindingVars
  <1>7. KeysAreReserved'
    <2>1. \A q \in Requests : (request'[q].at \in {"RUNNING", "WORKED"}) =>
             q # r /\ Runs(q) /\ request'[q].key # k /\ request'[q].key \in Keys
      BY <1>2, <1>3, RowOfRequest DEF BindingInv, Runs
    <2> QED BY <1>3, <1>4, <2>1 DEF BindingInv, CommandInv, KeysAreReserved, Runs
  <1>8. AnswersAreOnRecord'
    <2> SUFFICES ASSUME NEW q \in Requests, request'[q].answer \in {"RESULT", "FAILED", "CONFLICT"}
                 PROVE  /\ action'[request'[q].key].status # "NONE"
                        /\ request'[q].answer = ReplayAnswer(action'[request'[q].key], request'[q].target)
      BY DEF AnswersAreOnRecord, Answered
    <2>1. CASE q = r
      BY <1>1, <1>3, <1>4, <2>1
    <2>2. CASE q # r
      <3>1. /\ action[request[q].key].status # "NONE"
            /\ request[q].answer = ReplayAnswer(action[request[q].key], request[q].target)
        BY <1>3, <2>2 DEF BindingInv, CommandInv, AnswersAreOnRecord, Answered
      <3>2. request[q].key \in Keys \ {k}
        BY <1>2, <3>1, RowOfRequest DEF BindingInv
      <3> QED BY <1>3, <1>4, <2>2, <3>1, <3>2
    <2> QED BY <2>1, <2>2
  <1> QED BY <1>5, <1>6, <1>7, <1>8

(* The event that becomes visible is on the entity its writer is about.    *)
LEMMA Published ==
    ASSUME BindingInv, NEW who \in Writers, NEW event, PublishEvent(who, event)
    PROVE  \E e \in Entities :
              /\ who \in Requests => e = request[who].target
              /\ who \in Calls => e = call[who].entity
              /\ events' = [events EXCEPT ![e] = Append(@, event)]
              /\ writing' = {w \in writing : w.by # who}
  <1>1. PICK w \in writing : /\ w.by = who
                             /\ events' = [events EXCEPT ![w.entity] = Append(@, event)]
                             /\ writing' = writing \ {w}
    BY DEF PublishEvent
  <1>2. /\ w.entity \in Entities
        /\ who \in Requests => w.entity = request[who].target
        /\ who \in Calls => w.entity = call[who].entity
        /\ writing \ {w} = {x \in writing : x.by # who}
    BY <1>1 DEF BindingInv, WritersAreAtWork, Types
  <1> QED BY <1>1, <1>2

LEMMA CommitCommandKeeps ==
    ASSUME BindingInv, NEW r \in Requests, CommitCommand(r), UNCHANGED bindingVars
    PROVE  BindingInv'
  <1>1. PICK k, e, row, event :
           /\ k = request[r].key
           /\ e = request[r].target
           /\ row = [status |-> "SUCCEEDED", target |-> e]
           /\ event = [kind |-> "DONE", by |-> k]
    OBVIOUS
  <1>2. /\ request[r].at = "WORKED"
        /\ action' = [action EXCEPT ![k] = row]
        /\ PublishEvent(r, event)
        /\ request' = [request EXCEPT ![r].at = "DONE", ![r].answer = "RESULT"]
    BY <1>1 DEF CommitCommand, Record, Answer
  <1>3. /\ k \in Keys /\ e \in Entities /\ row \in ActionRows /\ event \in Events
        /\ event.kind = "DONE"
    BY <1>1, RowOfRequest DEF BindingInv, ActionRows, Events, EventRows
  <1>4. /\ events' = [events EXCEPT ![e] = Append(@, event)]
        /\ writing' = {w \in writing : w.by # r}
    BY <1>1, <1>2, Published DEF Writers
  <1>5. Types /\ LogTellsBindings /\ WritersAreAtWork /\ CommandInv /\ CallInv
    BY DEF BindingInv
  <1>6. events' \in [Entities -> Seq(Events)]
    BY <1>3, <1>4, <1>5, LogGrows
  <1>7. Runs(r) /\ action[k].status = "NONE"
    BY <1>1, <1>2, <1>5 DEF Runs, CommandInv, KeysAreReserved
  <1>8. Types' /\ WritersAreAtWork' /\ KeysAreReserved' /\ AnswersAreOnRecord'
    <2>1. "RESULT" \in Answers /\ row.status # "NONE" /\ "RESULT" = ReplayAnswer(row, request[r].target)
      BY <1>1 DEF Answers, ReplayAnswer
    <2>2. action' = [action EXCEPT ![request[r].key] = row]
      BY <1>1, <1>2
    <2> QED BY <1>2, <1>3, <1>4, <1>6, <1>7, <2>1, <2>2, RequestEnds
  <1>9. EffectsAreOnce'
    <2> SUFFICES ASSUME NEW l \in Keys, NEW f \in Entities
                 PROVE  Cardinality(Effects(l, f)') =
                           IF action'[l] = [status |-> "SUCCEEDED", target |-> f] THEN 1 ELSE 0
      BY DEF EffectsAreOnce
    <2>1. /\ e = f /\ k = l => Cardinality(Effects(l, f)') = Cardinality(Effects(l, f)) + 1
          /\ ~(e = f /\ k = l) => Effects(l, f)' = Effects(l, f)
      <3>1. event = [kind |-> "DONE", by |-> l] <=> k = l
        BY <1>1
      <3> QED BY <1>3, <1>4, <1>5, <3>1, EffectsGrow
    <2>2. Cardinality(Effects(l, f)) = IF action[l] = [status |-> "SUCCEEDED", target |-> f] THEN 1 ELSE 0
      BY <1>5 DEF CommandInv, EffectsAreOnce
    <2>3. action'[k] = row /\ (l # k => action'[l] = action[l])
      BY <1>2, <1>3, <1>5 DEF Types
    <2>4. l = k => Cardinality(Effects(l, f)) = 0
      BY <1>7, <2>2
    <2>5. row = [status |-> "SUCCEEDED", target |-> f] <=> e = f
      BY <1>1
    <2>6. CASE l = k /\ e = f
      BY <2>1, <2>3, <2>4, <2>5, <2>6
    <2>7. CASE l = k /\ e # f
      BY <2>1, <2>3, <2>4, <2>5, <2>7
    <2>8. CASE l # k
      BY <2>1, <2>2, <2>3, <2>8
    <2> QED BY <2>6, <2>7, <2>8
  <1>10. LogTellsBindings'
    BY <1>3, <1>4, <1>5, WorkIsNotTold DEF bindingVars
  <1>11. CallInv'
    BY <1>5, CallsStay
  <1> QED BY <1>8, <1>9, <1>10, <1>11 DEF BindingInv, CommandInv

LEMMA FailCommandKeeps ==
    ASSUME BindingInv, NEW r \in Requests, FailCommand(r), UNCHANGED bindingVars
    PROVE  BindingInv'
  <1>1. PICK k, row : k = request[r].key /\ row = [status |-> "FAILED", target |-> request[r].target]
    OBVIOUS
  <1>2. /\ Runs(r)
        /\ action' = [action EXCEPT ![request[r].key] = row]
        /\ writing' = {w \in writing : w.by # r}
        /\ request' = [request EXCEPT ![r].at = "DONE", ![r].answer = "FAILED"]
        /\ events' = events
    BY <1>1 DEF FailCommand, Runs, Record, Answer, DropEvent
  <1>3. Types /\ LogTellsBindings /\ WritersAreAtWork /\ CommandInv /\ CallInv
    BY DEF BindingInv
  <1>4. k \in Keys /\ row \in ActionRows /\ action[k].status = "NONE"
    BY <1>1, <1>2, <1>3, RowOfRequest DEF ActionRows, CommandInv, KeysAreReserved
  <1>5. Types' /\ WritersAreAtWork' /\ KeysAreReserved' /\ AnswersAreOnRecord'
    <2>1. "FAILED" \in Answers /\ row.status # "NONE" /\ "FAILED" = ReplayAnswer(row, request[r].target)
      BY <1>1 DEF Answers, ReplayAnswer
    <2>2. events' \in [Entities -> Seq(Events)]
      BY <1>2, <1>3 DEF Types
    <2> QED BY <1>2, <1>4, <2>1, <2>2, RequestEnds
  <1>6. EffectsAreOnce'
    <2> SUFFICES ASSUME NEW l \in Keys, NEW f \in Entities
                 PROVE  Cardinality(Effects(l, f)') =
                           IF action'[l] = [status |-> "SUCCEEDED", target |-> f] THEN 1 ELSE 0
      BY DEF EffectsAreOnce
    <2>1. Effects(l, f)' = Effects(l, f)
      BY <1>2 DEF Effects
    <2>2. Cardinality(Effects(l, f)) = IF action[l] = [status |-> "SUCCEEDED", target |-> f] THEN 1 ELSE 0
      BY <1>3 DEF CommandInv, EffectsAreOnce
    <2>3. action'[k] = row /\ (l # k => action'[l] = action[l])
      BY <1>1, <1>2, <1>3, <1>4 DEF Types
    <2>4. row # [status |-> "SUCCEEDED", target |-> f]
      BY <1>1
    <2> QED BY <1>4, <2>1, <2>2, <2>3, <2>4
  <1> QED BY <1>2, <1>3, <1>5, <1>6, CallsStay, LogStays DEF BindingInv, CommandInv, bindingVars

LEMMA AbortCommandKeeps ==
    ASSUME BindingInv, NEW r \in Requests, AbortCommand(r), UNCHANGED bindingVars
    PROVE  BindingInv'
  <1>1. /\ Runs(r)
        /\ writing' = {w \in writing : w.by # r}
        /\ request' = [request EXCEPT ![r].at = "DONE", ![r].answer = "ERROR"]
        /\ UNCHANGED <<action, events>>
    BY DEF AbortCommand, Runs, Answer, DropEvent
  <1>2. Types /\ LogTellsBindings /\ WritersAreAtWork /\ CommandInv /\ CallInv
    BY DEF BindingInv
  <1>3. Types' /\ WritersAreAtWork' /\ KeysAreReserved' /\ AnswersAreOnRecord'
    <2>1. PICK row : row = action[request[r].key]
      OBVIOUS
    <2>2. /\ row \in ActionRows
          /\ action' = [action EXCEPT ![request[r].key] = row]
      BY <1>1, <1>2, <2>1, RowOfRequest DEF Types
    <2>3. events' \in [Entities -> Seq(Events)] /\ "ERROR" \in Answers
      BY <1>1, <1>2 DEF Types, Answers
    <2> QED BY <1>1, <2>2, <2>3, RequestEnds
  <1> QED BY <1>1, <1>2, <1>3, EffectsStay, CallsStay, LogStays DEF BindingInv, CommandInv, bindingVars

LEMMA CommandStep ==
    ASSUME BindingInv, CommandsNext, UNCHANGED bindingVars
    PROVE  BindingInv'
  BY InsertActionKeeps, ReplayActionKeeps, ExecuteKeeps, CommitCommandKeeps, FailCommandKeeps,
     AbortCommandKeeps DEF CommandsNext, Serve

-----------------------------------------------------------------------------
(* Calls.                                                                  *)

LEMMA RequestsStay ==
    ASSUME KeysAreReserved, AnswersAreOnRecord, UNCHANGED <<request, action>>
    PROVE  KeysAreReserved' /\ AnswersAreOnRecord'
  BY DEF KeysAreReserved, AnswersAreOnRecord, Runs, Answered

(* The event of a call is no effect of a command.                          *)
LEMMA CallsHaveNoEffects ==
    ASSUME Types, EffectsAreOnce, UNCHANGED action, NEW e \in Entities, NEW event \in Events,
           event.kind # "DONE", events' = [events EXCEPT ![e] = Append(@, event)]
    PROVE  EffectsAreOnce'
  <1> SUFFICES ASSUME NEW k \in Keys, NEW f \in Entities
               PROVE  Cardinality(Effects(k, f)') =
                         IF action[k] = [status |-> "SUCCEEDED", target |-> f] THEN 1 ELSE 0
    BY DEF EffectsAreOnce
  <1>1. event # [kind |-> "DONE", by |-> k]
    OBVIOUS
  <1>2. Effects(k, f)' = Effects(k, f)
    BY <1>1, EffectsGrow
  <1> QED BY <1>2 DEF EffectsAreOnce

(* A step of one call leaves the others in their place, as long as it      *)
(* leaves them their locks and what they found.                            *)
LEMMA OtherCallsStay ==
    ASSUME BindingInv, NEW b \in Calls, NEW row \in CallRows, call' = [call EXCEPT ![b] = row],
           \A e \in Entities : locked[e] \in Calls \ {b} => locked'[e] = locked[e],
           \A c \in Calls \ {b}, e \in Entities, p \in Principals :
               call[c].at = "INSERTED" /\ call[c].entity = e /\ call[c].principal = p
               => Actives(e)' = {} /\ ~Bound(p)'
    PROVE  /\ call' \in [Calls -> CallRows]
           /\ call'[b] = row
           /\ \A c \in Calls \ {b} : call'[c] = call[c] /\ CallIsAbout(c)'
  <1>1. /\ call' \in [Calls -> CallRows]
        /\ call'[b] = row
        /\ \A c \in Calls \ {b} : call'[c] = call[c]
    BY DEF BindingInv, Types
  <1>2. ASSUME NEW c \in Calls \ {b} PROVE CallIsAbout(c)'
    <2>1. PICK r, e, p : r = call[c] /\ e = r.entity /\ p = r.principal
      OBVIOUS
    <2>2. /\ r.at \notin {"IDLE", "DONE"} => e \in Entities
          /\ r.at \in {"VERIFIED", "BINDING", "INSERTED"} => p \in Principals
          /\ r.at \in {"BINDING", "INSERTED", "REVOKING"} => locked[e] = c
      BY <2>1 DEF BindingInv, CallInv, CallIsAbout
    <2>3. r.at \in {"BINDING", "INSERTED", "REVOKING"} => locked'[e] = c
      BY <2>2
    <2>4. r.at = "INSERTED" => Actives(e)' = {} /\ ~Bound(p)'
      BY <2>1, <2>2
    <2>5. call'[c] = r
      BY <1>1, <2>1
    <2>6. (r.entity = e /\ r.at = "INSERTED") => Actives(call[c].entity)' = {}
      BY <2>4, <2>5 DEF Actives
    <2>7. (r.principal = p /\ r.at = "INSERTED") => ~Bound(call[c].principal)'
      BY <2>4, <2>5 DEF Bound, Actives
    <2> QED BY <2>1, <2>2, <2>3, <2>5, <2>6, <2>7 DEF CallIsAbout
  <1> QED BY <1>1, <1>2

(* The same, when no binding changes.                                      *)
LEMMA BindingsStay ==
    ASSUME BindingInv, NEW b \in Calls, NEW row \in CallRows, call' = [call EXCEPT ![b] = row],
           \A e \in Entities : locked[e] \in Calls \ {b} => locked'[e] = locked[e],
           UNCHANGED bindings
    PROVE  /\ call' \in [Calls -> CallRows]
           /\ call'[b] = row
           /\ \A c \in Calls \ {b} : call'[c] = call[c] /\ CallIsAbout(c)'
  <1>1. ASSUME NEW c \in Calls \ {b}, NEW e \in Entities, NEW p \in Principals,
               call[c].at = "INSERTED", call[c].entity = e, call[c].principal = p
        PROVE  Actives(e)' = {} /\ ~Bound(p)'
    <2>1. Actives(e) = {} /\ ~Bound(p)
      BY <1>1 DEF BindingInv, CallInv, CallIsAbout
    <2> QED BY <2>1 DEF Actives, Bound
  <1> QED BY <1>1, OtherCallsStay

(* A call that has nothing to write before or after the step.              *)
LEMMA QuietCallKeeps ==
    ASSUME BindingInv, NEW b \in Calls, NEW row \in CallRows, call' = [call EXCEPT ![b] = row],
           call[b].at \notin {"INSERTED", "REVOKING"}, row.at # "INSERTED",
           UNCHANGED <<commandVars, bindings>>,
           locked' \in [Entities -> Calls \cup {Nobody}],
           \A e \in Entities : locked[e] \in Calls \ {b} => locked'[e] = locked[e],
           row.at \notin {"IDLE", "DONE"} => row.entity \in Entities,
           row.at \in {"VERIFIED", "BINDING"} => row.principal \in Principals,
           row.at \in {"BINDING", "REVOKING"} => locked'[row.entity] = b
    PROVE  BindingInv'
  <1>1. Types /\ LogTellsBindings /\ WritersAreAtWork /\ CommandInv /\ CallInv
    BY DEF BindingInv
  <1>2. UNCHANGED <<request, action, events, writing, bindings>>
    BY DEF commandVars
  <1>3. /\ call' \in [Calls -> CallRows]
        /\ call'[b] = row
        /\ \A c \in Calls \ {b} : call'[c] = call[c] /\ CallIsAbout(c)'
    BY <1>2, BindingsStay
  <1>4. Types'
    BY <1>1, <1>2, <1>3 DEF Types
  <1>5. WritersAreAtWork'
    BY <1>1, <1>2, <1>3, IdleWritesNothing DEF WritersAreAtWork
  <1>6. CommandInv'
    BY <1>1, <1>2, RequestsStay, EffectsStay DEF CommandInv
  <1>7. CallIsAbout(b)'
    BY <1>3 DEF CallIsAbout
  <1>8. OneInserter'
    BY <1>1, <1>3 DEF CallInv, OneInserter
  <1> QED BY <1>1, <1>2, <1>3, <1>4, <1>5, <1>6, <1>7, <1>8, LogStays DEF BindingInv, CallInv

LEMMA GiveUpKeeps ==
    ASSUME BindingInv, NEW b \in Calls, GiveUp(b)
    PROVE  BindingInv'
  <1>1. PICK row : row = Row("DONE", NoEntity)
    OBVIOUS
  <1>2. /\ call' = [call EXCEPT ![b] = row]
        /\ locked' = [e \in Entities |-> IF locked[e] = b THEN Nobody ELSE locked[e]]
        /\ writing' = {w \in writing : w.by # b}
        /\ UNCHANGED <<request, action, events, bindings>>
    BY <1>1 DEF GiveUp, End, Unlock, DropEvent
  <1>3. row \in CallRows /\ row.at = "DONE"
    BY <1>1 DEF Row, CallRows
  <1>4. Types /\ LogTellsBindings /\ WritersAreAtWork /\ CommandInv /\ CallInv
    BY DEF BindingInv
  <1>5. /\ locked' \in [Entities -> Calls \cup {Nobody}]
        /\ \A e \in Entities : locked[e] \in Calls \ {b} => locked'[e] = locked[e]
    BY <1>2, <1>4 DEF Types
  <1>6. /\ call' \in [Calls -> CallRows]
        /\ call'[b] = row
        /\ \A c \in Calls \ {b} : call'[c] = call[c] /\ CallIsAbout(c)'
    BY <1>2, <1>3, <1>5, BindingsStay
  <1>7. Types'
    BY <1>2, <1>4, <1>5, <1>6 DEF Types
  <1>8. WritersAreAtWork'
    BY <1>2, <1>4, <1>6 DEF WritersAreAtWork
  <1>9. CallInv'
    BY <1>3, <1>4, <1>6 DEF CallInv, CallIsAbout, OneInserter
  <1> QED BY <1>2, <1>4, <1>7, <1>8, <1>9, RequestsStay, EffectsStay, LogStays
          DEF BindingInv, CommandInv

(* A call that starts to write, under the lock of its entity.              *)
LEMMA WriterBegins ==
    ASSUME BindingInv, NEW b \in Calls, NEW row \in CallRows, call' = [call EXCEPT ![b] = row],
           call[b].at \notin {"INSERTED", "REVOKING"}, row.at \in {"INSERTED", "REVOKING"},
           NEW e \in Entities, row.entity = e, AppendEvent(b, e),
           UNCHANGED <<request, action, events, bindings>>,
           locked' \in [Entities -> Calls \cup {Nobody}], locked'[e] = b,
           \A f \in Entities : locked[f] \in Calls \ {b} => locked'[f] = locked[f],
           row.at = "INSERTED" =>
              /\ row.principal \in Principals /\ Actives(e) = {} /\ ~Bound(row.principal)
              /\ \A c \in Calls : call[c].at = "INSERTED" => call[c].principal # row.principal
    PROVE  BindingInv'
  <1>1. PICK x : x = [by |-> b, entity |-> e, seq |-> Len(events[e]) + 1]
    OBVIOUS
  <1>2. writing' = writing \cup {x}
    BY <1>1 DEF AppendEvent
  <1>3. Types /\ LogTellsBindings /\ WritersAreAtWork /\ CommandInv /\ CallInv
    BY DEF BindingInv
  <1>4. /\ call' \in [Calls -> CallRows]
        /\ call'[b] = row
        /\ \A c \in Calls \ {b} : call'[c] = call[c] /\ CallIsAbout(c)'
    BY BindingsStay
  <1>5. x \in [by : Writers, entity : Entities, seq : Nat]
    <2>1. Len(events[e]) \in Nat
      BY <1>3 DEF Types
    <2> QED BY <1>1, <2>1 DEF Writers
  <1>6. Types'
    BY <1>2, <1>3, <1>4, <1>5 DEF Types
  <1>7. WritersAreAtWork'
    <2>1. b \notin Requests /\ x.by = b /\ x.entity = e
      BY <1>1, BindingConstants
    <2>2. \A w \in writing : w.by # b
      BY <1>3, IdleWritesNothing
    <2> QED BY <1>2, <1>3, <1>4, <2>1, <2>2 DEF WritersAreAtWork
  <1>8. CommandInv'
    BY <1>3, RequestsStay, EffectsStay DEF CommandInv
  <1>9. CallIsAbout(b)'
    <2>1. PICK p : p = row.principal
      OBVIOUS
    <2>2. row.at = "INSERTED" => Actives(e)' = {} /\ ~Bound(p)'
      BY <2>1 DEF Actives, Bound
    <2>3. row.at = "INSERTED" => Actives(call[b].entity)' = {} /\ ~Bound(call[b].principal)'
      BY <1>4, <2>1, <2>2 DEF Actives, Bound
    <2> QED BY <1>4, <2>3 DEF CallIsAbout
  <1>10. OneInserter'
    BY <1>3, <1>4 DEF CallInv, OneInserter
  <1> QED BY <1>3, <1>4, <1>6, <1>7, <1>8, <1>9, <1>10, LogStays DEF BindingInv, CallInv

(* A call that commits, as long as what the other inserters found stays.   *)
LEMMA CallCommits ==
    ASSUME BindingInv, NEW b \in Calls, NEW e \in Entities, NEW event \in Events,
           event.kind # "DONE", events' = [events EXCEPT ![e] = Append(@, event)],
           writing' = {w \in writing : w.by # b},
           End(b), Unlock(b), UNCHANGED <<request, action>>,
           bindings' \in [Entities -> Seq(BindingRows)], LogTellsBindings',
           \A c \in Calls \ {b}, f \in Entities, p \in Principals :
               call[c].at = "INSERTED" /\ call[c].entity = f /\ call[c].principal = p
               => Actives(f)' = {} /\ ~Bound(p)'
    PROVE  BindingInv'
  <1>1. PICK row : row = Row("DONE", NoEntity)
    OBVIOUS
  <1>2. /\ call' = [call EXCEPT ![b] = row]
        /\ locked' = [f \in Entities |-> IF locked[f] = b THEN Nobody ELSE locked[f]]
    BY <1>1 DEF End, Unlock
  <1>3. row \in CallRows /\ row.at = "DONE"
    BY <1>1 DEF Row, CallRows
  <1>4. Types /\ LogTellsBindings /\ WritersAreAtWork /\ CommandInv /\ CallInv
    BY DEF BindingInv
  <1>5. /\ locked' \in [Entities -> Calls \cup {Nobody}]
        /\ \A f \in Entities : locked[f] \in Calls \ {b} => locked'[f] = locked[f]
    BY <1>2, <1>4 DEF Types
  <1>6. /\ call' \in [Calls -> CallRows]
        /\ call'[b] = row
        /\ \A c \in Calls \ {b} : call'[c] = call[c] /\ CallIsAbout(c)'
    BY <1>2, <1>3, <1>5, OtherCallsStay
  <1>7. events' \in [Entities -> Seq(Events)]
    BY <1>4, LogGrows
  <1>8. Types'
    BY <1>4, <1>5, <1>6, <1>7 DEF Types
  <1>9. WritersAreAtWork'
    BY <1>4, <1>6 DEF WritersAreAtWork
  <1>10. CommandInv'
    BY <1>4, RequestsStay, CallsHaveNoEffects DEF CommandInv
  <1>11. CallInv'
    <2>1. CallIsAbout(b)'
      BY <1>3, <1>6 DEF CallIsAbout
    <2>2. OneInserter'
      BY <1>3, <1>4, <1>6 DEF CallInv, OneInserter
    <2> QED BY <1>6, <2>1, <2>2 DEF CallInv
  <1> QED BY <1>8, <1>9, <1>10, <1>11 DEF BindingInv

LEMMA LoseAuthorityKeeps ==
    ASSUME BindingInv, NEW b \in Calls, LoseAuthority(b)
    PROVE  BindingInv'
  <1>1. PICK row : row = [call[b] EXCEPT !.authorised = FALSE]
    OBVIOUS
  <1>2. call[b] \in CallRows /\ call[b].at \in {"VERIFYING", "VERIFIED"}
    BY DEF BindingInv, Types, LoseAuthority
  <1>3. /\ row \in CallRows /\ row.at = call[b].at
        /\ row.entity = call[b].entity /\ row.principal = call[b].principal
    BY <1>1, <1>2 DEF CallRows
  <1>4. call' = [call EXCEPT ![b] = row] /\ UNCHANGED <<commandVars, locked, bindings>>
    BY <1>1 DEF LoseAuthority
  <1>5. CallIsAbout(b) /\ locked \in [Entities -> Calls \cup {Nobody}]
    BY DEF BindingInv, CallInv, Types
  <1> QED BY <1>2, <1>3, <1>4, <1>5, QuietCallKeeps DEF CallIsAbout

LEMMA BeginBindKeeps ==
    ASSUME BindingInv, NEW b \in Calls, NEW e \in Entities, BeginBind(b, e)
    PROVE  BindingInv'
  <1>1. PICK row : row = Row("VERIFYING", e)
    OBVIOUS
  <1>2. row \in CallRows /\ row.at = "VERIFYING" /\ row.entity = e
    BY <1>1 DEF Row, CallRows
  <1>3. /\ call[b].at = "IDLE"
        /\ call' = [call EXCEPT ![b] = row] /\ UNCHANGED <<commandVars, locked, bindings>>
    BY <1>1 DEF BeginBind
  <1>4. locked \in [Entities -> Calls \cup {Nobody}]
    BY DEF BindingInv, Types
  <1> QED BY <1>2, <1>3, <1>4, QuietCallKeeps

LEMMA VerifyKeeps ==
    ASSUME BindingInv, NEW b \in Calls, NEW p \in Principals, Verify(b, p)
    PROVE  BindingInv'
  <1>1. PICK row : row = [call[b] EXCEPT !.at = "VERIFIED", !.principal = p]
    OBVIOUS
  <1>2. call[b] \in CallRows /\ call[b].at = "VERIFYING"
    BY DEF BindingInv, Types, Verify
  <1>3. row \in CallRows /\ row.at = "VERIFIED" /\ row.entity = call[b].entity /\ row.principal = p
    BY <1>1, <1>2 DEF CallRows
  <1>4. call' = [call EXCEPT ![b] = row] /\ UNCHANGED <<commandVars, locked, bindings>>
    BY <1>1 DEF Verify
  <1>5. CallIsAbout(b) /\ locked \in [Entities -> Calls \cup {Nobody}]
    BY DEF BindingInv, CallInv, Types
  <1> QED BY <1>2, <1>3, <1>4, <1>5, QuietCallKeeps DEF CallIsAbout

LEMMA LockBindingKeeps ==
    ASSUME BindingInv, NEW b \in Calls, LockBinding(b)
    PROVE  BindingInv'
  <1>1. PICK row, e : row = [call[b] EXCEPT !.at = "BINDING"] /\ e = call[b].entity
    OBVIOUS
  <1>2. call[b] \in CallRows /\ call[b].at = "VERIFIED" /\ locked[e] = Nobody
    BY <1>1 DEF BindingInv, Types, LockBinding
  <1>3. e \in Entities /\ call[b].principal \in Principals
    BY <1>1, <1>2 DEF BindingInv, CallInv, CallIsAbout
  <1>4. /\ row \in CallRows /\ row.at = "BINDING" /\ row.entity = e
        /\ row.principal = call[b].principal
    BY <1>1, <1>2 DEF CallRows
  <1>5. CASE GiveUp(b)
    BY <1>5, GiveUpKeeps
  <1>6. CASE /\ call' = [call EXCEPT ![b] = row]
             /\ locked' = [locked EXCEPT ![e] = b]
             /\ UNCHANGED <<commandVars, bindings>>
    <2>1. /\ locked' \in [Entities -> Calls \cup {Nobody}]
          /\ locked'[e] = b
          /\ \A f \in Entities : locked[f] \in Calls \ {b} => locked'[f] = locked[f]
      BY <1>2, <1>3, <1>6, BindingConstants DEF BindingInv, Types
    <2> QED BY <1>2, <1>3, <1>4, <1>6, <2>1, QuietCallKeeps
  <1> QED BY <1>1, <1>5, <1>6 DEF LockBinding, Step

LEMMA InsertBindingKeeps ==
    ASSUME BindingInv, NEW b \in Calls, InsertBinding(b)
    PROVE  BindingInv'
  <1>1. PICK row, e, p : /\ row = [call[b] EXCEPT !.at = "INSERTED"]
                         /\ e = call[b].entity /\ p = call[b].principal
    OBVIOUS
  <1>2. call[b] \in CallRows /\ call[b].at = "BINDING" /\ ~Contended(p)
    BY <1>1 DEF BindingInv, Types, InsertBinding
  <1>3. e \in Entities /\ p \in Principals /\ locked[e] = b
    BY <1>1, <1>2 DEF BindingInv, CallInv, CallIsAbout
  <1>4. /\ row \in CallRows /\ row.at = "INSERTED" /\ row.entity = e /\ row.principal = p
    BY <1>1, <1>2 DEF CallRows
  <1>5. CASE GiveUp(b)
    BY <1>5, GiveUpKeeps
  <1>6. CASE /\ ~Bound(p) /\ Actives(e) = {}
             /\ AppendEvent(b, e)
             /\ call' = [call EXCEPT ![b] = row]
             /\ UNCHANGED <<request, action, events, locked, bindings>>
    <2>1. locked' \in [Entities -> Calls \cup {Nobody}]
      BY <1>6 DEF BindingInv, Types
    <2>2. \A c \in Calls : call[c].at = "INSERTED" => call[c].principal # p
      BY <1>2 DEF Contended
    <2> QED BY <1>2, <1>3, <1>4, <1>6, <2>1, <2>2, WriterBegins
  <1> QED BY <1>1, <1>5, <1>6 DEF InsertBinding, Insertable, Step

LEMMA CommitBindingKeeps ==
    ASSUME BindingInv, NEW b \in Calls, CommitBinding(b)
    PROVE  BindingInv'
  <1>1. PICK e, p, event : /\ e = call[b].entity /\ p = call[b].principal
                           /\ event = [kind |-> "BOUND", by |-> b]
    OBVIOUS
  <1>2. /\ call[b].at = "INSERTED"
        /\ bindings' = [bindings EXCEPT ![e] = Append(@, [principal |-> p, status |-> "ACTIVE"])]
        /\ PublishEvent(b, event)
        /\ End(b) /\ Unlock(b) /\ UNCHANGED <<request, action>>
    BY <1>1 DEF CommitBinding
  <1>3. /\ e \in Entities /\ p \in Principals /\ locked[e] = b
        /\ Actives(e) = {} /\ ~Bound(p)
    BY <1>1, <1>2 DEF BindingInv, CallInv, CallIsAbout
  <1>4. event \in Events /\ event.kind = "BOUND"
    BY <1>1 DEF Events, EventRows
  <1>5. /\ events' = [events EXCEPT ![e] = Append(@, event)]
        /\ writing' = {w \in writing : w.by # b}
    BY <1>1, <1>2, Published DEF Writers
  <1>6. Types /\ LogTellsBindings
    BY DEF BindingInv
  <1>7. /\ bindings' \in [Entities -> Seq(BindingRows)]
        /\ \A f \in Entities \ {e} : bindings'[f] = bindings[f]
        /\ LogTellsBindings'
    BY <1>2, <1>3, <1>4, <1>5, <1>6, BoundIsTold
  <1>8. ASSUME NEW c \in Calls \ {b}, NEW f \in Entities, NEW q \in Principals,
               call[c].at = "INSERTED", call[c].entity = f, call[c].principal = q
        PROVE  Actives(f)' = {} /\ ~Bound(q)'
    <2>1. locked[f] = c /\ Actives(f) = {} /\ ~Bound(q)
      BY <1>8 DEF BindingInv, CallInv, CallIsAbout
    <2>2. f # e
      BY <1>3, <2>1
    <2>3. q # p
      BY <1>1, <1>2, <1>8 DEF BindingInv, CallInv, OneInserter
    <2>4. Actives(f)' = {}
      BY <1>7, <2>1, <2>2 DEF Actives
    <2>5. ASSUME NEW v \in Actives(e)' PROVE bindings'[e][v].principal = p
      <3>1. PICK k : k = Len(bindings[e])
        OBVIOUS
      <3>2. k \in Nat /\ DOMAIN bindings[e] = 1 .. k /\ bindings[e] \in Seq(BindingRows)
        BY <1>3, <1>6, <3>1, VersionsOf
      <3>3. bindings'[e] = Append(bindings[e], [principal |-> p, status |-> "ACTIVE"])
        BY <1>2, <1>3, <1>6 DEF Types
      <3>4. /\ DOMAIN bindings'[e] = 1 .. k + 1
            /\ bindings'[e][k + 1] = [principal |-> p, status |-> "ACTIVE"]
            /\ \A u \in 1 .. k : bindings'[e][u] = bindings[e][u]
        BY <3>1, <3>2, <3>3
      <3>5. v \in 1 .. k + 1 /\ bindings'[e][v].status = "ACTIVE"
        BY <3>4 DEF Actives
      <3>6. v \notin 1 .. k
        BY <1>3, <3>2, <3>4, <3>5 DEF Actives
      <3>7. v = k + 1
        BY <3>2, <3>5, <3>6
      <3> QED BY <3>4, <3>7
    <2>6. \A g \in Entities \ {e} : \A v \in Actives(g)' : bindings'[g][v].principal # q
      BY <1>7, <2>1 DEF Actives, Bound
    <2>7. ~Bound(q)'
      BY <2>3, <2>5, <2>6 DEF Bound
    <2> QED BY <2>4, <2>7
  <1>9. End(b) /\ Unlock(b) /\ UNCHANGED <<request, action>>
    BY <1>2
  <1>10. /\ bindings' \in [Entities -> Seq(BindingRows)]
         /\ LogTellsBindings'
    BY <1>7
  <1> QED BY <1>3, <1>4, <1>5, <1>8, <1>9, <1>10, CallCommits

LEMMA BeginRevokeKeeps ==
    ASSUME BindingInv, NEW b \in Calls, NEW e \in Entities, BeginRevoke(b, e)
    PROVE  BindingInv'
  <1>1. PICK row : row = Row("REVOKING", e)
    OBVIOUS
  <1>2. row \in CallRows /\ row.at = "REVOKING" /\ row.entity = e
    BY <1>1 DEF Row, CallRows
  <1>3. /\ call[b].at = "IDLE" /\ locked[e] = Nobody
        /\ call' = [call EXCEPT ![b] = row]
        /\ AppendEvent(b, e)
        /\ locked' = [locked EXCEPT ![e] = b]
        /\ UNCHANGED <<request, action, events, bindings>>
    BY <1>1 DEF BeginRevoke
  <1>4. /\ locked' \in [Entities -> Calls \cup {Nobody}]
        /\ locked'[e] = b
        /\ \A f \in Entities : locked[f] \in Calls \ {b} => locked'[f] = locked[f]
    BY <1>3, BindingConstants DEF BindingInv, Types
  <1> QED BY <1>2, <1>3, <1>4, WriterBegins

LEMMA CommitRevokeKeeps ==
    ASSUME BindingInv, NEW b \in Calls, CommitRevoke(b)
    PROVE  BindingInv'
  <1>1. PICK e, event : e = call[b].entity /\ event = [kind |-> "REVOKED", by |-> b]
    OBVIOUS
  <1>2. /\ call[b].at = "REVOKING"
        /\ \E v \in Actives(e) : bindings' = [bindings EXCEPT ![e][v].status = "REVOKED"]
        /\ PublishEvent(b, event)
        /\ End(b) /\ Unlock(b) /\ UNCHANGED <<request, action>>
    BY <1>1 DEF CommitRevoke
  <1>3. e \in Entities /\ locked[e] = b
    BY <1>1, <1>2 DEF BindingInv, CallInv, CallIsAbout
  <1>4. event \in Events /\ event.kind = "REVOKED"
    BY <1>1 DEF Events, EventRows
  <1>5. /\ events' = [events EXCEPT ![e] = Append(@, event)]
        /\ writing' = {w \in writing : w.by # b}
    BY <1>1, <1>2, Published DEF Writers
  <1>6. /\ bindings' \in [Entities -> Seq(BindingRows)]
        /\ \A f \in Entities \ {e} : bindings'[f] = bindings[f]
        /\ Actives(e)' = {}
        /\ LogTellsBindings'
    <2>1. Types /\ LogTellsBindings
      BY DEF BindingInv
    <2> QED BY <1>2, <1>3, <1>4, <1>5, <2>1, RevokedIsTold
  <1>7. ASSUME NEW c \in Calls \ {b}, NEW f \in Entities, NEW q \in Principals,
               call[c].at = "INSERTED", call[c].entity = f, call[c].principal = q
        PROVE  Actives(f)' = {} /\ ~Bound(q)'
    <2>1. locked[f] = c /\ Actives(f) = {} /\ ~Bound(q)
      BY <1>7 DEF BindingInv, CallInv, CallIsAbout
    <2>2. f # e
      BY <1>3, <2>1
    <2>3. Actives(f)' = {}
      BY <1>6, <2>1, <2>2 DEF Actives
    <2>4. ~Bound(q)'
      BY <1>6, <2>1 DEF Actives, Bound
    <2> QED BY <2>3, <2>4
  <1> QED BY <1>2, <1>3, <1>4, <1>5, <1>6, <1>7, CallCommits

LEMMA BindingStep ==
    ASSUME BindingInv, [Next]_vars
    PROVE  BindingInv'
  <1>1. CASE UNCHANGED vars
    <2>1. UNCHANGED <<request, action, events, writing, call, locked, bindings>>
      BY <1>1 DEF vars, commandVars, bindingVars
    <2>2. Types' /\ WritersAreAtWork'
      BY <2>1 DEF BindingInv, Types, WritersAreAtWork
    <2> QED BY <2>1, <2>2, RequestsStay, EffectsStay, LogStays, CallsStay
            DEF BindingInv, CommandInv, bindingVars
  <1>2. CASE CommandsNext /\ UNCHANGED bindingVars
    BY <1>2, CommandStep
  <1>3. CASE BindingNext
    <2>1. PICK b \in Calls :
             \/ \E e \in Entities : BeginBind(b, e) \/ BeginRevoke(b, e)
             \/ \E p \in Principals : Verify(b, p)
             \/ RejectProof(b) \/ Proceed(b) \/ AbortCall(b) \/ LoseAuthority(b)
      BY <1>3 DEF BindingNext
    <2>2. RejectProof(b) \/ AbortCall(b) => GiveUp(b)
      BY DEF RejectProof, AbortCall
    <2> QED BY <2>1, <2>2, GiveUpKeeps, LoseAuthorityKeeps, BeginBindKeeps, VerifyKeeps,
               LockBindingKeeps, InsertBindingKeeps, CommitBindingKeeps, BeginRevokeKeeps,
               CommitRevokeKeeps DEF Proceed
  <1> QED BY <1>1, <1>2, <1>3 DEF Next

LEMMA BindingIsInvariant == Spec => []BindingInv
  <1>1. Init => BindingInv
    BY InitialBinding
  <1>2. BindingInv /\ [Next]_vars => BindingInv'
    BY BindingStep
  <1> QED BY <1>1, <1>2, PTL DEF Spec

-----------------------------------------------------------------------------
(* The theorems.                                                           *)

(* All variables keep their types.                                         *)
THEOREM BindingTypes == Spec => []TypeOK
  <1>1. BindingInv => TypeOK
    <2> SUFFICES ASSUME BindingInv PROVE TypeOK
      OBVIOUS
    <2>1. \A e \in Entities : events[e] \in Seq(Events) /\ bindings[e] \in Seq(BindingRows)
      BY DEF BindingInv, Types
    <2>2. \A e \in Entities : \A i \in DOMAIN events[e] : events[e][i] \in Events
      BY <2>1
    <2>3. \A e \in Entities : \A v \in DOMAIN bindings[e] : bindings[e][v] \in BindingRows
      BY <2>1
    <2> QED BY <2>2, <2>3 DEF BindingInv, Types, TypeOK, Events
  <1> QED BY <1>1, BindingIsInvariant, PTL

(* A command takes effect once or not at all, however often it is sent,    *)
(* and every answer is the one on record (runCommand).                     *)
THEOREM CommandsTakeEffectOnce == Spec => []CommandsRunOnce
  <1>1. BindingInv => CommandsRunOnce
    BY DEF BindingInv, CommandInv, EffectsAreOnce, AnswersAreOnRecord, Answered, CommandsRunOnce
  <1> QED BY <1>1, BindingIsInvariant, PTL

(* The log of an entity tells its bindings, and no principal stands for    *)
(* two entities (bindKnowledgeBallPrincipal and its second look).          *)
THEOREM LogTells == Spec => []LogTellsBindings
  <1>1. BindingInv => LogTellsBindings
    BY DEF BindingInv
  <1> QED BY <1>1, BindingIsInvariant, PTL

-----------------------------------------------------------------------------
(* The refinement.                                                         *)

Promised == [Abstract!PromiseNext]_(Abstract!promise)
Versions == [e \in Entities |-> PrincipalsOf(e)]
Open == {e \in Entities : Actives(e) # {}}

LEMMA Unseen ==
    ASSUME UNCHANGED <<action, events, bindings>>
    PROVE  Promised
  <1>1. UNCHANGED Abstract!promise
    BY DEF Abstract!promise, PrincipalsOf, Actives
  <1> QED BY <1>1 DEF Promised

(* The newest version is the one an entity stands for.                     *)
LEMMA NewestIsOpen ==
    ASSUME BindingInv, NEW e \in Entities
    PROVE  /\ Versions[e] = PrincipalsOf(e) /\ Len(Versions[e]) = Len(bindings[e])
           /\ Versions[e] \in Seq(Principals)
           /\ e \in Open => /\ Len(bindings[e]) \in Actives(e)
                            /\ Versions[e][Len(Versions[e])] = bindings[e][Len(bindings[e])].principal
  <1>1. /\ bindings[e] \in Seq(BindingRows) /\ Len(bindings[e]) \in Nat
        /\ DOMAIN bindings[e] = 1 .. Len(bindings[e]) /\ EntityTold(e)
    BY VersionsOf, LogInParts DEF BindingInv
  <1>2. \A v \in 1 .. Len(bindings[e]) : bindings[e][v].principal \in Principals
    <2>1. \A v \in 1 .. Len(bindings[e]) : bindings[e][v] \in BindingRows
      BY <1>1
    <2> QED BY <2>1 DEF BindingRows
  <1>3. /\ Versions[e] = PrincipalsOf(e) /\ Versions[e] \in Seq(Principals)
        /\ Len(Versions[e]) = Len(bindings[e])
    BY <1>1, <1>2 DEF Versions, PrincipalsOf
  <1>4. e \in Open => Len(bindings[e]) \in Actives(e)
    BY <1>1, VersionsOf DEF Open, BindingInv
  <1>5. \A v \in Actives(e) : Versions[e][v] = bindings[e][v].principal
    BY <1>3 DEF PrincipalsOf, Actives
  <1> QED BY <1>3, <1>4, <1>5

(* One more version is one more principal.                                 *)
LEMMA AppendedPrincipal ==
    ASSUME NEW S \in Seq(BindingRows), NEW row \in BindingRows
    PROVE  [v \in DOMAIN Append(S, row) |-> Append(S, row)[v].principal] =
              Append([v \in DOMAIN S |-> S[v].principal], row.principal)
  <1> DEFINE f == [v \in DOMAIN Append(S, row) |-> Append(S, row)[v].principal]
             g == [v \in DOMAIN S |-> S[v].principal]
             n == Len(S)
  <1>1. /\ n \in Nat /\ DOMAIN S = 1 .. n
        /\ DOMAIN Append(S, row) = 1 .. n + 1
        /\ Append(S, row)[n + 1] = row /\ \A v \in 1 .. n : Append(S, row)[v] = S[v]
    OBVIOUS
  <1>2. g \in Seq(Principals) /\ Len(g) = n
    <2>1. \A v \in 1 .. n : S[v] \in BindingRows
      BY <1>1
    <2>2. \A v \in 1 .. n : S[v].principal \in Principals
      BY <2>1 DEF BindingRows
    <2> QED BY <1>1, <2>2
  <1>3. row.principal \in Principals
    BY DEF BindingRows
  <1>4. /\ Append(g, row.principal) \in Seq(Principals)
        /\ DOMAIN Append(g, row.principal) = 1 .. n + 1
        /\ Len(Append(g, row.principal)) = n + 1
        /\ Append(g, row.principal)[n + 1] = row.principal
        /\ \A v \in 1 .. n : Append(g, row.principal)[v] = g[v]
    <2> HIDE DEF g, n
    <2> QED BY <1>1, <1>2, <1>3
  <1>5. \A v \in 1 .. n + 1 : f[v] = Append(g, row.principal)[v]
    <2>1. \A v \in 1 .. n + 1 : v \in 1 .. n \/ v = n + 1
      BY <1>1
    <2> QED BY <1>1, <1>4, <2>1
  <1>6. f = [v \in 1 .. n + 1 |-> f[v]]
    BY <1>1
  <1>7. Append(g, row.principal) = [v \in 1 .. n + 1 |-> Append(g, row.principal)[v]]
    <2>1. ASSUME NEW s \in Seq(Principals)
          PROVE  s = [v \in 1 .. Len(s) |-> s[v]]
      BY LenProperties
    <2> HIDE DEF g, n
    <2> QED BY <1>4, <2>1
  <1> HIDE DEF f, g, n
  <1>8. f = Append(g, row.principal)
    BY <1>5, <1>6, <1>7
  <1> QED BY <1>8 DEF f, g

LEMMA DecisionPromised ==
    ASSUME BindingInv, NEW r \in Requests, CommitCommand(r) \/ FailCommand(r), UNCHANGED bindings
    PROVE  Promised
  <1>1. PICK k, e : k = request[r].key /\ e = request[r].target
    OBVIOUS
  <1>2. k \in Keys /\ e \in Entities /\ Runs(r)
    BY <1>1, RowOfRequest DEF BindingInv, CommitCommand, FailCommand, Runs
  <1>3. action[k].status = "NONE"
    BY <1>1, <1>2 DEF BindingInv, CommandInv, KeysAreReserved
  <1>4. Versions' = Versions /\ Open' = Open
    BY DEF Versions, Open, PrincipalsOf, Actives
  <1>5. CASE CommitCommand(r)
    <2>1. /\ action' = [action EXCEPT ![k] = [status |-> "SUCCEEDED", target |-> e]]
          /\ PublishEvent(r, [kind |-> "DONE", by |-> k])
      BY <1>1, <1>5 DEF CommitCommand, Record
    <2>2. events' = [events EXCEPT ![e] = Append(@, [kind |-> "DONE", by |-> k])]
      BY <1>1, <2>1, Published DEF Writers
    <2>3. Abstract!Succeed(k, e)
      BY <1>3, <1>4, <2>1, <2>2
      DEF Abstract!Succeed, Abstract!Decide, Abstract!Tell, Versions, Open
    <2> QED BY <1>2, <2>3 DEF Promised, Abstract!PromiseNext
  <1>6. CASE FailCommand(r)
    <2>1. /\ action' = [action EXCEPT ![k] = [status |-> "FAILED", target |-> e]]
          /\ UNCHANGED events
      BY <1>1, <1>6 DEF FailCommand, Record
    <2>2. Abstract!Fail(k, e)
      BY <1>3, <1>4, <2>1 DEF Abstract!Fail, Abstract!Decide, Versions, Open
    <2> QED BY <1>2, <2>2 DEF Promised, Abstract!PromiseNext
  <1> QED BY <1>5, <1>6

LEMMA BindPromised ==
    ASSUME BindingInv, BindingInv', NEW b \in Calls, CommitBinding(b)
    PROVE  Promised
  <1>1. PICK e, p, event, row :
           /\ e = call[b].entity /\ p = call[b].principal
           /\ event = [kind |-> "BOUND", by |-> b]
           /\ row = [principal |-> p, status |-> "ACTIVE"]
    OBVIOUS
  <1>2. /\ call[b].at = "INSERTED"
        /\ bindings' = [bindings EXCEPT ![e] = Append(@, row)]
        /\ PublishEvent(b, event)
        /\ UNCHANGED action
    BY <1>1 DEF CommitBinding
  <1>3. /\ e \in Entities /\ p \in Principals
        /\ Actives(e) = {} /\ ~Bound(p)
    BY <1>1, <1>2 DEF BindingInv, CallInv, CallIsAbout
  <1>4. events' = [events EXCEPT ![e] = Append(@, event)]
    BY <1>1, <1>2, Published DEF Writers
  <1>5. /\ row \in BindingRows /\ row.principal = p
        /\ bindings[e] \in Seq(BindingRows) /\ Len(bindings[e]) \in Nat
    BY <1>1, <1>3, VersionsOf DEF BindingRows, BindingInv
  <1>6. /\ bindings'[e] = Append(bindings[e], row)
        /\ \A f \in Entities \ {e} : bindings'[f] = bindings[f]
    BY <1>2, <1>3 DEF BindingInv, Types
  <1>7. Versions' = [Versions EXCEPT ![e] = Append(@, p)]
    <2>1. PrincipalsOf(e)' = Append(PrincipalsOf(e), p)
      BY <1>5, <1>6, AppendedPrincipal DEF PrincipalsOf
    <2>2. \A f \in Entities \ {e} : PrincipalsOf(f)' = PrincipalsOf(f)
      BY <1>6 DEF PrincipalsOf
    <2> QED BY <1>3, <2>1, <2>2 DEF Versions
  <1>8. Open' = Open \cup {e}
    <2>1. Actives(e)' # {}
      <3>1. Len(bindings[e]) + 1 \in DOMAIN bindings'[e] /\ bindings'[e][Len(bindings[e]) + 1] = row
        BY <1>5, <1>6
      <3> QED BY <1>1, <3>1 DEF Actives
    <2>2. \A f \in Entities \ {e} : Actives(f)' = Actives(f)
      BY <1>6 DEF Actives
    <2> QED BY <1>3, <2>1, <2>2 DEF Open
  <1>9. \A f \in Entities : ~(f \in Open /\ Versions[f][Len(Versions[f])] = p)
    BY <1>3, NewestIsOpen DEF Bound
  <1>10. Abstract!Bind(e, p, b)
    BY <1>1, <1>2, <1>3, <1>4, <1>7, <1>8, <1>9
    DEF Abstract!Bind, Abstract!StandsFor, Abstract!Tell, Versions, Open
  <1> QED BY <1>3, <1>10 DEF Promised, Abstract!PromiseNext

LEMMA RevokePromised ==
    ASSUME BindingInv, NEW b \in Calls, CommitRevoke(b)
    PROVE  Promised
  <1>1. PICK e, event : e = call[b].entity /\ event = [kind |-> "REVOKED", by |-> b]
    OBVIOUS
  <1>2. /\ call[b].at = "REVOKING" /\ PublishEvent(b, event) /\ UNCHANGED action
        /\ \E v \in Actives(e) : bindings' = [bindings EXCEPT ![e][v].status = "REVOKED"]
    BY <1>1 DEF CommitRevoke
  <1>3. e \in Entities
    BY <1>1, <1>2 DEF BindingInv, CallInv, CallIsAbout
  <1>4. events' = [events EXCEPT ![e] = Append(@, event)]
    BY <1>1, <1>2, Published DEF Writers
  <1>5. PICK v \in Actives(e) : bindings' = [bindings EXCEPT ![e][v].status = "REVOKED"]
    BY <1>2
  <1>6. /\ \A f \in Entities \ {e} : bindings'[f] = bindings[f]
        /\ Actives(e)' = {}
    <2>1. event \in Events /\ event.kind = "REVOKED"
      BY <1>1 DEF Events, EventRows
    <2> QED BY <1>3, <1>4, <1>5, <2>1, RevokedIsTold DEF BindingInv
  <1>7. Versions' = Versions
    <2>1. bindings[e] \in Seq(BindingRows) /\ v \in DOMAIN bindings[e]
      BY <1>3, VersionsOf DEF BindingInv, Actives
    <2>2. bindings'[e] = [bindings[e] EXCEPT ![v] = [@ EXCEPT !.status = "REVOKED"]]
      BY <1>3, <1>5 DEF BindingInv, Types
    <2>3. bindings[e][v] \in BindingRows
      BY <2>1
    <2>4. DOMAIN bindings'[e] = DOMAIN bindings[e]
          /\ \A u \in DOMAIN bindings[e] : bindings'[e][u].principal = bindings[e][u].principal
      BY <2>1, <2>2, <2>3 DEF BindingRows
    <2>5. \A f \in Entities : PrincipalsOf(f)' = PrincipalsOf(f)
      BY <1>6, <2>4 DEF PrincipalsOf
    <2> QED BY <2>5 DEF Versions
  <1>8. e \in Open /\ Open' = Open \ {e}
    <2>1. \A f \in Entities \ {e} : Actives(f)' = Actives(f)
      BY <1>6 DEF Actives
    <2> QED BY <1>3, <1>5, <1>6, <2>1 DEF Open
  <1>9. Abstract!Revoke(e, b)
    BY <1>1, <1>2, <1>4, <1>7, <1>8 DEF Abstract!Revoke, Abstract!Tell, Versions, Open
  <1> QED BY <1>3, <1>9 DEF Promised, Abstract!PromiseNext

LEMMA EveryStepIsPromised ==
    ASSUME BindingInv, BindingInv', [Next]_vars
    PROVE  Promised
  <1>1. CASE UNCHANGED vars
    BY <1>1, Unseen DEF vars, commandVars, bindingVars
  <1>2. ASSUME NEW r \in Requests, Serve(r) \/ FailCommand(r) \/ AbortCommand(r),
               UNCHANGED bindingVars
        PROVE  Promised
    <2>1. CASE CommitCommand(r) \/ FailCommand(r)
      BY <1>2, <2>1, DecisionPromised DEF bindingVars
    <2>2. CASE InsertAction(r) \/ ReplayAction(r) \/ Execute(r) \/ AbortCommand(r)
      BY <1>2, <2>2, Unseen DEF InsertAction, ReplayAction, Execute, AbortCommand, bindingVars
    <2> QED BY <1>2, <2>1, <2>2 DEF Serve
  <1>3. ASSUME NEW b \in Calls, CommitBinding(b) \/ CommitRevoke(b)
        PROVE  Promised
    BY <1>3, BindPromised, RevokePromised
  <1>4. ASSUME NEW b \in Calls,
               \/ \E e \in Entities : BeginBind(b, e) \/ BeginRevoke(b, e)
               \/ \E p \in Principals : Verify(b, p)
               \/ RejectProof(b) \/ LockBinding(b) \/ InsertBinding(b)
               \/ AbortCall(b) \/ LoseAuthority(b)
        PROVE  Promised
    <2>1. UNCHANGED <<action, events, bindings>>
      BY <1>4 DEF BeginBind, BeginRevoke, Verify, RejectProof, LockBinding, InsertBinding,
         AbortCall, LoseAuthority, GiveUp, commandVars
    <2> QED BY <2>1, Unseen
  <1> QED BY <1>1, <1>2, <1>3, <1>4 DEF Next, CommandsNext, BindingNext, Proceed

(* However commands, binds and revocations interleave, fail or lose their  *)
(* connection, what they commit is one change at a time of keys, bindings  *)
(* and log together (runCommand, appendEvent, bindKnowledgeBallPrincipal,  *)
(* revokeKnowledgeBallPrincipalBinding).                                   *)
THEOREM ChangesAreAtomic == Spec => OneChangeAtATime
  <1>1. Init => Abstract!PromiseInit
    <2> SUFFICES ASSUME Init PROVE Abstract!PromiseInit
      OBVIOUS
    <2>1. \A e \in Entities : bindings[e] = <<>>
      BY DEF Init
    <2>2. \A e \in Entities : PrincipalsOf(e) = <<>> /\ Actives(e) = {}
      BY <2>1 DEF PrincipalsOf, Actives
    <2> QED BY <2>2 DEF Abstract!PromiseInit, Init, CommandsInit
  <1>2. BindingInv /\ BindingInv' /\ [Next]_vars => [Abstract!PromiseNext]_(Abstract!promise)
    BY EveryStepIsPromised DEF Promised
  <1> QED
    BY <1>1, <1>2, BindingIsInvariant, PTL DEF Spec, OneChangeAtATime, Abstract!Promise
=============================================================================
