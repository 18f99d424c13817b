----------------------- MODULE SchedulePreview_proofs -----------------------
(***************************************************************************)
(* For every number of requests and previews and every cache size: the     *)
(* properties of the commands and of the previews beside them.             *)
(*                                                                         *)
(* A coordination object is counted: its users are the previews that name  *)
(* it, all of one key, and its holder is the one of them that calculates.  *)
(* So the object that a calculating preview holds is never removed from    *)
(* the dict, and a second preview of its key finds it there.               *)
(***************************************************************************)
EXTENDS SchedulePreview, PV1Commands_proofs, SequenceTheorems

Early == {"free", "project", "cache"}
Using == {"waiting", "tasks", "edges"}

PreviewShape == [stage : PreviewStages, graph : Nat, loaded : Views \cup {None},
                 read : Reads, object : 0..MaxPreviews]
EntryShape == [key : Views, value : Results]

PreviewsShape ==
    /\ preview \in [Previews -> PreviewShape]
    /\ coordination \subseteq [key : Views, object : Previews]
    /\ lock = [o \in Previews |-> lock[o]]
    /\ \A o \in Previews :
        /\ lock[o] = [holder |-> lock[o].holder, line |-> lock[o].line, users |-> lock[o].users]
        /\ lock[o].holder \in 0..MaxPreviews

Users(o) == {p \in Previews : preview[p].object = o}

\* What one preview knows: a key once it has loaded the project, an object while
\* it waits or calculates, the lock while it calculates.
KnowsItsObject(p) ==
    /\ preview[p].stage \in Using \cup {"cache"} => preview[p].loaded \in Views
    /\ preview[p].object # 0 <=> preview[p].stage \in Using
    /\ preview[p].object # 0 =>
          [key |-> preview[p].loaded, object |-> preview[p].object] \in coordination
    /\ Calculating(p) => lock[preview[p].object].holder = p
    /\ preview[p].stage \in Early => Users(p) = {}

UsersOK ==
    /\ \A p \in Previews : KnowsItsObject(p)
    /\ \A p, q \in Previews : preview[p].object # 0 /\ preview[p].object = preview[q].object
                              => preview[p].loaded = preview[q].loaded
ObjectsOK ==
    /\ \A d, e \in coordination : d.key = e.key => d = e
    /\ \A o \in Previews :
        /\ lock[o].users = Cardinality(Users(o))
        /\ lock[o].holder # 0 => /\ Calculating(lock[o].holder)
                                 /\ preview[lock[o].holder].object = o

PreviewsInv == PreviewsShape /\ UsersOK /\ ObjectsOK /\ CoordinationFreed
CacheInv == cache \in Seq(EntryShape) /\ PreviewCacheBounded
Inv == CommandsInv /\ PreviewsInv /\ CacheInv

-----------------------------------------------------------------------------
(* Counting. *)

LEMMA PreviewsFinite == IsFiniteSet(Previews) /\ Cardinality(Previews) = MaxPreviews
  BY PV1Assumption, FS_Interval DEF Previews, PV1Assumption

LEMMA UsersFinite ==
    ASSUME NEW o
    PROVE  /\ IsFiniteSet(Users(o)) /\ Cardinality(Users(o)) \in 0..MaxPreviews
           /\ Cardinality(Users(o)) = 0 <=> Users(o) = {}
  <1>1. Users(o) \in SUBSET Previews
    BY DEF Users
  <1>2. IsFiniteSet(Users(o)) /\ Cardinality(Users(o)) <= MaxPreviews
    BY <1>1, PreviewsFinite, FS_Subset
  <1>3. Cardinality(Users(o)) \in Nat /\ (Cardinality(Users(o)) = 0 <=> Users(o) = {})
    BY <1>2, FS_CardinalityType, FS_EmptySet
  <1>. QED
    BY <1>2, <1>3, PV1Assumption DEF PV1Assumption

\* One preview changes hands.
LEMMA UsersSame ==
    ASSUME preview \in [Previews -> PreviewShape], NEW p \in Previews, NEW q,
           preview' = [preview EXCEPT ![p] = q], q.object = preview[p].object
    PROVE  \A o : Users(o)' = Users(o)
  <1>1. preview'[p] = q /\ \A r \in Previews : r # p => preview'[r] = preview[r]
    OBVIOUS
  <1>. QED
    BY <1>1 DEF Users

LEMMA UsersJoin ==
    ASSUME preview \in [Previews -> PreviewShape], NEW p \in Previews, NEW q,
           preview' = [preview EXCEPT ![p] = q], NEW o \in Previews,
           q.object = o, preview[p].object = 0
    PROVE  /\ \A u \in Previews : u # o => Users(u)' = Users(u)
           /\ Users(o)' = Users(o) \cup {p}
           /\ Cardinality(Users(o)') = Cardinality(Users(o)) + 1
  <1>1. preview'[p] = q /\ \A r \in Previews : r # p => preview'[r] = preview[r]
    OBVIOUS
  <1>2. 0 \notin Previews
    BY DEF Previews
  <1>3. \A u \in Previews : u # o => Users(u)' = Users(u)
    BY <1>1, <1>2 DEF Users
  <1>4. Users(o)' = Users(o) \cup {p} /\ p \notin Users(o)
    BY <1>1, <1>2 DEF Users
  <1>. QED
    BY <1>3, <1>4, UsersFinite, FS_AddElement

LEMMA UsersLeave ==
    ASSUME preview \in [Previews -> PreviewShape], NEW p \in Previews, NEW q,
           preview' = [preview EXCEPT ![p] = q], NEW o \in Previews,
           q.object = 0, preview[p].object = o
    PROVE  /\ \A u \in Previews : u # o => Users(u)' = Users(u)
           /\ Users(o)' = Users(o) \ {p}
           /\ Cardinality(Users(o)') = Cardinality(Users(o)) - 1
  <1>1. preview'[p] = q /\ \A r \in Previews : r # p => preview'[r] = preview[r]
    OBVIOUS
  <1>2. 0 \notin Previews
    BY DEF Previews
  <1>3. \A u \in Previews : u # o => Users(u)' = Users(u)
    BY <1>1, <1>2 DEF Users
  <1>4. Users(o)' = Users(o) \ {p} /\ p \in Users(o)
    BY <1>1, <1>2 DEF Users
  <1>. QED
    BY <1>3, <1>4, UsersFinite, FS_RemoveElement

-----------------------------------------------------------------------------
(* The four ways in which a preview moves. *)

LockRecord(l) == /\ l = [holder |-> l.holder, line |-> l.line, users |-> l.users]
                 /\ l.holder \in 0..MaxPreviews

LEMMA LockChanges ==
    ASSUME PreviewsShape, NEW o \in Previews, NEW l, LockRecord(l), lock' = [lock EXCEPT ![o] = l]
    PROVE  /\ lock'[o] = l /\ \A u \in Previews : u # o => lock'[u] = lock[u]
           /\ lock' = [u \in Previews |-> lock'[u]]
           /\ \A u \in Previews :
                /\ lock'[u] = [holder |-> lock'[u].holder, line |-> lock'[u].line,
                               users |-> lock'[u].users]
                /\ lock'[u].holder \in 0..MaxPreviews
  <1>1. lock'[o] = l /\ \A u \in Previews : u # o => lock'[u] = lock[u]
    BY DEF PreviewsShape
  <1>2. lock' = [u \in Previews |-> lock'[u]]
    BY DEF PreviewsShape
  <1>3. ASSUME NEW u \in Previews
        PROVE  /\ lock'[u] = [holder |-> lock'[u].holder, line |-> lock'[u].line,
                              users |-> lock'[u].users]
               /\ lock'[u].holder \in 0..MaxPreviews
    <2>1. CASE u = o
      BY <1>1, <2>1 DEF LockRecord
    <2>2. CASE u # o
      BY <1>1, <2>2 DEF PreviewsShape
    <2>. QED
      BY <2>1, <2>2
  <1>. QED
    BY <1>1, <1>2, <1>3

\* It goes on without the lock being concerned.
LEMMA GoesOn ==
    ASSUME PreviewsInv, NEW p \in Previews, NEW q \in PreviewShape,
           preview' = [preview EXCEPT ![p] = q], UNCHANGED <<coordination, lock>>,
           q.object = preview[p].object, q.object # 0 => q.loaded = preview[p].loaded,
           q.object # 0 <=> q.stage \in Using,
           q.stage \in Using \cup {"cache"} => q.loaded \in Views,
           q.stage \in {"tasks", "edges"} <=> Calculating(p),
           q.stage \in Early => preview[p].stage \in Early
    PROVE  PreviewsInv'
  <1>. USE DEF PreviewsInv
  <1>1. /\ preview'[p] = q /\ \A r \in Previews : r # p => preview'[r] = preview[r]
        /\ preview' \in [Previews -> PreviewShape]
    BY DEF PreviewsShape
  <1>2. \A o : Users(o)' = Users(o)
    BY UsersSame DEF PreviewsShape
  <1>3. PreviewsShape'
    BY <1>1 DEF PreviewsShape
  <1>4. ASSUME NEW r \in Previews PROVE KnowsItsObject(r)'
    <2>1. CASE r = p
      BY <1>1, <1>2, <2>1 DEF UsersOK, KnowsItsObject, Calculating
    <2>2. CASE r # p
      BY <1>1, <1>2, <2>2 DEF UsersOK, KnowsItsObject, Calculating
    <2>. QED
      BY <2>1, <2>2
  <1>5. UsersOK'
    BY <1>1, <1>4 DEF UsersOK
  <1>6. ObjectsOK'
    BY <1>1, <1>2 DEF ObjectsOK, Calculating
  <1>7. CoordinationFreed'
    <2>. SUFFICES ASSUME NEW e \in coordination
                  PROVE  \E r \in Previews : preview'[r].object = e.object /\ preview'[r].loaded = e.key
      BY DEF CoordinationFreed
    <2>1. PICK r \in Previews : preview[r].object = e.object /\ preview[r].loaded = e.key
      BY DEF CoordinationFreed
    <2>2. e.object # 0
      BY DEF PreviewsShape, Previews
    <2>3. preview'[r].object = e.object /\ preview'[r].loaded = e.key
      BY <1>1, <2>1, <2>2
    <2>. QED
      BY <2>3
  <1>. QED
    BY <1>3, <1>5, <1>6, <1>7

\* It finds the object of its key, or makes one, and may take the lock at once.
LEMMA Joins ==
    ASSUME PreviewsInv, NEW p \in Previews, preview[p].stage = "cache",
           NEW o \in Previews, NEW key \in Views, key = preview[p].loaded,
           \/ [key |-> key, object |-> o] \in coordination
           \/ o = p /\ \A e \in coordination : e.key # key,
           NEW free \in BOOLEAN, free => lock[o].holder = 0,
           NEW q \in PreviewShape, preview' = [preview EXCEPT ![p] = q],
           q.object = o, q.loaded = key, q.stage = IF free THEN "tasks" ELSE "waiting",
           NEW l, LockRecord(l), lock' = [lock EXCEPT ![o] = l],
           l.users = lock[o].users + 1, l.holder = IF free THEN p ELSE lock[o].holder,
           coordination' = coordination \cup {[key |-> key, object |-> o]}
    PROVE  PreviewsInv'
  <1>. USE DEF PreviewsInv
  <1>. DEFINE entry == [key |-> key, object |-> o]
  <1>1. /\ preview'[p] = q /\ \A r \in Previews : r # p => preview'[r] = preview[r]
        /\ preview' \in [Previews -> PreviewShape]
    BY DEF PreviewsShape
  <1>2. /\ lock'[o] = l /\ \A u \in Previews : u # o => lock'[u] = lock[u]
        /\ lock' = [u \in Previews |-> lock'[u]]
        /\ \A u \in Previews :
             /\ lock'[u] = [holder |-> lock'[u].holder, line |-> lock'[u].line,
                            users |-> lock'[u].users]
             /\ lock'[u].holder \in 0..MaxPreviews
    BY LockChanges
  <1>3. preview[p].object = 0 /\ o # 0 /\ 0 \notin Previews
    <2>1. KnowsItsObject(p)
      BY DEF UsersOK
    <2>2. preview[p].object = 0
      BY <2>1 DEF KnowsItsObject, Using
    <2>. QED
      BY <2>2 DEF Previews
  <1>4. /\ \A u \in Previews : u # o => Users(u)' = Users(u)
        /\ Users(o)' = Users(o) \cup {p} /\ Cardinality(Users(o)') = Cardinality(Users(o)) + 1
    BY <1>3, UsersJoin DEF PreviewsShape
  <1>5. \A r \in Previews : preview[r].object = o => preview[r].loaded = key
    <2>1. CASE o = p
      BY <1>3, <2>1 DEF UsersOK, KnowsItsObject, Early, Users
    <2>2. CASE entry \in coordination
      <3>1. PICK w \in Previews : preview[w].object = o /\ preview[w].loaded = key
        BY <2>2 DEF CoordinationFreed
      <3>. QED
        BY <1>3, <3>1 DEF UsersOK
    <2>. QED
      BY <2>1, <2>2
  <1>6. PreviewsShape'
    BY <1>1, <1>2 DEF PreviewsShape
  <1>7. ASSUME NEW r \in Previews PROVE KnowsItsObject(r)'
    <2>1. CASE r = p
      <3>1. preview'[r] = q /\ q.stage \in {"tasks", "waiting"}
        BY <1>1, <2>1
      <3>2. entry \in coordination'
        OBVIOUS
      <3>3. q.stage = "tasks" => lock'[o].holder = p
        BY <1>2
      <3>. QED
        BY <1>3, <2>1, <3>1, <3>2, <3>3 DEF KnowsItsObject, Calculating, Using, Early
    <2>2. CASE r # p
      <3>1. preview'[r] = preview[r] /\ KnowsItsObject(r)
        BY <1>1, <2>2 DEF UsersOK
      <3>2. Calculating(r) => lock'[preview[r].object].holder = r
        <4>. SUFFICES ASSUME Calculating(r) PROVE lock'[preview[r].object].holder = r
          OBVIOUS
        <4>1. lock[preview[r].object].holder = r /\ preview[r].object \in Previews /\ r # 0
          BY <3>1 DEF KnowsItsObject, Calculating, Using, PreviewsShape, PreviewShape, Previews
        <4>. QED
          BY <1>2, <4>1
      <3>3. preview[r].stage \in Early => Users(r)' = {}
        <4>. SUFFICES ASSUME preview[r].stage \in Early PROVE Users(r)' = {}
          OBVIOUS
        <4>1. Users(r) = {}
          BY <3>1 DEF KnowsItsObject
        <4>2. r # o
          <5>1. CASE entry \in coordination
            BY <4>1, <5>1 DEF CoordinationFreed, Users
          <5>2. CASE o = p
            BY <2>2, <5>2
          <5>. QED
            BY <5>1, <5>2
        <4>. QED
          BY <1>4, <4>1, <4>2
      <3>. QED
        BY <3>1, <3>2, <3>3 DEF KnowsItsObject, Calculating
    <2>. QED
      BY <2>1, <2>2
  <1>8. UsersOK'
    <2>1. \A r, s \in Previews : preview'[r].object # 0 /\ preview'[r].object = preview'[s].object
                              => preview'[r].loaded = preview'[s].loaded
      BY <1>1, <1>5 DEF UsersOK
    <2>. QED
      BY <1>7, <2>1 DEF UsersOK
  <1>9. ObjectsOK'
    <2>1. \A d, e \in coordination' : d.key = e.key => d = e
      <3>1. CASE entry \in coordination
        BY <3>1 DEF ObjectsOK
      <3>2. CASE \A e \in coordination : e.key # key
        BY <3>2 DEF ObjectsOK
      <3>. QED
        BY <3>1, <3>2
    <2>2. ASSUME NEW u \in Previews
          PROVE  /\ lock'[u].users = Cardinality(Users(u)')
                 /\ lock'[u].holder # 0 => /\ preview'[lock'[u].holder].stage \in {"tasks", "edges"}
                                           /\ preview'[lock'[u].holder].object = u
      <3>1. /\ lock[u].users = Cardinality(Users(u))
            /\ lock[u].holder # 0 => /\ Calculating(lock[u].holder)
                                    /\ preview[lock[u].holder].object = u
        BY DEF ObjectsOK
      <3>2. lock'[u].users = Cardinality(Users(u)')
        <4>1. CASE u = o
          BY <1>2, <1>4, <3>1, <4>1
        <4>2. CASE u # o
          BY <1>2, <1>4, <3>1, <4>2
        <4>. QED
          BY <4>1, <4>2
      <3>3. lock[u].holder \in Previews \cup {0}
        BY DEF PreviewsShape, Previews
      <3>4. ~Calculating(p)
        BY DEF Calculating
      <3>5. CASE u = o /\ free
        BY <1>1, <1>2, <3>2, <3>5
      <3>6. CASE lock'[u].holder = lock[u].holder
        BY <1>1, <3>1, <3>2, <3>3, <3>4, <3>6 DEF Calculating
      <3>. QED
        BY <1>2, <3>5, <3>6
    <2>. QED
      BY <2>1, <2>2 DEF ObjectsOK, Calculating
  <1>10. CoordinationFreed'
    <2>. SUFFICES ASSUME NEW e \in coordination'
                  PROVE  \E r \in Previews : preview'[r].object = e.object /\ preview'[r].loaded = e.key
      BY DEF CoordinationFreed
    <2>1. CASE e = entry
      BY <1>1, <2>1
    <2>2. CASE e \in coordination
      <3>1. PICK r \in Previews : preview[r].object = e.object /\ preview[r].loaded = e.key
        BY <2>2 DEF CoordinationFreed
      <3>2. r # p
        BY <1>3, <2>2, <3>1 DEF PreviewsShape
      <3>. QED
        BY <1>1, <3>1, <3>2
    <2>. QED
      BY <2>1, <2>2
  <1>. QED
    BY <1>6, <1>8, <1>9, <1>10


\* It gives up its object; the last user takes the object out of the dict.
LEMMA Leaves ==
    ASSUME PreviewsInv, NEW p \in Previews, NEW o \in Previews, preview[p].object = o,
           NEW q \in PreviewShape, preview' = [preview EXCEPT ![p] = q],
           q.object = 0, q.stage \notin Using \cup Early,
           NEW w, LockRecord(w), w.users = lock[o].users,
           \/ w.holder = 0 /\ lock[o].holder \in {0, p}
           \/ w.holder = lock[o].holder /\ ~Calculating(p),
           Leave(o, w)
    PROVE  PreviewsInv'
  <1>. USE DEF PreviewsInv
  <1>. DEFINE l == [w EXCEPT !.users = @ - 1]
              last == l.users = 0 /\ l.holder = 0
  <1>1. /\ preview'[p] = q /\ \A r \in Previews : r # p => preview'[r] = preview[r]
        /\ preview' \in [Previews -> PreviewShape]
    BY DEF PreviewsShape
  <1>2. LockRecord(l) /\ l.users = lock[o].users - 1 /\ l.holder = w.holder
    BY DEF LockRecord
  <1>3. /\ lock' = [lock EXCEPT ![o] = l]
        /\ coordination' = IF last THEN {e \in coordination : e.object # o} ELSE coordination
    BY DEF Leave
  <1>. HIDE DEF l
  <1>4. /\ lock'[o] = l /\ \A u \in Previews : u # o => lock'[u] = lock[u]
        /\ lock' = [u \in Previews |-> lock'[u]]
        /\ \A u \in Previews :
             /\ lock'[u] = [holder |-> lock'[u].holder, line |-> lock'[u].line,
                            users |-> lock'[u].users]
             /\ lock'[u].holder \in 0..MaxPreviews
    BY <1>2, <1>3, LockChanges
  <1>5. 0 \notin Previews /\ preview[p].stage \in Using /\ KnowsItsObject(p)
    BY DEF UsersOK, KnowsItsObject, Previews
  <1>6. /\ \A u \in Previews : u # o => Users(u)' = Users(u)
        /\ Users(o)' = Users(o) \ {p} /\ Cardinality(Users(o)') = Cardinality(Users(o)) - 1
    BY UsersLeave DEF PreviewsShape
  <1>7. lock[o].users = Cardinality(Users(o)) /\ l.users = Cardinality(Users(o)')
    BY <1>2, <1>6 DEF ObjectsOK
  <1>8. l.users = 0 <=> Users(o) \ {p} = {}
    <2>1. IsFiniteSet(Users(o) \ {p})
      BY UsersFinite, FS_RemoveElement
    <2>. QED
      BY <1>6, <1>7, <2>1, FS_EmptySet
  <1>9. \A r \in Previews : r # p /\ preview[r].object = o => ~last
    BY <1>8 DEF Users
  <1>10. PreviewsShape'
    BY <1>1, <1>3, <1>4 DEF PreviewsShape
  <1>11. ASSUME NEW r \in Previews PROVE KnowsItsObject(r)'
    <2>1. CASE r = p
      <3>1. preview'[r] = q /\ q.stage \notin {"tasks", "edges", "cache"}
        BY <1>1, <2>1 DEF Using, Early
      <3>. QED
        BY <3>1 DEF KnowsItsObject, Calculating
    <2>2. CASE r # p
      <3>1. preview'[r] = preview[r] /\ KnowsItsObject(r)
        BY <1>1, <2>2 DEF UsersOK
      <3>2. preview[r].object # 0 =>
                [key |-> preview[r].loaded, object |-> preview[r].object] \in coordination'
        BY <1>3, <1>9, <2>2, <3>1 DEF KnowsItsObject
      <3>3. Calculating(r) => lock'[preview[r].object].holder = r
        <4>. SUFFICES ASSUME Calculating(r) PROVE lock'[preview[r].object].holder = r
          OBVIOUS
        <4>1. lock[preview[r].object].holder = r /\ preview[r].object \in Previews /\ r # 0
          BY <3>1 DEF KnowsItsObject, Calculating, Using, PreviewsShape, PreviewShape, Previews
        <4>. QED
          BY <1>2, <1>4, <2>2, <4>1
      <3>4. preview[r].stage \in Early => Users(r)' = {}
        BY <1>6, <3>1 DEF KnowsItsObject
      <3>. QED
        BY <3>1, <3>2, <3>3, <3>4 DEF KnowsItsObject, Calculating
    <2>. QED
      BY <2>1, <2>2
  <1>12. UsersOK'
    <2>1. \A r, s \in Previews : preview'[r].object # 0 /\ preview'[r].object = preview'[s].object
                              => preview'[r].loaded = preview'[s].loaded
      BY <1>1 DEF UsersOK
    <2>. QED
      BY <1>11, <2>1 DEF UsersOK
  <1>13. ObjectsOK'
    <2>1. \A d, e \in coordination' : d.key = e.key => d = e
      BY <1>3 DEF ObjectsOK
    <2>2. ASSUME NEW u \in Previews
          PROVE  /\ lock'[u].users = Cardinality(Users(u)')
                 /\ lock'[u].holder # 0 => /\ preview'[lock'[u].holder].stage \in {"tasks", "edges"}
                                           /\ preview'[lock'[u].holder].object = u
      <3>1. /\ lock[u].users = Cardinality(Users(u))
            /\ lock[u].holder # 0 => /\ Calculating(lock[u].holder)
                                    /\ preview[lock[u].holder].object = u
        BY DEF ObjectsOK
      <3>2. lock'[u].users = Cardinality(Users(u)')
        <4>1. CASE u = o
          BY <1>4, <1>7, <4>1
        <4>2. CASE u # o
          BY <1>4, <1>6, <3>1, <4>2
        <4>. QED
          BY <4>1, <4>2
      <3>3. lock[u].holder \in Previews \cup {0}
        BY DEF PreviewsShape, Previews
      <3>4. CASE lock'[u].holder = lock[u].holder /\ lock[u].holder # p
        BY <1>1, <3>1, <3>2, <3>3, <3>4 DEF Calculating
      <3>5. CASE lock'[u].holder = 0
        BY <3>2, <3>5
      <3>6. \/ lock'[u].holder = 0
            \/ lock'[u].holder = lock[u].holder /\ lock[u].holder # p
        <4>1. lock[u].holder = p => Calculating(p) /\ u = o
          BY <1>5, <3>1
        <4>2. CASE u = o
          <5>1. lock'[u].holder = w.holder
            BY <1>2, <1>4, <4>2
          <5>2. w.holder = 0 \/ (w.holder = lock[u].holder /\ ~Calculating(p))
            BY <4>2
          <5>. QED
            BY <4>1, <5>1, <5>2
        <4>3. CASE u # o
          BY <1>4, <4>1, <4>3
        <4>. QED
          BY <4>2, <4>3
      <3>. QED
        BY <3>4, <3>5, <3>6
    <2>. QED
      BY <2>1, <2>2 DEF ObjectsOK, Calculating
  <1>14. CoordinationFreed'
    <2>. SUFFICES ASSUME NEW e \in coordination'
                  PROVE  \E r \in Previews : preview'[r].object = e.object /\ preview'[r].loaded = e.key
      BY DEF CoordinationFreed
    <2>1. e \in coordination
      BY <1>3
    <2>2. PICK r \in Previews : preview[r].object = e.object /\ preview[r].loaded = e.key
      BY <2>1 DEF CoordinationFreed
    <2>3. CASE r # p
      BY <1>1, <2>2, <2>3
    <2>4. CASE r = p
      <3>1. e.object = o /\ ~last
        BY <1>3, <2>2, <2>4
      <3>2. l.holder = 0 \/ \E s \in Previews : s # p /\ preview[s].object = o
        <4>. SUFFICES ASSUME l.holder # 0 PROVE \E s \in Previews : s # p /\ preview[s].object = o
          OBVIOUS
        <4>1. l.holder = lock[o].holder /\ ~Calculating(p)
          BY <1>2
        <4>2. /\ lock[o].holder \in Previews /\ Calculating(lock[o].holder)
              /\ preview[lock[o].holder].object = o
          BY <4>1 DEF ObjectsOK, PreviewsShape, Previews
        <4>. QED
          BY <4>1, <4>2
      <3>3. PICK s \in Previews : s # p /\ preview[s].object = o
        BY <1>8, <3>1, <3>2 DEF Users
      <3>4. preview[s].loaded = e.key
        BY <1>5, <2>2, <2>4, <3>1, <3>3 DEF UsersOK
      <3>. QED
        BY <1>1, <3>1, <3>3, <3>4
    <2>. QED
      BY <2>3, <2>4
  <1>. QED
    BY <1>10, <1>12, <1>13, <1>14

\* It is the first in line and takes the lock.
LEMMA Takes ==
    ASSUME PreviewsInv, NEW p \in Previews, preview[p].stage = "waiting",
           NEW o \in Previews, preview[p].object = o, lock[o].holder = 0,
           NEW q \in PreviewShape, preview' = [preview EXCEPT ![p] = q],
           q.object = o, q.loaded = preview[p].loaded, q.stage = "tasks",
           NEW l, LockRecord(l), lock' = [lock EXCEPT ![o] = l],
           l.users = lock[o].users, l.holder = p, UNCHANGED coordination
    PROVE  PreviewsInv'
  <1>. USE DEF PreviewsInv
  <1>1. /\ preview'[p] = q /\ \A r \in Previews : r # p => preview'[r] = preview[r]
        /\ preview' \in [Previews -> PreviewShape]
    BY DEF PreviewsShape
  <1>2. /\ lock'[o] = l /\ \A u \in Previews : u # o => lock'[u] = lock[u]
        /\ lock' = [u \in Previews |-> lock'[u]]
        /\ \A u \in Previews :
             /\ lock'[u] = [holder |-> lock'[u].holder, line |-> lock'[u].line,
                            users |-> lock'[u].users]
             /\ lock'[u].holder \in 0..MaxPreviews
    BY LockChanges
  <1>3. \A u : Users(u)' = Users(u)
    BY UsersSame DEF PreviewsShape
  <1>4. 0 \notin Previews
    BY DEF Previews
  <1>5. PreviewsShape'
    BY <1>1, <1>2 DEF PreviewsShape
  <1>6. ASSUME NEW r \in Previews PROVE KnowsItsObject(r)'
    <2>1. KnowsItsObject(r) /\ KnowsItsObject(p)
      BY DEF UsersOK
    <2>2. CASE r = p
      <3>1. preview'[r] = q /\ q.stage \in Using /\ q.stage \notin Early
        BY <1>1, <2>2 DEF Using, Early
      <3>2. q.loaded \in Views /\ [key |-> q.loaded, object |-> o] \in coordination
        BY <1>4, <2>1 DEF KnowsItsObject, Using
      <3>. QED
        BY <1>2, <1>4, <2>2, <3>1, <3>2 DEF KnowsItsObject
    <2>3. CASE r # p
      <3>1. preview'[r] = preview[r] /\ Users(r)' = Users(r)
        BY <1>1, <1>3, <2>3
      <3>2. Calculating(r) => lock'[preview[r].object].holder = r
        <4>. SUFFICES ASSUME Calculating(r) PROVE lock'[preview[r].object].holder = r
          OBVIOUS
        <4>1. lock[preview[r].object].holder = r /\ preview[r].object \in Previews /\ r # 0
          BY <2>1 DEF KnowsItsObject, Calculating, Using, PreviewsShape, PreviewShape, Previews
        <4>. QED
          BY <1>2, <4>1
      <3>. QED
        BY <2>1, <3>1, <3>2 DEF KnowsItsObject, Calculating
    <2>. QED
      BY <2>2, <2>3
  <1>7. UsersOK'
    BY <1>1, <1>6 DEF UsersOK
  <1>8. ObjectsOK'
    <2>1. \A d, e \in coordination' : d.key = e.key => d = e
      BY DEF ObjectsOK
    <2>2. ASSUME NEW u \in Previews
          PROVE  /\ lock'[u].users = Cardinality(Users(u)')
                 /\ lock'[u].holder # 0 => /\ preview'[lock'[u].holder].stage \in {"tasks", "edges"}
                                           /\ preview'[lock'[u].holder].object = u
      <3>1. /\ lock[u].users = Cardinality(Users(u))
            /\ lock[u].holder # 0 => /\ Calculating(lock[u].holder)
                                    /\ preview[lock[u].holder].object = u
        BY DEF ObjectsOK
      <3>2. lock'[u].users = Cardinality(Users(u)')
        BY <1>2, <1>3, <3>1
      <3>3. lock[u].holder \in Previews \cup {0} /\ ~Calculating(p)
        BY DEF PreviewsShape, Previews, Calculating
      <3>4. CASE u = o
        BY <1>1, <1>2, <3>2, <3>4
      <3>5. CASE u # o
        BY <1>1, <1>2, <3>1, <3>2, <3>3, <3>5 DEF Calculating
      <3>. QED
        BY <3>4, <3>5
    <2>. QED
      BY <2>1, <2>2 DEF ObjectsOK, Calculating
  <1>9. CoordinationFreed'
    <2>. SUFFICES ASSUME NEW e \in coordination
                  PROVE  \E r \in Previews : preview'[r].object = e.object /\ preview'[r].loaded = e.key
      BY DEF CoordinationFreed
    <2>1. PICK r \in Previews : preview[r].object = e.object /\ preview[r].loaded = e.key
      BY DEF CoordinationFreed
    <2>2. preview'[r].object = e.object /\ preview'[r].loaded = e.key
      BY <1>1, <2>1
    <2>. QED
      BY <2>2
  <1>. QED
    BY <1>5, <1>7, <1>8, <1>9


-----------------------------------------------------------------------------
(* The cache. *)

LEMMA RemoveAtProperties ==
    ASSUME NEW S, NEW s \in Seq(S), NEW i \in 1..Len(s)
    PROVE  /\ RemoveAt(s, i) \in Seq(S) /\ Len(RemoveAt(s, i)) = Len(s) - 1
           /\ \A j \in 1..(Len(s) - 1) : RemoveAt(s, i)[j] = IF j < i THEN s[j] ELSE s[j + 1]
  <1>. DEFINE before == SubSeq(s, 1, i - 1)
              after == SubSeq(s, i + 1, Len(s))
  <1>1. Len(s) \in Nat /\ \A j \in 1..Len(s) : s[j] \in S
    OBVIOUS
  <1>2. /\ before \in Seq(S) /\ Len(before) = i - 1
        /\ \A j \in 1..(i - 1) : before[j] = s[j]
    <2>1. 1 \in Int /\ i - 1 \in Int /\ \A j \in 1..(i - 1) : s[j] \in S
      BY <1>1
    <2>2. /\ SubSeq(s, 1, i - 1) \in Seq(S)
          /\ Len(SubSeq(s, 1, i - 1)) = IF 1 <= i - 1 THEN i - 1 - 1 + 1 ELSE 0
          /\ \A j \in 1..(i - 1 - 1 + 1) : SubSeq(s, 1, i - 1)[j] = s[1 + j - 1]
      BY <2>1, SubSeqProperties
    <2>. HIDE DEF before
    <2>3. \A j \in 1..(i - 1) : 1 + j - 1 = j
      OBVIOUS
    <2>4. i - 1 - 1 + 1 = i - 1
      BY <1>1
    <2>5. (IF 1 <= i - 1 THEN i - 1 - 1 + 1 ELSE 0) = i - 1
      BY <1>1
    <2>. QED
      BY <2>2, <2>3, <2>4, <2>5 DEF before
  <1>3. /\ after \in Seq(S) /\ Len(after) = Len(s) - i
        /\ \A j \in 1..(Len(s) - i) : after[j] = s[i + j]
    <2>1. i + 1 \in Int /\ Len(s) \in Int /\ \A j \in (i + 1)..Len(s) : s[j] \in S
      BY <1>1
    <2>2. /\ SubSeq(s, i + 1, Len(s)) \in Seq(S)
          /\ Len(SubSeq(s, i + 1, Len(s))) =
                IF i + 1 <= Len(s) THEN Len(s) - (i + 1) + 1 ELSE 0
          /\ \A j \in 1..(Len(s) - (i + 1) + 1) :
                SubSeq(s, i + 1, Len(s))[j] = s[(i + 1) + j - 1]
      BY <2>1, SubSeqProperties
    <2>. HIDE DEF after
    <2>3. \A j \in 1..(Len(s) - i) : (i + 1) + j - 1 = i + j
      OBVIOUS
    <2>4. Len(s) - (i + 1) + 1 = Len(s) - i
      BY <1>1
    <2>5. (IF i + 1 <= Len(s) THEN Len(s) - (i + 1) + 1 ELSE 0) = Len(s) - i
      BY <1>1
    <2>. QED
      BY <2>2, <2>3, <2>4, <2>5 DEF after
  <1>. HIDE DEF before, after
  <1>4. /\ before \o after \in Seq(S) /\ Len(before \o after) = Len(before) + Len(after)
        /\ \A j \in 1..(Len(before) + Len(after)) : (before \o after)[j] =
                IF j <= Len(before) THEN before[j] ELSE after[j - Len(before)]
    BY <1>2, <1>3, ConcatProperties
  <1>5. Len(before) + Len(after) = Len(s) - 1
    BY <1>1, <1>2, <1>3
  <1>6. ASSUME NEW j \in 1..(Len(s) - 1)
        PROVE  (before \o after)[j] = IF j < i THEN s[j] ELSE s[j + 1]
    <2>1. CASE j < i
      BY <1>1, <1>2, <1>4, <1>5, <2>1
    <2>2. CASE ~(j < i)
      <3>1. j - (i - 1) \in 1..(Len(s) - i) /\ i + (j - (i - 1)) = j + 1
        BY <1>1, <2>2
      <3>2. (before \o after)[j] = after[j - (i - 1)]
        BY <1>1, <1>2, <1>4, <1>5, <2>2
      <3>. QED
        BY <1>3, <2>2, <3>1, <3>2
    <2>. QED
      BY <2>1, <2>2
  <1>. QED
    BY <1>4, <1>5, <1>6 DEF before, after, RemoveAt

LEMMA WithoutProperties ==
    ASSUME CacheInv, NEW key
    PROVE  /\ Without(key) \in Seq(EntryShape)
           /\ Len(Without(key)) = IF Cached(key) THEN Len(cache) - 1 ELSE Len(cache)
           /\ \A i \in 1..Len(Without(key)) : Without(key)[i].key # key
           /\ \A i, j \in 1..Len(Without(key)) :
                Without(key)[i].key = Without(key)[j].key => i = j
  <1>1. /\ cache \in Seq(EntryShape) /\ DOMAIN cache = 1..Len(cache) /\ Len(cache) \in Nat
        /\ \A i, j \in 1..Len(cache) : cache[i].key = cache[j].key => i = j
    BY DEF CacheInv, PreviewCacheBounded
  <1>2. CASE ~Cached(key)
    BY <1>1, <1>2 DEF Without, Cached
  <1>3. CASE Cached(key)
    <2>. DEFINE n == Position(key)
                rest == RemoveAt(cache, n)
    <2>1. n \in 1..Len(cache) /\ cache[n].key = key
      BY <1>1, <1>3 DEF Cached, Position
    <2>. HIDE DEF n
    <2>2. /\ rest \in Seq(EntryShape) /\ Len(rest) = Len(cache) - 1
          /\ \A j \in 1..(Len(cache) - 1) : rest[j] = IF j < n THEN cache[j] ELSE cache[j + 1]
      BY <1>1, <2>1, RemoveAtProperties
    <2>3. Without(key) = rest
      BY <1>3 DEF Without, n
    <2>. HIDE DEF rest
    <2>4. \A j \in 1..(Len(cache) - 1) : rest[j].key # key
      BY <1>1, <2>1, <2>2
    <2>5. \A i, j \in 1..(Len(cache) - 1) : rest[i].key = rest[j].key => i = j
      BY <1>1, <2>1, <2>2
    <2>. QED
      BY <1>3, <2>2, <2>3, <2>4, <2>5
  <1>. QED
    BY <1>2, <1>3

LEMMA CachedValueType ==
    ASSUME CacheInv, NEW key, Cached(key)
    PROVE  CachedValue(key) \in Results
  <1>1. Position(key) \in DOMAIN cache
    BY DEF Cached, Position
  <1>2. cache[Position(key)] \in EntryShape
    BY <1>1 DEF CacheInv
  <1>. QED
    BY <1>2 DEF CachedValue, EntryShape

LEMMA AppendedProperties ==
    ASSUME CacheInv, NEW key \in Views, NEW value \in Results
    PROVE  LET all == Append(Without(key), [key |-> key, value |-> value]) IN
           /\ all \in Seq(EntryShape)
           /\ Len(all) = IF Cached(key) THEN Len(cache) ELSE Len(cache) + 1
           /\ \A i, j \in 1..Len(all) : all[i].key = all[j].key => i = j
  <1>. DEFINE rest == Without(key)
              entry == [key |-> key, value |-> value]
              all == Append(rest, entry)
  <1>1. entry \in EntryShape /\ entry.key = key
    BY DEF EntryShape
  <1>2. /\ rest \in Seq(EntryShape)
        /\ Len(rest) = IF Cached(key) THEN Len(cache) - 1 ELSE Len(cache)
        /\ \A i \in 1..Len(rest) : rest[i].key # key
        /\ \A i, j \in 1..Len(rest) : rest[i].key = rest[j].key => i = j
    BY WithoutProperties
  <1>. HIDE DEF rest, entry
  <1>3. /\ all \in Seq(EntryShape) /\ Len(all) = Len(rest) + 1
        /\ \A i \in 1..Len(rest) : all[i] = rest[i]
        /\ all[Len(rest) + 1] = entry
    BY <1>1, <1>2, AppendProperties
  <1>4. Len(cache) \in Nat /\ Len(rest) \in Nat
    BY <1>2 DEF CacheInv
  <1>. HIDE DEF all
  <1>5. \A i, j \in 1..Len(all) : all[i].key = all[j].key => i = j
    BY <1>1, <1>2, <1>3, <1>4
  <1>6. Len(all) = IF Cached(key) THEN Len(cache) ELSE Len(cache) + 1
    BY <1>2, <1>3, <1>4
  <1>. QED
    BY <1>3, <1>5, <1>6 DEF all, rest, entry

LEMMA TouchedInv ==
    ASSUME CacheInv, NEW key \in Views, Cached(key), cache' = Touched(key)
    PROVE  CacheInv'
  <1>. DEFINE all == Append(Without(key), [key |-> key, value |-> CachedValue(key)])
  <1>1. CachedValue(key) \in Results
    BY CachedValueType
  <1>2. /\ all \in Seq(EntryShape) /\ Len(all) = Len(cache)
        /\ \A i, j \in 1..Len(all) : all[i].key = all[j].key => i = j
    BY <1>1, AppendedProperties
  <1>3. cache' = all
    BY DEF Touched
  <1>. HIDE DEF all
  <1>. QED
    BY <1>2, <1>3 DEF CacheInv, PreviewCacheBounded

LEMMA InsertedInv ==
    ASSUME CacheInv, NEW key \in Views, NEW value \in Results, cache' = Inserted(key, value)
    PROVE  CacheInv'
  <1>. DEFINE all == Append(Without(key), [key |-> key, value |-> value])
              drop == IF Len(all) > MaxCached THEN Len(all) - MaxCached ELSE 0
  <1>1. /\ all \in Seq(EntryShape)
        /\ \A i, j \in 1..Len(all) : all[i].key = all[j].key => i = j
    BY AppendedProperties
  <1>2. cache' = SubSeq(all, 1 + drop, Len(all))
    BY DEF Inserted
  <1>. HIDE DEF all
  <1>3. MaxCached \in Nat /\ MaxCached # 0 /\ Len(all) \in Nat
    BY <1>1, PreviewAssumption DEF PreviewAssumption
  <1>4. drop \in 0..Len(all) /\ Len(all) - drop <= MaxCached
    BY <1>3
  <1>. HIDE DEF drop
  <1>5. /\ cache' \in Seq(EntryShape) /\ Len(cache') = Len(all) - drop
        /\ \A i \in 1..(Len(all) - drop) : cache'[i] = all[drop + i]
    <2>1. 1 + drop \in Int /\ Len(all) \in Int
          /\ \A i \in (1 + drop)..Len(all) : all[i] \in EntryShape
      BY <1>1, <1>3, <1>4
    <2>2. /\ cache' \in Seq(EntryShape)
          /\ Len(cache') = IF 1 + drop <= Len(all) THEN Len(all) - (1 + drop) + 1 ELSE 0
          /\ \A i \in 1..(Len(all) - (1 + drop) + 1) : cache'[i] = all[(1 + drop) + i - 1]
      BY <1>2, <2>1, SubSeqProperties
    <2>3. /\ Len(all) - (1 + drop) + 1 = Len(all) - drop
          /\ \A i \in 1..(Len(all) - drop) : (1 + drop) + i - 1 = drop + i
          /\ (IF 1 + drop <= Len(all) THEN Len(all) - (1 + drop) + 1 ELSE 0) = Len(all) - drop
      BY <1>3, <1>4
    <2>. QED
      BY <2>2, <2>3
  <1>6. \A i, j \in 1..Len(cache') : cache'[i].key = cache'[j].key => i = j
    BY <1>1, <1>3, <1>4, <1>5
  <1>. QED
    BY <1>3, <1>4, <1>5, <1>6 DEF CacheInv, PreviewCacheBounded


-----------------------------------------------------------------------------
(* The actions. *)

LEMMA ShownInv ==
    ASSUME CommandsInv, offers' \subseteq Results, OffersOnly
    PROVE  CommandsInv'
  <1>1. CommandsShape'
    BY DEF OffersOnly, CommandsInv, CommandsShape
  <1>2. ClientsOK' /\ CarriersOK' /\ GraphAcyclic'
    BY DEF OffersOnly, CommandsInv, ClientsOK, CarriersOK, Pending, GraphAcyclic
  <1>3. RequestsOK'
    BY DEF OffersOnly, CommandsInv, RequestsOK, RequestOK
  <1>4. LogOK'
    BY DEF OffersOnly, CommandsInv, LogOK, OneEffectPerCommand, EventsNumbered,
        ReviewedIsApplied, EventKeys
  <1>. QED
    BY <1>1, <1>2, <1>3, <1>4 DEF CommandsInv

LEMMA CommandsUnchanged == CommandsInv /\ UNCHANGED commandVars => CommandsInv'
  BY ShownInv DEF commandVars, OffersOnly, CommandsInv, CommandsShape

LEMMA EndedRecord ==
    ASSUME PreviewsInv, NEW p \in Previews, NEW stage \in {"answered", "refused", "gone"},
           preview' = Ended(p, stage)
    PROVE  \E q \in PreviewShape :
                /\ preview' = [preview EXCEPT ![p] = q]
                /\ q.object = 0 /\ q.stage \notin Using \cup Early
  <1>. DEFINE q == [preview[p] EXCEPT !.stage = stage, !.loaded = None,
                                      !.read = NoRead, !.object = 0]
  <1>1. preview \in [Previews -> PreviewShape] /\ preview[p] \in PreviewShape
    BY DEF PreviewsInv, PreviewsShape
  <1>2. preview' = [preview EXCEPT ![p] = q]
    BY <1>1 DEF Ended, PreviewShape
  <1>3. /\ NoRead \in Reads /\ stage \in PreviewStages /\ 0 \in 0..MaxPreviews
        /\ stage \notin Using \cup Early
    BY PV1Assumption DEF NoRead, Reads, Plans, PreviewStages, PV1Assumption, Using, Early
  <1>4. q \in PreviewShape /\ q.object = 0 /\ q.stage = stage
    BY <1>1, <1>3 DEF PreviewShape
  <1>. HIDE DEF q
  <1>. QED
    BY <1>2, <1>3, <1>4

\* It ends without an object.
LEMMA EndsEarly ==
    ASSUME PreviewsInv, NEW p \in Previews, NEW stage \in {"answered", "refused", "gone"},
           preview[p].stage \in Early, preview' = Ended(p, stage), UNCHANGED <<coordination, lock>>
    PROVE  PreviewsInv'
  <1>1. PICK q \in PreviewShape :
                /\ preview' = [preview EXCEPT ![p] = q]
                /\ q.object = 0 /\ q.stage \notin Using \cup Early
    BY EndedRecord
  <1>2. preview[p].object = 0 /\ ~Calculating(p)
    BY DEF PreviewsInv, UsersOK, KnowsItsObject, Early, Using, Calculating
  <1>. QED
    BY <1>1, <1>2, GoesOn DEF Early, Using

\* It ends and gives its object up.
LEMMA EndsLate ==
    ASSUME PreviewsInv, NEW p \in Previews, NEW stage \in {"answered", "gone"},
           NEW o \in Previews, preview[p].object = o, preview' = Ended(p, stage),
           NEW w, LockRecord(w), w.users = lock[o].users,
           \/ w.holder = 0 /\ lock[o].holder \in {0, p}
           \/ w.holder = lock[o].holder /\ ~Calculating(p),
           Leave(o, w)
    PROVE  PreviewsInv'
  <1>1. PICK q \in PreviewShape :
                /\ preview' = [preview EXCEPT ![p] = q]
                /\ q.object = 0 /\ q.stage \notin Using \cup Early
    BY EndedRecord
  <1>. QED
    BY <1>1, Leaves

\* Its object, and the record of its lock.
LEMMA ItsLock ==
    ASSUME PreviewsInv, NEW p \in Previews, preview[p].stage \in Using
    PROVE  /\ preview[p].object \in Previews /\ preview[p].loaded \in Views
           /\ LockRecord(lock[preview[p].object])
           /\ Calculating(p) => lock[preview[p].object].holder = p
  <1>1. preview[p].object \in 0..MaxPreviews
    BY DEF PreviewsInv, PreviewsShape, PreviewShape
  <1>2. KnowsItsObject(p)
    BY DEF PreviewsInv, UsersOK
  <1>3. preview[p].object \in Previews /\ preview[p].loaded \in Views
    BY <1>1, <1>2, PV1Assumption DEF KnowsItsObject, Previews, PV1Assumption
  <1>. QED
    BY <1>2, <1>3 DEF KnowsItsObject, LockRecord, PreviewsInv, PreviewsShape

LEMMA ReleaseInv ==
    ASSUME PreviewsInv, NEW p \in Previews, NEW stage \in {"answered", "gone"},
           Calculating(p), preview' = Ended(p, stage), Release(p)
    PROVE  PreviewsInv'
  <1>. DEFINE o == preview[p].object
              w == [lock[o] EXCEPT !.holder = 0]
  <1>1. o \in Previews /\ LockRecord(lock[o]) /\ lock[o].holder = p
    BY ItsLock DEF Calculating, Using
  <1>2. LockRecord(w) /\ w.users = lock[o].users /\ w.holder = 0
    BY <1>1, PV1Assumption DEF LockRecord, PV1Assumption
  <1>3. Leave(o, w)
    BY DEF Release
  <1>4. PICK object \in Previews : object = o
    BY <1>1
  <1>. HIDE DEF w
  <1>. QED
    BY <1>1, <1>2, <1>3, <1>4, EndsLate

LEMMA OpenInv ==
    ASSUME Inv, NEW p \in Previews, Open(p)
    PROVE  Inv'
  <1>. DEFINE q == [preview[p] EXCEPT !.stage = "project", !.graph = project.graph]
  <1>1. /\ preview[p] \in PreviewShape /\ project \in Views /\ preview[p].stage = "free"
        /\ preview \in [Previews -> PreviewShape]
    BY DEF Inv, CommandsInv, CommandsShape, PreviewsInv, PreviewsShape, Open
  <1>2. preview' = [preview EXCEPT ![p] = q]
    BY <1>1 DEF Open
  <1>3. /\ q \in PreviewShape /\ q.stage = "project" /\ q.object = preview[p].object
        /\ q.loaded = preview[p].loaded
    BY <1>1 DEF PreviewShape, PreviewStages, Views
  <1>. HIDE DEF q
  <1>4. preview[p].object = 0 /\ ~Calculating(p)
    BY <1>1 DEF Inv, PreviewsInv, UsersOK, KnowsItsObject, Using, Calculating
  <1>5. PreviewsInv'
    BY <1>1, <1>2, <1>3, <1>4, GoesOn DEF Inv, Open, Using, Early
  <1>. QED
    BY <1>5, CommandsUnchanged DEF Inv, Open, CacheInv, PreviewCacheBounded

LEMMA LoadProjectInv ==
    ASSUME Inv, NEW p \in Previews, LoadProject(p)
    PROVE  Inv'
  <1>1. ASSUME preview' = Ended(p, "refused")
        PROVE  PreviewsInv'
    BY <1>1, EndsEarly DEF Inv, LoadProject, Early
  <1>2. ASSUME preview' = [preview EXCEPT ![p].stage = "cache", ![p].loaded = project]
        PROVE  PreviewsInv'
    <2>. DEFINE q == [preview[p] EXCEPT !.stage = "cache", !.loaded = project]
    <2>1. /\ preview[p] \in PreviewShape /\ project \in Views /\ preview[p].stage = "project"
          /\ preview \in [Previews -> PreviewShape]
      BY DEF Inv, CommandsInv, CommandsShape, PreviewsInv, PreviewsShape, LoadProject
    <2>2. preview' = [preview EXCEPT ![p] = q]
      BY <1>2, <2>1
    <2>3. /\ q \in PreviewShape /\ q.stage = "cache" /\ q.object = preview[p].object
          /\ q.loaded = project
      BY <2>1 DEF PreviewShape, PreviewStages
    <2>. HIDE DEF q
    <2>4. preview[p].object = 0 /\ ~Calculating(p)
      BY <2>1 DEF Inv, PreviewsInv, UsersOK, KnowsItsObject, Using, Calculating
    <2>. QED
      BY <2>1, <2>2, <2>3, <2>4, GoesOn DEF Inv, LoadProject, Using, Early
  <1>3. PreviewsInv'
    BY <1>1, <1>2 DEF LoadProject
  <1>. QED
    BY <1>3, CommandsUnchanged DEF Inv, LoadProject, CacheInv, PreviewCacheBounded

LEMMA ReadTasksInv ==
    ASSUME Inv, NEW p \in Previews, ReadTasks(p)
    PROVE  Inv'
  <1>. DEFINE read == [preview[p].read EXCEPT !.tasks = tasks, !.plan = plan]
              q == [preview[p] EXCEPT !.stage = "edges", !.read = read]
  <1>1. /\ preview[p] \in PreviewShape /\ preview[p].stage = "tasks"
        /\ tasks \subseteq Tasks /\ plan \in Plans
        /\ preview \in [Previews -> PreviewShape]
    BY DEF Inv, CommandsInv, CommandsShape, PreviewsInv, PreviewsShape, ReadTasks
  <1>2. read \in Reads
    BY <1>1 DEF PreviewShape, Reads
  <1>3. preview' = [preview EXCEPT ![p] = q]
    BY <1>1 DEF ReadTasks, PreviewShape
  <1>. HIDE DEF read
  <1>4. /\ q \in PreviewShape /\ q.stage = "edges" /\ q.object = preview[p].object
        /\ q.loaded = preview[p].loaded
    BY <1>1, <1>2 DEF PreviewShape, PreviewStages
  <1>. HIDE DEF q
  <1>5. preview[p].object # 0 /\ Calculating(p) /\ preview[p].loaded \in Views
    BY <1>1 DEF Inv, PreviewsInv, UsersOK, KnowsItsObject, Using, Calculating
  <1>6. PreviewsInv'
    BY <1>1, <1>3, <1>4, <1>5, GoesOn DEF Inv, ReadTasks, Using, Early
  <1>. QED
    BY <1>6, CommandsUnchanged DEF Inv, ReadTasks, CacheInv, PreviewCacheBounded

LEMMA CalculateInv ==
    ASSUME Inv, NEW p \in Previews, Calculate(p)
    PROVE  Inv'
  <1>. DEFINE key == preview[p].loaded
              value == Result(key.graph, [preview[p].read EXCEPT !.edges = edges])
  <1>1. Calculating(p) /\ key \in Views
    BY DEF Calculate, Calculating, Inv, PreviewsInv, UsersOK, KnowsItsObject, Using
  <1>2. value \in Results
    <2>1. preview[p].read \in Reads /\ edges \subseteq Tasks \X Tasks
      BY DEF Inv, CommandsInv, CommandsShape, PreviewsInv, PreviewsShape, PreviewShape
    <2>2. [preview[p].read EXCEPT !.edges = edges] \in Reads
      BY <2>1 DEF Reads
    <2>. QED
      BY <1>1, <2>2 DEF Result, Results, Reads, Views
  <1>3. /\ cache' = Inserted(key, value) /\ Show(value) /\ OffersOnly
        /\ preview' = Ended(p, "answered") /\ Release(p)
    BY DEF Calculate
  <1>. HIDE DEF value
  <1>4. CommandsInv'
    BY <1>2, <1>3, ShownInv DEF Inv, Show, CommandsInv, CommandsShape
  <1>5. PreviewsInv'
    BY <1>1, <1>3, ReleaseInv DEF Inv
  <1>6. CacheInv'
    BY <1>1, <1>2, <1>3, InsertedInv DEF Inv
  <1>. QED
    BY <1>4, <1>5, <1>6 DEF Inv

LEMMA CancelInv ==
    ASSUME Inv, NEW p \in Previews, Cancel(p)
    PROVE  Inv'
  <1>0. preview' = Ended(p, "gone")
    BY DEF Cancel
  <1>1. ASSUME preview[p].stage \in {"project", "cache"}, UNCHANGED <<coordination, lock>>
        PROVE  PreviewsInv'
    BY <1>0, <1>1, EndsEarly DEF Inv, Early
  <1>2. ASSUME preview[p].stage = "waiting",
               Leave(preview[p].object, [lock[preview[p].object] EXCEPT
                        !.line = SelectSeq(@, LAMBDA q : q # p)])
        PROVE  PreviewsInv'
    <2>. DEFINE o == preview[p].object
                line == SelectSeq(lock[o].line, LAMBDA q : q # p)
                w == [lock[o] EXCEPT !.line = line]
    <2>1. o \in Previews /\ LockRecord(lock[o]) /\ ~Calculating(p)
      BY <1>2, ItsLock DEF Calculating, Using, Inv
    <2>2. Leave(o, w)
      BY <1>2
    <2>. HIDE DEF line
    <2>3. LockRecord(w) /\ w.users = lock[o].users /\ w.holder = lock[o].holder
      BY <2>1 DEF LockRecord
    <2>4. PICK object \in Previews : object = o
      BY <2>1
    <2>. HIDE DEF w
    <2>. QED
      BY <1>0, <2>1, <2>2, <2>3, <2>4, EndsLate DEF Inv
  <1>3. ASSUME preview[p].stage \in {"tasks", "edges"}, Release(p)
        PROVE  PreviewsInv'
    BY <1>0, <1>3, ReleaseInv DEF Inv, Calculating
  <1>4. PreviewsInv'
    BY <1>1, <1>2, <1>3 DEF Cancel
  <1>. QED
    BY <1>4, CommandsUnchanged DEF Inv, Cancel, CacheInv, PreviewCacheBounded


LEMMA AnsweredFromCache ==
    ASSUME Inv, NEW key \in Views, Cached(key), Show(CachedValue(key)), OffersOnly,
           cache' = Touched(key)
    PROVE  CommandsInv' /\ CacheInv'
  <1>1. CachedValue(key) \in Results
    BY CachedValueType DEF Inv
  <1>2. offers' \subseteq Results
    BY <1>1 DEF Show, Inv, CommandsInv, CommandsShape
  <1>. QED
    BY <1>2, ShownInv, TouchedInv DEF Inv

LEMMA SetLine ==
    ASSUME NEW m, LockRecord(m), NEW line
    PROVE  LET l == [m EXCEPT !.line = line]
           IN  LockRecord(l) /\ l.users = m.users /\ l.holder = m.holder
  BY DEF LockRecord

LockSet(m, users, holder, line) ==
    [m EXCEPT !.users = users, !.holder = holder, !.line = line]

LEMMA SetLock ==
    ASSUME NEW m, LockRecord(m), NEW users, NEW holder \in 0..MaxPreviews, NEW line
    PROVE  /\ LockRecord(LockSet(m, users, holder, line))
           /\ LockSet(m, users, holder, line).users = users
           /\ LockSet(m, users, holder, line).holder = holder
  <1>. DEFINE m1 == [m EXCEPT !.users = users]
              m2 == [m1 EXCEPT !.holder = holder]
              m3 == [m2 EXCEPT !.line = line]
  <1>1. LockRecord(m1) /\ m1.users = users
    BY DEF LockRecord
  <1>2. LockSet(m, users, holder, line) = m3
    BY DEF LockSet
  <1>. HIDE DEF m1
  <1>3. LockRecord(m2) /\ m2.users = users /\ m2.holder = holder
    BY <1>1 DEF LockRecord
  <1>. HIDE DEF m2
  <1>4. LockRecord(m3) /\ m3.users = users /\ m3.holder = holder
    BY <1>3, SetLine
  <1>. HIDE DEF m3
  <1>. QED
    BY <1>2, <1>4

LEMMA TryCacheInv ==
    ASSUME Inv, NEW p \in Previews, TryCache(p)
    PROVE  Inv'
  <1>. DEFINE key == preview[p].loaded
              held == ObjectFor(key)
              object == IF held = {} THEN p ELSE (CHOOSE entry \in held : TRUE).object
              free == lock[object].holder = 0 /\ lock[object].line = <<>>
  <1>1. key \in Views /\ preview[p].stage = "cache"
    BY DEF TryCache, Inv, PreviewsInv, UsersOK, KnowsItsObject
  <1>2. CASE Cached(key)
    <2>1. /\ Show(CachedValue(key)) /\ OffersOnly /\ cache' = Touched(key)
          /\ preview' = Ended(p, "answered") /\ UNCHANGED <<coordination, lock>>
      BY <1>2 DEF TryCache
    <2>2. CommandsInv' /\ CacheInv'
      BY <1>1, <1>2, <2>1, AnsweredFromCache
    <2>3. PreviewsInv'
      BY <1>1, <2>1, EndsEarly DEF Inv, Early
    <2>. QED
      BY <2>2, <2>3 DEF Inv
  <1>3. CASE ~Cached(key)
    <2>. DEFINE users == lock[object].users + 1
                holder == IF free THEN p ELSE lock[object].holder
                line == IF free THEN lock[object].line ELSE Append(lock[object].line, p)
                l == LockSet(lock[object], users, holder, line)
                q == [preview[p] EXCEPT !.object = object,
                                        !.stage = IF free THEN "tasks" ELSE "waiting"]
    <2>1. /\ coordination' = coordination \cup {[key |-> key, object |-> object]}
          /\ lock' = [lock EXCEPT ![object].users = @ + 1,
                                  ![object].holder = IF free THEN p ELSE @,
                                  ![object].line = IF free THEN @ ELSE Append(@, p)]
          /\ preview' = [preview EXCEPT ![p].object = object,
                            ![p].stage = IF free THEN "tasks" ELSE "waiting"]
          /\ UNCHANGED <<commandVars, cache>>
      BY <1>3 DEF TryCache
    <2>2. /\ object \in Previews
          /\ \/ [key |-> key, object |-> object] \in coordination
             \/ object = p /\ \A e \in coordination : e.key # key
      <3>1. CASE held = {}
        BY <3>1 DEF ObjectFor
      <3>2. CASE held # {}
        <4>1. PICK e \in coordination : e.key = key /\ e.object = object
          BY <3>2 DEF ObjectFor
        <4>2. e = [key |-> key, object |-> object] /\ object \in Previews
          BY <4>1 DEF Inv, PreviewsInv, PreviewsShape
        <4>. QED
          BY <4>1, <4>2
      <3>. QED
        BY <3>1, <3>2
    <2>. HIDE DEF object
    <2>3. preview[p] \in PreviewShape /\ preview \in [Previews -> PreviewShape]
      BY DEF Inv, PreviewsInv, PreviewsShape
    <2>4. LockRecord(lock[object])
      BY <2>2 DEF Inv, PreviewsInv, PreviewsShape, LockRecord
    <2>5. p \in 0..MaxPreviews /\ object \in 0..MaxPreviews
      BY <2>2 DEF Previews
    <2>6. lock' = [lock EXCEPT ![object] = l]
      BY <2>1, <2>2, <2>4 DEF LockSet, LockRecord, Inv, PreviewsInv, PreviewsShape
    <2>7. preview' = [preview EXCEPT ![p] = q]
      BY <2>1, <2>3 DEF PreviewShape
    <2>8. free \in BOOLEAN /\ (free => lock[object].holder = 0)
      OBVIOUS
    <2>. HIDE DEF free
    <2>9. /\ LockRecord(l) /\ l.users = lock[object].users + 1
          /\ l.holder = IF free THEN p ELSE lock[object].holder
      <3>1. holder \in 0..MaxPreviews
        BY <2>4, <2>5 DEF LockRecord
      <3>. HIDE DEF users, holder, line
      <3>2. LockRecord(l) /\ l.users = users /\ l.holder = holder
        BY <2>4, <3>1, SetLock
      <3>. QED
        BY <3>2 DEF users, holder
    <2>10. /\ q \in PreviewShape /\ q.object = object /\ q.loaded = key
           /\ q.stage = IF free THEN "tasks" ELSE "waiting"
      BY <2>3, <2>5 DEF PreviewShape, PreviewStages
    <2>. HIDE DEF l, q
    <2>11. PICK o \in Previews : o = object
      BY <2>2
    <2>12. PICK k \in Views : k = key
      BY <1>1
    <2>13. PICK f \in BOOLEAN : f = free
      BY <2>8
    <2>14. PreviewsInv'
      BY <1>1, <2>1, <2>2, <2>6, <2>7, <2>8, <2>9, <2>10, <2>11, <2>12, <2>13, Joins DEF Inv
    <2>. QED
      BY <2>1, <2>14, CommandsUnchanged DEF Inv, CacheInv, PreviewCacheBounded
  <1>. QED
    BY <1>2, <1>3

LEMMA WakeInv ==
    ASSUME Inv, NEW p \in Previews, Wake(p)
    PROVE  Inv'
  <1>. DEFINE o == preview[p].object
              key == preview[p].loaded
              taken == [lock[o] EXCEPT !.line = Tail(@)]
  <1>1. /\ o \in Previews /\ key \in Views /\ LockRecord(lock[o]) /\ preview[p].stage = "waiting"
        /\ ~Calculating(p) /\ lock[o].holder = 0
    BY ItsLock DEF Wake, Inv, Using, Calculating
  <1>2. LockRecord(taken) /\ taken.users = lock[o].users /\ taken.holder = 0
    BY <1>1, SetLine
  <1>3. PICK object \in Previews : object = o
    BY <1>1
  <1>4. CASE Cached(key)
    <2>1. /\ Show(CachedValue(key)) /\ OffersOnly /\ cache' = Touched(key)
          /\ preview' = Ended(p, "answered") /\ Leave(o, taken)
      BY <1>4 DEF Wake
    <2>. HIDE DEF taken
    <2>2. CommandsInv' /\ CacheInv'
      BY <1>1, <1>4, <2>1, AnsweredFromCache
    <2>3. PreviewsInv'
      BY <1>1, <1>2, <1>3, <2>1, EndsLate DEF Inv
    <2>. QED
      BY <2>2, <2>3 DEF Inv
  <1>5. CASE ~Cached(key)
    <2>. DEFINE l == [taken EXCEPT !.holder = p]
                q == [preview[p] EXCEPT !.stage = "tasks"]
    <2>1. /\ lock' = [lock EXCEPT ![o] = l]
          /\ preview' = [preview EXCEPT ![p].stage = "tasks"]
          /\ UNCHANGED <<commandVars, cache, coordination>>
      BY <1>5 DEF Wake
    <2>. HIDE DEF taken
    <2>2. LockRecord(l) /\ l.users = lock[o].users /\ l.holder = p
      BY <1>2 DEF LockRecord, Previews
    <2>. HIDE DEF l
    <2>3. preview[p] \in PreviewShape /\ preview \in [Previews -> PreviewShape]
      BY DEF Inv, PreviewsInv, PreviewsShape
    <2>4. preview' = [preview EXCEPT ![p] = q]
      BY <2>1, <2>3
    <2>5. q \in PreviewShape /\ q.object = o /\ q.loaded = preview[p].loaded /\ q.stage = "tasks"
      BY <2>3 DEF PreviewShape, PreviewStages
    <2>. HIDE DEF q
    <2>6. PreviewsInv'
      BY <1>1, <1>3, <2>1, <2>2, <2>4, <2>5, Takes DEF Inv
    <2>. QED
      BY <2>1, <2>6, CommandsUnchanged DEF Inv, CacheInv, PreviewCacheBounded
  <1>. QED
    BY <1>4, <1>5

-----------------------------------------------------------------------------
(* The theorems. *)

LEMMA PreviewInitInv == PreviewInit => PreviewsInv /\ CacheInv
  <1>. SUFFICES ASSUME PreviewInit PROVE PreviewsInv /\ CacheInv
    OBVIOUS
  <1>. USE PV1Assumption, PreviewAssumption DEF PV1Assumption, PreviewAssumption, PreviewInit
  <1>1. FreePreview \in PreviewShape /\ FreePreview.object = 0 /\ FreePreview.stage = "free"
    BY DEF FreePreview, PreviewShape, PreviewStages, NoRead, Reads, Plans
  <1>2. /\ NewLock = [holder |-> NewLock.holder, line |-> NewLock.line, users |-> NewLock.users]
        /\ NewLock.holder = 0 /\ NewLock.users = 0
    BY DEF NewLock
  <1>3. PreviewsShape
    BY <1>1, <1>2 DEF PreviewsShape
  <1>4. \A o \in Previews : Users(o) = {} /\ Cardinality(Users(o)) = 0
    <2>1. \A o \in Previews : Users(o) = {}
      BY <1>1 DEF Users, Previews
    <2>. QED
      BY <2>1, FS_EmptySet
  <1>5. UsersOK
    BY <1>1, <1>4 DEF UsersOK, KnowsItsObject, Using, Calculating
  <1>6. ObjectsOK /\ CoordinationFreed
    BY <1>2, <1>4 DEF ObjectsOK, CoordinationFreed
  <1>7. CacheInv
    BY DEF CacheInv, PreviewCacheBounded
  <1>. QED
    BY <1>3, <1>5, <1>6, <1>7 DEF PreviewsInv

LEMMA PreviewsUnchanged == PreviewsInv /\ CacheInv /\ UNCHANGED previewVars => PreviewsInv' /\ CacheInv'
  <1>. SUFFICES ASSUME PreviewsInv, CacheInv, UNCHANGED previewVars
                PROVE  PreviewsInv' /\ CacheInv'
    OBVIOUS
  <1>. USE DEF previewVars
  <1>1. \A o : Users(o)' = Users(o)
    BY DEF Users
  <1>2. PreviewsShape' /\ CoordinationFreed' /\ CacheInv'
    BY DEF PreviewsInv, PreviewsShape, CoordinationFreed, CacheInv, PreviewCacheBounded
  <1>3. UsersOK' /\ ObjectsOK'
    BY <1>1 DEF PreviewsInv, UsersOK, KnowsItsObject, ObjectsOK, Calculating
  <1>. QED
    BY <1>2, <1>3 DEF PreviewsInv

LEMMA NextInv == Inv /\ [Next]_vars => Inv'
  <1>. SUFFICES ASSUME Inv, [Next]_vars PROVE Inv'
    OBVIOUS
  <1>1. CASE CommandsNext /\ UNCHANGED previewVars
    BY <1>1, CommandsNextInv, PreviewsUnchanged DEF Inv
  <1>2. CASE PreviewNext
    <2>1. PICK p \in Previews : Open(p) \/ Step(p) \/ Cancel(p)
      BY <1>2 DEF PreviewNext
    <2>. QED
      BY <2>1, OpenInv, LoadProjectInv, TryCacheInv, WakeInv, ReadTasksInv, CalculateInv,
         CancelInv DEF Step
  <1>3. CASE UNCHANGED vars
    BY <1>3, CommandsUnchanged, PreviewsUnchanged DEF vars, Inv
  <1>. QED
    BY <1>1, <1>2, <1>3 DEF Next

\* Every behaviour keeps the invariant.
THEOREM PreviewInvariance == Spec => []Inv
  <1>1. Init => Inv
    BY CommandsInitInv, PreviewInitInv DEF Init, Inv
  <1>. QED
    BY <1>1, NextInv, PTL DEF Spec

\* The state of the commands, the previews, the cache and the locks is well formed
\* (domain.py, execute_command and preview_project_schedule).
THEOREM PreviewTypes == Spec => []PreviewTypeOK
  <1>1. Inv => PreviewTypeOK
    <2>. SUFFICES ASSUME Inv PROVE PreviewTypeOK
      OBVIOUS
    <2>1. CommandsTypeOK /\ offers \subseteq Results
      BY CommandsInvTypes DEF Inv, CommandsInv, CommandsShape
    <2>2. \A p \in Previews : preview[p].stage \in PreviewStages /\ lock[p].holder \in 0..MaxPreviews
      BY DEF Inv, PreviewsInv, PreviewsShape, PreviewShape
    <2>3. \A p \in Previews : lock[p].users \in 0..MaxPreviews
      BY UsersFinite DEF Inv, PreviewsInv, ObjectsOK
    <2>. QED
      BY <2>1, <2>2, <2>3 DEF PreviewTypeOK
  <1>. QED
    BY <1>1, PreviewInvariance, PTL

\* A command id takes effect at most once, and its record says so exactly when its
\* event is in the log (_idempotency_start, _idempotency_finish).
THEOREM CommandsTakeEffectOnce == Spec => []OneEffectPerCommand
  <1>1. Inv => OneEffectPerCommand
    BY DEF Inv, CommandsInv, LogOK
  <1>. QED
    BY <1>1, PreviewInvariance, PTL

\* The events are numbered without a gap in the order of their commits
\* (append_event, focus_command).
THEOREM LogIsNumbered == Spec => []EventsNumbered
  <1>1. Inv => EventsNumbered
    BY DEF Inv, CommandsInv, LogOK
  <1>. QED
    BY <1>1, PreviewInvariance, PTL

\* The dependency graph has no cycle, although the check for one reads it before
\* the write lock is held (dependency.create and the guarded UPDATE).
THEOREM GraphStaysAcyclic == Spec => []GraphAcyclic
  <1>1. Inv => GraphAcyclic
    BY DEF Inv, CommandsInv
  <1>. QED
    BY <1>1, PreviewInvariance, PTL

\* The dates that an apply writes are the reviewed ones (schedule.apply).
THEOREM AppliesAreReviewed == Spec => []ReviewedIsApplied
  <1>1. Inv => ReviewedIsApplied
    BY DEF Inv, CommandsInv, LogOK
  <1>. QED
    BY <1>1, PreviewInvariance, PTL

\* A command whose request ended between the record and the commit stays
\* unexecuted under its id (_idempotency_start answers for it).
THEOREM StrandedCommandsStay == Spec => StrandedForGood
  <1>1. Inv /\ [Next]_vars => [\A k \in Keys : Stranded(k) => Stranded(k)']_commandVars
    <2>. SUFFICES ASSUME Inv, [Next]_vars, ~UNCHANGED commandVars
                  PROVE  \A k \in Keys : Stranded(k) => Stranded(k)'
      OBVIOUS
    <2>1. CASE CommandsNext
      BY <2>1, StrandedStays DEF Inv
    <2>2. CASE PreviewNext
      <3>1. UNCHANGED <<records, req>>
        BY <2>2 DEF PreviewNext, Step, Open, LoadProject, TryCache, Wake, ReadTasks, Calculate,
            Cancel, OffersOnly, commandVars
      <3>. QED
        BY <3>1 DEF Stranded
    <2>. QED
      BY <2>1, <2>2 DEF Next, vars
  <1>. QED
    BY <1>1, PreviewInvariance, PTL DEF Spec, StrandedForGood

\* Of the previews of one key one at a time calculates (_schedule_preview_value).
THEOREM OneCalculates == Spec => []PreviewSingleFlight
  <1>1. Inv => PreviewSingleFlight
    <2>. SUFFICES ASSUME Inv, NEW p \in Previews, NEW q \in Previews, Calculating(p), Calculating(q),
                         preview[p].loaded = preview[q].loaded
                  PROVE  p = q
      BY DEF PreviewSingleFlight
    <2>1. /\ preview[p].object # 0 /\ preview[q].object # 0
          /\ KnowsItsObject(p) /\ KnowsItsObject(q)
      BY DEF Inv, PreviewsInv, UsersOK, KnowsItsObject, Calculating, Using
    <2>2. /\ [key |-> preview[p].loaded, object |-> preview[p].object] \in coordination
          /\ [key |-> preview[q].loaded, object |-> preview[q].object] \in coordination
      BY <2>1 DEF KnowsItsObject
    <2>3. preview[p].object = preview[q].object
      BY <2>2 DEF Inv, PreviewsInv, ObjectsOK
    <2>. QED
      BY <2>1, <2>3 DEF KnowsItsObject
  <1>. QED
    BY <1>1, PreviewInvariance, PTL

\* The cache keeps within its limit and holds no preview twice
\* (_schedule_preview_cache_get, _schedule_preview_cache_put).
THEOREM CacheStaysBounded == Spec => []PreviewCacheBounded
  <1>1. Inv => PreviewCacheBounded
    BY DEF Inv, CacheInv
  <1>. QED
    BY <1>1, PreviewInvariance, PTL

\* A coordination object that nobody uses is not kept (the finally clause of
\* _schedule_preview_value).
THEOREM ObjectsAreFreed == Spec => []CoordinationFreed
  <1>1. Inv => CoordinationFreed
    BY DEF Inv, PreviewsInv
  <1>. QED
    BY <1>1, PreviewInvariance, PTL
\* Every behaviour of the commands, beside any previews, has the effects of a list of
\* commands carried out one at a time, each begun once and its checks made on the
\* project as it is (execute_command, import_tasks, focus_command).
THEOREM CommandsAreAtomic == Spec => ImplementsAtomicCommands
  <1>1. Init => Atomic!AtomicInit
    BY CommandsInitAtomic DEF Init
  <1>2. Inv /\ [Next]_vars => [Atomic!AtomicNext]_<<Outcomes, AppliedKeys, tasks, edges, plan>>
    <2>. SUFFICES ASSUME Inv, [Next]_vars
                  PROVE  [Atomic!AtomicNext]_<<Outcomes, AppliedKeys, tasks, edges, plan>>
      OBVIOUS
    <2>1. CASE CommandsNext
      BY <2>1, CommandsStepAtomic DEF Inv
    <2>2. CASE PreviewNext \/ UNCHANGED vars
      <3>1. UNCHANGED <<records, req, events, tasks, edges, plan>>
        BY <2>2 DEF PreviewNext, Step, Open, LoadProject, TryCache, Wake, ReadTasks, Calculate,
            Cancel, OffersOnly, commandVars, vars
      <3>2. UNCHANGED <<Outcomes, AppliedKeys>>
        BY <3>1 DEF Outcomes, AppliedKeys, Outcome, Stranded
      <3>. QED
        BY <3>1, <3>2
    <2>. QED
      BY <2>1, <2>2 DEF Next
  <1>3. Inv /\ [Next]_vars =>
            [Atomic!AtomicNext]_<<[k \in Keys |-> Outcome(k)], [i \in DOMAIN events |-> events[i].key],
                                  Atomic!content>>
    BY <1>2 DEF Outcomes, AppliedKeys, Atomic!content
  <1>. QED
    BY <1>1, <1>3, PreviewInvariance, PTL DEF Spec, ImplementsAtomicCommands, Atomic!AtomicSpec
==============================================================================
