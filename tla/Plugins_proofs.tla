---------------------------- MODULE Plugins_proofs ----------------------------
(***************************************************************************)
(* Proofs about Plugins: types, tables of installed plugins, the schema    *)
(* that follows the statuses, and rows, memory and registry that agree.    *)
(* Four inductive invariants carry them: ServerInv (requests stay on the   *)
(* routes of their operations and know what they read), TablesInv,         *)
(* SchemaInv (an active plugin that the schema does not show yet has a     *)
(* rebuild or a request that owes one) and MemoryInv (what a request that  *)
(* works alone on a plugin has made of it at each of its phases).          *)
(*                                                                         *)
(* A step is taken apart once: Outcome says where each operation leaves    *)
(* the request that does it, Frame what it leaves alone.  The invariants   *)
(* are then proved from those, one step per operation.                     *)
(***************************************************************************)
EXTENDS Plugins, Integers, FiniteSetTheorems, SequenceTheorems,
        WellFoundedInduction, TLAPS

------------------------------------------------------------------------------
(* How often an entry is in a registry                                     *)

Places(s, e) == {i \in 1 .. Len(s) : s[i] = e}
Often(s, e) == Cardinality(Places(s, e))

\* A nonempty set of natural numbers has a least element.
LEMMA LeastNumber ==
  ASSUME NEW T \in SUBSET Nat, T # {}
  PROVE  \E n \in T : \A m \in T : n <= m
  <1>1. IsWellFoundedOn(OpToRel(<, Nat), Nat)
    BY NatLessThanWellFounded
  <1>2. PICK n \in T : \A m \in T : ~ (<<m, n>> \in OpToRel(<, Nat))
    BY <1>1, WFMin
  <1>3. \A m \in T : ~ (m < n)
    BY <1>2 DEF OpToRel
  <1> QED
    BY <1>3

\* A registry has finitely many places.
LEMMA FinitePlaces ==
  ASSUME NEW S, NEW s \in Seq(S), NEW e
  PROVE  /\ IsFiniteSet(Places(s, e)) /\ Often(s, e) \in Nat
         /\ Often(s, e) = 0 <=> \A i \in 1 .. Len(s) : s[i] # e
  <1>1. IsFiniteSet(1 .. Len(s))
    BY FS_Interval
  <1>2. IsFiniteSet(Places(s, e))
    BY <1>1, FS_Subset DEF Places
  <1>3. Often(s, e) = 0 <=> Places(s, e) = {}
    BY <1>2, FS_EmptySet DEF Often
  <1> QED
    BY <1>2, <1>3, FS_CardinalityType DEF Often, Places

\* Nothing is in an empty registry.
LEMMA NothingOften ==
  ASSUME NEW e
  PROVE  Often(<<>>, e) = 0
  <1>1. Places(<<>>, e) = {}
    BY DEF Places
  <1> QED
    BY <1>1, FS_EmptySet DEF Often

\* A push adds one place.
LEMMA PushCounts ==
  ASSUME NEW S, NEW s \in Seq(S), NEW x \in S, NEW e
  PROVE  Often(Append(s, x), e) = IF x = e THEN Often(s, e) + 1 ELSE Often(s, e)
  <1>1. /\ Len(s) \in Nat /\ Len(Append(s, x)) = Len(s) + 1
        /\ \A i \in 1 .. Len(s) : Append(s, x)[i] = s[i]
        /\ Append(s, x)[Len(s) + 1] = x
    OBVIOUS
  <1>2. CASE x = e
    <2>1. Places(Append(s, x), e) = Places(s, e) \cup {Len(s) + 1}
      BY <1>1, <1>2 DEF Places
    <2>2. Len(s) + 1 \notin Places(s, e)
      BY <1>1 DEF Places
    <2> QED
      BY <1>2, <2>1, <2>2, FinitePlaces, FS_AddElement DEF Often
  <1>3. CASE x # e
    <2>1. Places(Append(s, x), e) = Places(s, e)
      BY <1>1, <1>3 DEF Places
    <2> QED
      BY <1>3, <2>1 DEF Often
  <1> QED
    BY <1>2, <1>3

\* One step of the filter that takes the entries of p out
Keeping(p, s, kept, i) ==
    IF i = 0 THEN <<>>
    ELSE IF s[i][1] = p THEN kept[i - 1]
    ELSE Append(kept[i - 1], s[i])

Kept(p, s) == CHOOSE kept : kept = [i \in 0 .. Len(s) |-> Keeping(p, s, kept, i)]

LEMMA NotOfIs ==
  ASSUME NEW p, NEW s
  PROVE  NotOf(p, s) = Kept(p, s)[Len(s)]
  BY DEF NotOf, Kept, Keeping

\* The filter is well-defined.
LEMMA KeptIs ==
  ASSUME NEW p, NEW S, NEW s \in Seq(S)
  PROVE  Kept(p, s) = [i \in 0 .. Len(s) |-> Keeping(p, s, Kept(p, s), i)]
  <1> DEFINE Has(n) == \E f : f = [i \in 0 .. n |-> Keeping(p, s, f, i)]
             B == {n \in 0 .. Len(s) : ~ Has(n)}
  <1>1. Len(s) \in Nat
    OBVIOUS
  <1>2. ASSUME B # {} PROVE FALSE
    <2>1. B \in SUBSET Nat
      OBVIOUS
    <2>2. PICK n \in B : \A m \in B : n <= m
      <3> HIDE DEF B
      <3> QED
        BY <1>2, <2>1, LeastNumber
    <2>3. CASE n = 0
      <3> DEFINE f == [i \in 0 .. 0 |-> <<>>]
      <3>1. f = [i \in 0 .. 0 |-> Keeping(p, s, f, i)]
        BY DEF Keeping
      <3> QED
        BY <2>3, <3>1
    <2>4. CASE n # 0
      <3>1. n - 1 \in 0 .. Len(s) /\ n \in Nat
        BY <1>1, <2>4
      <3>2. Has(n - 1)
        BY <2>2, <3>1
      <3>3. PICK f : f = [i \in 0 .. n - 1 |-> Keeping(p, s, f, i)]
        BY <3>2
      <3> DEFINE g == [i \in 0 .. n |-> IF i < n THEN f[i] ELSE Keeping(p, s, f, n)]
      <3>4. ASSUME NEW i \in 0 .. n PROVE g[i] = Keeping(p, s, g, i)
        <4>1. CASE i = 0
          BY <2>4, <3>1, <3>3, <4>1 DEF Keeping
        <4>2. CASE i # 0
          <5>1. i - 1 \in 0 .. n - 1 /\ g[i - 1] = f[i - 1]
            BY <3>1, <4>2
          <5>2. Keeping(p, s, g, i) = Keeping(p, s, f, i)
            BY <4>2, <5>1 DEF Keeping
          <5>3. g[i] = Keeping(p, s, f, i)
            BY <3>1, <3>3
          <5> QED
            BY <5>2, <5>3
        <4> QED
          BY <4>1, <4>2
      <3>5. g = [i \in 0 .. n |-> Keeping(p, s, g, i)]
        BY <3>4
      <3> QED
        BY <3>5
    <2> QED
      BY <2>3, <2>4
  <1>3. Has(Len(s))
    BY <1>1, <1>2
  <1> QED
    BY <1>3 DEF Kept

\* What the filter leaves: nothing of p, and the others as often as before.
LEMMA FilterCounts ==
  ASSUME NEW p, NEW s \in Seq(Entry)
  PROVE  /\ NotOf(p, s) \in Seq(Entry)
         /\ \A e \in Entry : Often(NotOf(p, s), e) =
                                IF e[1] = p THEN 0 ELSE Often(s, e)
  <1> DEFINE K == Kept(p, s)
             Upto(n, e) == {i \in 1 .. n : s[i] = e}
             Right(n) == /\ K[n] \in Seq(Entry)
                         /\ \A e \in Entry : Often(K[n], e) =
                               IF e[1] = p THEN 0 ELSE Cardinality(Upto(n, e))
             B == {n \in 0 .. Len(s) : ~ Right(n)}
  <1>1. Len(s) \in Nat
    OBVIOUS
  <1>2. \A n \in 0 .. Len(s) : K[n] = Keeping(p, s, K, n)
    BY KeptIs
  <1> HIDE DEF K
  <1>3. ASSUME B # {} PROVE FALSE
    <2>1. B \in SUBSET Nat
      OBVIOUS
    <2>2. PICK n \in B : \A m \in B : n <= m
      <3> HIDE DEF B
      <3> QED
        BY <1>3, <2>1, LeastNumber
    <2>3. CASE n = 0
      <3>1. K[0] = <<>>
        BY <1>1, <1>2 DEF Keeping
      <3>2. \A e \in Entry : Upto(0, e) = {} /\ Places(<<>>, e) = {}
        BY DEF Places
      <3>3. \A e \in Entry : Cardinality(Upto(0, e)) = 0 /\ Often(<<>>, e) = 0
        BY <3>2, FS_EmptySet DEF Often
      <3>4. <<>> \in Seq(Entry)
        OBVIOUS
      <3>5. Right(0)
        BY <3>1, <3>3, <3>4
      <3> HIDE DEF Right
      <3> QED
        BY <2>2, <2>3, <3>5
    <2>4. CASE n # 0
      <3>1. n - 1 \in 0 .. Len(s) /\ n \in 1 .. Len(s) /\ n \in Nat
        BY <1>1, <2>4
      <3>2. Right(n - 1)
        <4> HIDE DEF Right
        <4> QED
          BY <2>2, <3>1
      <3>3. K[n] = IF s[n][1] = p THEN K[n - 1] ELSE Append(K[n - 1], s[n])
        BY <1>2, <2>4 DEF Keeping
      <3>4. s[n] \in Entry
        BY <3>1
      <3>5. K[n] \in Seq(Entry)
        BY <3>2, <3>3, <3>4
      <3>6. ASSUME NEW e \in Entry
            PROVE  Often(K[n], e) = IF e[1] = p THEN 0 ELSE Cardinality(Upto(n, e))
        <4>1. IsFiniteSet(Upto(n - 1, e))
          <5>1. IsFiniteSet(1 .. n - 1)
            BY <3>1, FS_Interval
          <5> QED
            BY <5>1, FS_Subset
        <4>2. CASE s[n] = e
          <5>1. Upto(n, e) = Upto(n - 1, e) \cup {n} /\ n \notin Upto(n - 1, e)
            BY <3>1, <4>2
          <5>2. Cardinality(Upto(n, e)) = Cardinality(Upto(n - 1, e)) + 1
            <6> HIDE DEF Upto
            <6> QED
              BY <4>1, <5>1, FS_AddElement
          <5>3. e[1] # p => Often(K[n], e) = Often(K[n - 1], e) + 1
            BY <3>2, <3>3, <3>4, <4>2, PushCounts
          <5>4. e[1] = p => K[n] = K[n - 1]
            BY <3>3, <4>2
          <5> QED
            BY <3>2, <5>2, <5>3, <5>4
        <4>3. CASE s[n] # e
          <5>1. Upto(n, e) = Upto(n - 1, e)
            BY <3>1, <4>3
          <5>2. Often(K[n], e) = Often(K[n - 1], e)
            BY <3>2, <3>3, <3>4, <4>3, PushCounts
          <5> QED
            BY <3>2, <5>1, <5>2
        <4> QED
          BY <4>2, <4>3
      <3>7. Right(n)
        BY <3>5, <3>6
      <3> QED
        BY <3>7
    <2> QED
      BY <2>3, <2>4
  <1>4. Right(Len(s))
    <2> HIDE DEF Right
    <2> QED
      BY <1>1, <1>3
  <1>5. \A e : Upto(Len(s), e) = Places(s, e)
    BY DEF Places
  <1>6. NotOf(p, s) = K[Len(s)]
    BY NotOfIs DEF K
  <1> QED
    BY <1>4, <1>5, <1>6 DEF Often
\* An entry is in a registry where it is found.
LEMMA RangeIs ==
  ASSUME NEW S, NEW s \in Seq(S)
  PROVE  /\ Range(s) \subseteq S
         /\ \A e : e \in Range(s) <=> Often(s, e) # 0
  <1>1. DOMAIN s = 1 .. Len(s) /\ \A i \in 1 .. Len(s) : s[i] \in S
    OBVIOUS
  <1>2. \A e : Often(s, e) = 0 <=> \A i \in 1 .. Len(s) : s[i] # e
    BY FinitePlaces
  <1> QED
    BY <1>1, <1>2 DEF Range

\* What a push adds and what taking the head removes
LEMMA RangePush ==
  ASSUME NEW S, NEW s \in Seq(S), NEW x \in S
  PROVE  /\ Append(s, x) \in Seq(S) /\ Append(s, x) # <<>>
         /\ Range(Append(s, x)) = Range(s) \cup {x}
         /\ s # <<>> => Head(Append(s, x)) = Head(s)
  <1>1. /\ Len(s) \in Nat /\ Append(s, x) \in Seq(S)
        /\ Len(Append(s, x)) = Len(s) + 1
        /\ \A i \in 1 .. Len(s) : Append(s, x)[i] = s[i]
        /\ Append(s, x)[Len(s) + 1] = x
    OBVIOUS
  <1>2. DOMAIN s = 1 .. Len(s) /\ DOMAIN Append(s, x) = 1 .. Len(s) + 1
    BY <1>1
  <1>3. Range(Append(s, x)) = Range(s) \cup {x}
    BY <1>1, <1>2 DEF Range
  <1>4. Append(s, x) # <<>>
    BY <1>1
  <1>5. s # <<>> => Head(Append(s, x)) = Head(s)
    BY <1>1
  <1> QED
    BY <1>1, <1>3, <1>4, <1>5

LEMMA RangeTail ==
  ASSUME NEW S, NEW s \in Seq(S), s # <<>>
  PROVE  /\ Tail(s) \in Seq(S) /\ Head(s) \in S
         /\ Range(s) = Range(Tail(s)) \cup {Head(s)}
  <1>1. /\ Len(s) \in Nat /\ Len(s) >= 1 /\ Tail(s) \in Seq(S)
        /\ Len(Tail(s)) = Len(s) - 1 /\ Head(s) = s[1] /\ Head(s) \in S
        /\ \A i \in 1 .. Len(s) - 1 : Tail(s)[i] = s[i + 1]
    OBVIOUS
  <1>2. DOMAIN s = 1 .. Len(s) /\ DOMAIN Tail(s) = 1 .. Len(s) - 1
    BY <1>1
  <1>3. Range(s) \subseteq Range(Tail(s)) \cup {Head(s)}
    <2> SUFFICES ASSUME NEW i \in 1 .. Len(s)
                 PROVE  s[i] \in Range(Tail(s)) \cup {Head(s)}
      BY <1>2 DEF Range
    <2>1. CASE i = 1
      BY <1>1, <2>1
    <2>2. CASE i # 1
      <3>1. i - 1 \in 1 .. Len(s) - 1 /\ Tail(s)[i - 1] = s[i]
        BY <1>1, <2>2
      <3> QED
        BY <1>2, <3>1 DEF Range
    <2> QED
      BY <2>1, <2>2
  <1>4. Range(Tail(s)) \cup {Head(s)} \subseteq Range(s)
    <2>1. s[1] \in Range(s)
      BY <1>1, <1>2 DEF Range
    <2>2. ASSUME NEW i \in 1 .. Len(s) - 1 PROVE Tail(s)[i] \in Range(s)
      <3>1. i + 1 \in 1 .. Len(s) /\ Tail(s)[i] = s[i + 1]
        BY <1>1
      <3> QED
        BY <1>2, <3>1 DEF Range
    <2> QED
      BY <1>1, <1>2, <2>1, <2>2 DEF Range
  <1> QED
    BY <1>1, <1>3, <1>4

\* A sequence of all elements of a finite set has each one once.
LEMMA EachOnce ==
  ASSUME NEW S, IsFiniteSet(S), NEW s \in SetToSeqs(S)
  PROVE  /\ s \in Seq(S) /\ Range(s) = S
         /\ \A e : Often(s, e) = IF e \in S THEN 1 ELSE 0
  <1> DEFINE n == Cardinality(S)
  <1>1. n \in Nat
    BY FS_CardinalityType
  <1>2. /\ s \in [1 .. n -> S]
        /\ \A i, j \in 1 .. n : i # j => s[i] # s[j]
    BY DEF SetToSeqs
  <1>3. s \in Seq(S) /\ Len(s) = n /\ DOMAIN s = 1 .. n
    BY <1>1, <1>2
  <1>4. s \in Injection(1 .. n, S)
    BY <1>2 DEF Injection, IsInjective
  <1>5. Cardinality(1 .. n) = n
    <2>1. Cardinality(1 .. n) = IF 1 > n THEN 0 ELSE n - 1 + 1
      BY <1>1, FS_Interval
    <2> HIDE DEF n
    <2> QED
      BY <1>1, <2>1
  <1>6. s \in Surjection(1 .. n, S)
    BY <1>4, <1>5, FS_Injection
  <1>7. Range(s) = S
    BY <1>2, <1>6 DEF Surjection, Range
  <1>8. ASSUME NEW e PROVE Often(s, e) = IF e \in S THEN 1 ELSE 0
    <2>1. CASE e \in S
      <3>1. PICK i \in 1 .. n : s[i] = e
        BY <1>6, <2>1 DEF Surjection
      <3>2. Places(s, e) = {i}
        BY <1>2, <1>3, <3>1 DEF Places
      <3>3. Cardinality({i}) = 1
        BY FS_Singleton
      <3> QED
        BY <2>1, <3>2, <3>3 DEF Often
    <2>2. CASE e \notin S
      BY <1>3, <1>7, <2>2, RangeIs
    <2> QED
      BY <2>1, <2>2
  <1> QED
    BY <1>3, <1>7, <1>8

------------------------------------------------------------------------------
(* The inductive invariant                                                 *)

LoadPhases == {"load", "read", "extend", "loaded"}
RunPhases == {"activate", "starting", "activated"}
StopPhases == {"deactivate", "stopping", "deactivated"}
LastPhases == {"rebuild", "wait", "rebuilt"}

\* What a request that is in a lifecycle operation, or on its way out of it, does
Starting(q) == q.kind \in {"update", "upload"} /\ q.on
Stopping(q) ==
    \/ q.kind = "update" /\ ~q.on /\ q.next = "done"
    \/ q.kind = "upload" /\ q.next = "extract"

\* Where a request of a kind can be, and where it returns to
Route(q) ==
    \/ q.kind = "install" /\ q.pc \in {"mark", "install"} /\ q.next = "done"
    \/ q.kind = "update" /\ q.pc \in {"check", "write"} /\ q.next = "done"
    \/ q.kind = "upload" /\ q.pc \in {"extract", "record"} /\ q.next = "done"
    \/ q.kind = "delete" /\ q.pc \in {"uninstall"} \cup LastPhases
       /\ q.next = "directory"
    \/ q.kind = "delete" /\ q.pc \in {"directory", "delete"} /\ q.next = "done"
    \/ Stopping(q) /\ q.pc \in StopPhases \cup LastPhases
    \/ Starting(q) /\ q.pc \in LoadPhases /\ q.next = "done"
    \/ Starting(q) /\ q.pc \in RunPhases \cup LastPhases
       /\ q.next \in {"activate", "done"}

\* What a request knows: the row it read is there until it is deleted, under
\* another plugin id only when an update wrote that, and so is the object it
\* holds until that leaves the map.
Knows(q) ==
    /\ q.kind = "delete" => q.existed
    /\ q.at # None => row[q.at] # None
    /\ q.kind # "update" /\ q.at \notin {None, q.plugin} => q.at \in excused
    /\ q.pc \in {"extend", "starting", "stopping"} /\ ~q.stale =>
          loaded[q.plugin] # None

\* A process that has ended has nothing in memory.
Down ==
    /\ reqs = [r \in Requests |-> None]
    /\ loaded = [p \in PluginIds |-> None]
    /\ registry = <<>>
    /\ rebuild = NoRebuild
    /\ missed = FALSE

\* Requests about p that have not overlapped
Alone(p) == p \notin overlapped => \A r, s \in Working(p) : r = s

\* A rebuild that imports the types of a plugin has its extension to register.
RebuildInv == rebuild.pc = "types" => rebuild.todo # <<>>

ServerInv ==
    /\ TypeOK
    /\ IsFiniteSet({p \in PluginIds : row[p] # None})
    /\ \A r \in Requests : reqs[r] # None => Route(reqs[r]) /\ Knows(reqs[r])
    /\ \A p \in PluginIds : Alone(p)
    /\ ~up => Down
    /\ RebuildInv

\* An installed plugin has its tables, or a request is about to create them
\* or to delete the row.
Placed(p) ==
    row[p] # None /\ row[p].installed =>
        \/ p \in tables
        \/ \E r \in Working(p) :
              \/ reqs[r].pc = "install"
              \/ /\ reqs[r].kind = "delete" /\ reqs[r].pc # "uninstall"
                 /\ reqs[r].at = p

TablesInv == \A p \in PluginIds \ incomplete : Placed(p)

\* A request that will ask for a rebuild, unless it fails
Owing(q) == q.pc \in {"extend", "loaded", "activate", "starting", "activated",
                      "deactivated", "rebuild"}

Owed(p) == \E r \in Working(p) : Owing(reqs[r])

\* The extensions of a loaded plugin are in the registry, up to those that a
\* request is about to push.
Filled(p) ==
    loaded[p] # None =>
        \/ Of(p) \subseteq Range(registry)
        \/ \E r \in Working(p) :
              /\ reqs[r].pc = "extend"
              /\ \A x \in Extensions \ reqs[r].left : <<p, x>> \in Range(registry)

\* The schema offers what p has, or the rebuild in flight will.
Followed(p) ==
    /\ rebuild.pc = "off" /\ Active(p) => Of(p) \subseteq offered
    /\ rebuild.pc \in {"loop", "types"} /\ Active(p) =>
          Of(p) \subseteq builder \cup Range(rebuild.todo)

SchemaInv ==
    \A p \in PluginIds \ excused :
        Filled(p) /\ (~missed /\ ~Owed(p) => Followed(p))

\* The row and the memory agree on whether p is active.
On(p) == row[p] # None /\ row[p].activated
Agree(p) == Active(p) <=> On(p)

\* What a request that works alone on p has made of it at each phase
Phase(q, p) ==
    /\ q.kind \in {"upload", "delete"} /\ q.existed => q.at = p
    /\ q.pc \in {"mark", "install", "check", "write"} => Agree(p)
    /\ q.pc = "check" => q.at # p
    /\ q.pc = "write" /\ q.at = p => (q.changed <=> ~ (On(p) <=> q.on))
    /\ q.pc \in {"extract", "record"} => ~Active(p) /\ ~On(p)
    /\ q.pc = "deactivate" => Active(p)
    /\ q.pc = "deactivated" => ~Active(p)
    /\ Stopping(q) /\ q.pc \in LastPhases => ~Active(p) /\ ~On(p)
    /\ q.pc \in LoadPhases \cup RunPhases => row[p] # None
    /\ q.pc = "read" => loaded[p] = None /\ p \in files
    /\ q.pc \in {"extend", "starting", "stopping"} => ~q.stale
    /\ q.pc = "activated" => Active(p)
    /\ Starting(q) /\ ~Stopping(q) /\ q.pc \in LastPhases => Active(p) /\ On(p)
    /\ q.kind = "delete" /\ q.pc # "uninstall" => loaded[p] = None

\* How often an extension of p is in the registry
Due(p, x) ==
    IF loaded[p] = None \/ \E r \in Working(p) :
                              reqs[r].pc = "extend" /\ x \in reqs[r].left
    THEN 0 ELSE 1

PluginInv(p) ==
    /\ up /\ Working(p) = {} => Agree(p)
    /\ loaded[p] # None => p \in files
    /\ \A r \in Working(p) : Phase(reqs[r], p)
    /\ \A x \in Extensions : Often(registry, <<p, x>>) = Due(p, x)

MemoryInv == \A p \in PluginIds \ (excused \cup overlapped) : PluginInv(p)

------------------------------------------------------------------------------
(* What a step of a request does to the requests                           *)

\* Two moments of one request; an update forgets the row once it is written.
Kin(q, w) ==
    /\ w.kind = q.kind /\ w.plugin = q.plugin /\ w.on = q.on
    /\ w.existed = q.existed
    /\ w.at = q.at \/ (q.kind = "update" /\ w.at = None)

\* Another request, which may lose the object or the row that it knows
Like(q, w) ==
    /\ w # None /\ w \in Request
    /\ w.kind = q.kind /\ w.plugin = q.plugin /\ w.on = q.on
    /\ w.existed = q.existed /\ w.pc = q.pc /\ w.next = q.next
    /\ w.left = q.left /\ w.status = q.status /\ w.changed = q.changed
    /\ q.stale => w.stale

Typed == reqs' \in [Requests -> Request \cup {None}]

OthersStay(r) == \A s \in Requests \ {r} : reqs'[s] = reqs[s]

\* The requests that work on the plugin of r lose the object.
OthersStale(r) ==
    \A s \in Requests \ {r} :
        IF s \in Working(reqs[r].plugin)
        THEN Like(reqs[s], reqs'[s]) /\ reqs'[s].stale /\ reqs'[s].at = reqs[s].at
        ELSE reqs'[s] = reqs[s]

\* The requests that know a row follow it.
OthersFollow(r, from, to) ==
    \A s \in Requests \ {r} :
        IF reqs[s] # None /\ from # None /\ reqs[s].at = from
        THEN /\ Like(reqs[s], reqs'[s]) /\ reqs'[s].stale = reqs[s].stale
             /\ reqs'[s].at = to
        ELSE reqs'[s] = reqs[s]

Left(r) == Typed /\ reqs'[r] = None /\ OthersStay(r)

Now(r, pc, next, left, status, stale) ==
    /\ Typed
    /\ reqs'[r] # None /\ reqs'[r] \in Request /\ Kin(reqs[r], reqs'[r])
    /\ reqs'[r].pc = pc /\ reqs'[r].next = next /\ reqs'[r].left = left
    /\ reqs'[r].status = status /\ reqs'[r].stale = stale

Moved(r, pc, next, left, status, stale) ==
    Now(r, pc, next, left, status, stale) /\ OthersStay(r)

LEMMA Ends ==
  ASSUME TypeOK, NEW r \in Requests, End(r)
  PROVE  Left(r)
  BY DEF TypeOK, End, Left, Typed, OthersStay

LEMMA Goes ==
  ASSUME TypeOK, NEW r \in Requests, reqs[r] # None, NEW pc \in Phases, Goto(r, pc)
  PROVE  Moved(r, pc, reqs[r].next, reqs[r].left, reqs[r].status, reqs[r].stale)
  <1>1. reqs[r] \in Request
    BY DEF TypeOK
  <1>2. reqs' = [reqs EXCEPT ![r] = [reqs[r] EXCEPT !.pc = pc]]
    BY DEF Goto
  <1>3. [reqs[r] EXCEPT !.pc = pc] \in Request
    BY <1>1 DEF Request
  <1>4. /\ Typed /\ OthersStay(r) /\ reqs'[r] = [reqs[r] EXCEPT !.pc = pc]
    BY <1>2, <1>3 DEF TypeOK, Typed, OthersStay
  <1>5. reqs'[r] # None
    BY <1>3, <1>4, NoneAssumption
  <1>6. /\ Kin(reqs[r], [reqs[r] EXCEPT !.pc = pc])
        /\ [reqs[r] EXCEPT !.pc = pc].pc = pc
        /\ [reqs[r] EXCEPT !.pc = pc].next = reqs[r].next
        /\ [reqs[r] EXCEPT !.pc = pc].left = reqs[r].left
        /\ [reqs[r] EXCEPT !.pc = pc].status = reqs[r].status
        /\ [reqs[r] EXCEPT !.pc = pc].stale = reqs[r].stale
    BY <1>1 DEF Request, Kin
  <1> QED
    BY <1>3, <1>4, <1>5, <1>6 DEF Moved, Now

LEMMA Continues ==
  ASSUME TypeOK, NEW r \in Requests, reqs[r] # None, Continue(r)
  PROVE  IF reqs[r].next = "done" THEN Left(r)
         ELSE Moved(r, reqs[r].next, "done", reqs[r].left, reqs[r].status,
                    reqs[r].stale)
  <1>1. CASE reqs[r].next = "done"
    BY <1>1, Ends DEF Continue
  <1>2. CASE reqs[r].next # "done"
    <2> DEFINE w == [reqs[r] EXCEPT !.pc = reqs[r].next, !.next = "done"]
    <2>1. reqs[r] \in Request
      BY DEF TypeOK
    <2>2. reqs' = [reqs EXCEPT ![r] = w]
      BY <1>2 DEF Continue
    <2>3. w \in Request
      BY <1>2, <2>1 DEF Request, Phases
    <2>4. /\ Kin(reqs[r], w) /\ w.pc = reqs[r].next /\ w.next = "done"
          /\ w.left = reqs[r].left /\ w.status = reqs[r].status
          /\ w.stale = reqs[r].stale
      BY <2>1 DEF Request, Kin
    <2> HIDE DEF w
    <2>5. Typed /\ OthersStay(r) /\ reqs'[r] = w
      BY <2>2, <2>3 DEF TypeOK, Typed, OthersStay
    <2>6. w # None
      BY <2>3, NoneAssumption
    <2> QED
      BY <1>2, <2>3, <2>4, <2>5, <2>6 DEF Moved, Now
  <1> QED
    BY <1>1, <1>2

\* The requests once the object of p has left the map
LEMMA Staling ==
  ASSUME TypeOK, NEW p
  PROVE  /\ Stale(p) \in [Requests -> Request \cup {None}]
         /\ \A s \in Requests :
               IF s \in Working(p)
               THEN /\ Like(reqs[s], Stale(p)[s])
                    /\ Stale(p)[s] = [reqs[s] EXCEPT !.stale = TRUE]
                    /\ Stale(p)[s].stale /\ Stale(p)[s].at = reqs[s].at
               ELSE Stale(p)[s] = reqs[s]
  <1>1. ASSUME NEW s \in Requests, s \in Working(p)
        PROVE  /\ Like(reqs[s], [reqs[s] EXCEPT !.stale = TRUE])
               /\ [reqs[s] EXCEPT !.stale = TRUE].stale
               /\ [reqs[s] EXCEPT !.stale = TRUE].at = reqs[s].at
    <2>1. reqs[s] \in Request
      BY <1>1 DEF Working, TypeOK
    <2>2. [reqs[s] EXCEPT !.stale = TRUE] \in Request
      BY <2>1 DEF Request
    <2>3. [reqs[s] EXCEPT !.stale = TRUE] # None
      BY <2>2, NoneAssumption
    <2> QED
      BY <2>1, <2>2, <2>3 DEF Request, Like
  <1>2. \A s \in Requests :
           Stale(p)[s] = IF s \in Working(p) THEN [reqs[s] EXCEPT !.stale = TRUE]
                         ELSE reqs[s]
    BY DEF Stale
  <1>3. \A s \in Requests : Stale(p)[s] \in Request \cup {None}
    BY <1>1, <1>2 DEF TypeOK, Like
  <1>4. Stale(p) \in [Requests -> Request \cup {None}]
    BY <1>3 DEF Stale
  <1> QED
    BY <1>1, <1>2, <1>4

\* The requests once a row has moved
LEMMA Following ==
  ASSUME TypeOK, NEW from \in PluginIds, NEW to \in PluginIds \cup {None}
  PROVE  /\ Follow(from, to) \in [Requests -> Request \cup {None}]
         /\ \A s \in Requests :
               IF reqs[s] # None /\ reqs[s].at = from
               THEN /\ Like(reqs[s], Follow(from, to)[s])
                    /\ Follow(from, to)[s].stale = reqs[s].stale
                    /\ Follow(from, to)[s].at = to
               ELSE Follow(from, to)[s] = reqs[s]
  <1>1. ASSUME NEW s \in Requests, reqs[s] # None
        PROVE  /\ Like(reqs[s], [reqs[s] EXCEPT !.at = to])
               /\ [reqs[s] EXCEPT !.at = to].stale = reqs[s].stale
               /\ [reqs[s] EXCEPT !.at = to].at = to
    <2>1. reqs[s] \in Request
      BY <1>1 DEF TypeOK
    <2>2. [reqs[s] EXCEPT !.at = to] \in Request
      BY <2>1 DEF Request
    <2>3. [reqs[s] EXCEPT !.at = to] # None
      BY <2>2, NoneAssumption
    <2> QED
      BY <2>1, <2>2, <2>3 DEF Request, Like
  <1>2. \A s \in Requests :
           Follow(from, to)[s] = IF reqs[s] # None /\ reqs[s].at = from
                                 THEN [reqs[s] EXCEPT !.at = to] ELSE reqs[s]
    BY DEF Follow
  <1>3. \A s \in Requests : Follow(from, to)[s] \in Request \cup {None}
    BY <1>1, <1>2 DEF TypeOK, Like
  <1>4. Follow(from, to) \in [Requests -> Request \cup {None}]
    BY <1>3 DEF Follow
  <1> QED
    BY <1>1, <1>2, <1>4

\* What an uninstalled plugin leaves
Unloads(p, at) ==
    /\ p \in files
    /\ tables' = IF loaded[p] = None THEN tables ELSE tables \ {p}
    /\ incomplete' = IF loaded[p] # None /\ at # p
                     THEN incomplete \cup {p} ELSE incomplete
    /\ RemoveFromRegistry(p)
    /\ loaded' = [loaded EXCEPT ![p] = None]
    /\ UNCHANGED <<excused, overlapped, faults>>

\* It cannot be uninstalled.
NotUninstalled(p) ==
    /\ UNCHANGED <<tables, Memory, rebuild>>
    /\ Fault(p) \/ (p \notin files /\ UNCHANGED History)

\* Where each operation leaves the request that does it
Outcome(r) ==
    LET q == reqs[r]
        To(pc) == Moved(r, pc, q.next, q.left, q.status, q.stale)
        Back == IF q.next = "done" THEN Left(r)
                ELSE Moved(r, q.next, "done", q.left, q.status, q.stale) IN
    /\ Mark(r) => To("install")
    /\ Install(r) => Left(r)
    /\ Check(r) => To("write")
    /\ Clash(r) => Left(r)
    /\ Write(r) =>
          /\ OthersFollow(r, q.at, q.plugin)
          /\ IF q.changed
             THEN /\ Now(r, IF ~q.on THEN "deactivate"
                            ELSE IF loaded[q.plugin] = None THEN "load"
                            ELSE "activate", q.next, q.left, q.status, q.stale)
                  /\ reqs'[r].at = None
             ELSE Typed /\ reqs'[r] = None
    /\ Extract(r) => To("record")
    /\ Record(r) => IF q.on /\ q.existed THEN To("load") ELSE Left(r)
    /\ RemoveDirectory(r) => \/ To("delete") /\ UNCHANGED History
                             \/ /\ Left(r) /\ q.plugin \in excused'
                                /\ q.plugin \in incomplete'
    /\ Delete(r) => /\ Typed /\ reqs'[r] = None
                    /\ OthersFollow(r, q.at, None)
    /\ Load(r) => To(IF loaded[q.plugin] = None /\ q.plugin \in files
                     THEN "read" ELSE "activate")
    /\ Read(r) => /\ Now(r, "extend", q.next, Extensions, StatusOf(q.plugin), FALSE)
                  /\ OthersStale(r)
    /\ Extend(r) => \E x \in q.left :
                        /\ Moved(r, IF q.left \ {x} = {} THEN "loaded" ELSE "extend",
                                 q.next, q.left \ {x}, q.status, q.stale)
                        /\ registry' = Append(registry, <<q.plugin, x>>)
    /\ ExtendFails(r) => /\ Now(r, "activate", q.next, {}, q.status, TRUE)
                         /\ OthersStale(r)
    /\ Loaded(r) => Moved(r, "activate",
                          IF q.status = "ACTIVE" THEN "activate" ELSE "done",
                          q.left, q.status, q.stale)
    /\ Activate(r) => IF loaded[q.plugin] = None THEN Back
                      ELSE Moved(r, "starting", q.next, q.left, q.status, FALSE)
    /\ SetActive(r) => \/ To("activated") /\ UNCHANGED History
                       \/ Back /\ q.plugin \in excused'
    /\ StoreActive(r) => To("rebuild")
    /\ Deactivate(r) => IF Active(q.plugin)
                        THEN Moved(r, "stopping", q.next, q.left, q.status, FALSE)
                        ELSE Back
    /\ SetInactive(r) => \/ To("deactivated") /\ UNCHANGED History
                         \/ Back /\ q.plugin \in excused'
    /\ StoreInactive(r) => To("rebuild")
    /\ Uninstall(r) => \/ /\ Now(r, "rebuild", q.next, q.left, q.status, TRUE)
                          /\ OthersStale(r) /\ Unloads(q.plugin, q.at)
                       \/ Back /\ NotUninstalled(q.plugin)
    /\ TriggerRebuild(r) => To(IF rebuild.pc = "off" THEN "wait" ELSE "rebuilt")
    /\ Rebuilt(r) => Back

\* What a request does at each phase, and where it returns to
LEMMA Routes ==
  ASSUME NEW q, Route(q)
  PROVE  /\ q.pc \in {"mark", "install"} => q.kind = "install" /\ q.next = "done"
         /\ q.pc \in {"check", "write"} => q.kind = "update" /\ q.next = "done"
         /\ q.pc \in {"extract", "record"} => q.kind = "upload" /\ q.next = "done"
         /\ q.pc = "uninstall" => q.kind = "delete" /\ q.next = "directory"
         /\ q.pc \in {"directory", "delete"} => q.kind = "delete" /\ q.next = "done"
         /\ q.pc \in LoadPhases => Starting(q) /\ q.next = "done"
         /\ q.pc \in RunPhases => Starting(q) /\ q.next \in {"activate", "done"}
         /\ q.pc \in StopPhases => Stopping(q)
         /\ q.kind = "install" => q.pc \in {"mark", "install"}
         /\ q.kind = "delete" => q.pc \in {"uninstall", "directory", "delete"} \cup LastPhases
         /\ q.pc \in LastPhases =>
               \/ q.kind = "delete" /\ q.next = "directory"
               \/ Stopping(q)
               \/ Starting(q) /\ q.next \in {"activate", "done"}
  BY DEF Route, Starting, Stopping, LoadPhases, RunPhases, StopPhases, LastPhases

\* An assignment to one request
LEMMA Edits ==
  ASSUME TypeOK, NEW r \in Requests, NEW w \in Request, Kin(reqs[r], w),
         reqs' = [reqs EXCEPT ![r] = w]
  PROVE  Moved(r, w.pc, w.next, w.left, w.status, w.stale)
  <1>1. Typed /\ OthersStay(r) /\ reqs'[r] = w
    BY DEF TypeOK, Typed, OthersStay
  <1>2. w # None
    BY NoneAssumption
  <1> QED
    BY <1>1, <1>2 DEF Moved, Now

LEMMA Outcomes ==
  ASSUME TypeOK, NEW r \in Requests, reqs[r] # None, Route(reqs[r])
  PROVE  Outcome(r)
  <1> DEFINE q == reqs[r]
             To(pc) == Moved(r, pc, q.next, q.left, q.status, q.stale)
             Back == IF q.next = "done" THEN Left(r)
                     ELSE Moved(r, q.next, "done", q.left, q.status, q.stale)
  <1>1. q \in Request /\ q.plugin \in PluginIds /\ r \in Working(q.plugin)
    BY DEF TypeOK, Request, Working
  <1>2. ASSUME NEW pc \in Phases, Goto(r, pc) PROVE To(pc)
    BY <1>2, Goes
  <1>3. Continue(r) => Back
    BY Continues
  <1>4. End(r) => Left(r)
    BY Ends
  <1>5. Install(r) => Left(r)
    BY <1>4 DEF Install
  <1>31. Mark(r) => To("install")
    BY <1>2 DEF Mark, Phases
  <1>32. Check(r) => To("write")
    BY <1>2 DEF Check, Phases
  <1>33. Clash(r) => Left(r)
    BY <1>4 DEF Clash
  <1>34. ASSUME NEW to \in PluginIds \cup {None}, NEW w \in Request \cup {None},
                \/ q.at = None /\ reqs' = [reqs EXCEPT ![r] = w]
                \/ q.at = to /\ reqs' = [reqs EXCEPT ![r] = w]
                \/ /\ q.at \in PluginIds
                   /\ reqs' = [Follow(q.at, to) EXCEPT ![r] = w]
         PROVE  Typed /\ reqs'[r] = w /\ OthersFollow(r, q.at, to)
    <2>1. CASE reqs' = [reqs EXCEPT ![r] = w] /\ (q.at = None \/ q.at = to)
      <3>1. Typed /\ reqs'[r] = w /\ OthersStay(r)
        BY <2>1 DEF TypeOK, Typed, OthersStay
      <3>2. ASSUME NEW s \in Requests \ {r}, reqs[s] # None
            PROVE  Like(reqs[s], reqs[s])
        BY <3>2 DEF TypeOK, Like
      <3> QED
        BY <2>1, <3>1, <3>2 DEF OthersStay, OthersFollow
    <2>2. CASE q.at \in PluginIds /\ reqs' = [Follow(q.at, to) EXCEPT ![r] = w]
      <3>1. /\ Follow(q.at, to) \in [Requests -> Request \cup {None}]
            /\ \A s \in Requests :
                  IF reqs[s] # None /\ reqs[s].at = q.at
                  THEN /\ Like(reqs[s], Follow(q.at, to)[s])
                       /\ Follow(q.at, to)[s].stale = reqs[s].stale
                       /\ Follow(q.at, to)[s].at = to
                  ELSE Follow(q.at, to)[s] = reqs[s]
        BY <2>2, Following
      <3>2. Typed /\ reqs'[r] = w
            /\ \A s \in Requests \ {r} : reqs'[s] = Follow(q.at, to)[s]
        BY <2>2, <3>1 DEF Typed
      <3>3. q.at # None
        BY <2>2, NoneAssumption
      <3> QED
        BY <3>1, <3>2, <3>3 DEF OthersFollow
    <2> QED
      BY <1>34, <2>1, <2>2
  <1>6. Write(r) =>
          /\ OthersFollow(r, q.at, q.plugin)
          /\ IF q.changed
             THEN /\ Now(r, IF ~q.on THEN "deactivate"
                            ELSE IF loaded[q.plugin] = None THEN "load"
                            ELSE "activate", q.next, q.left, q.status, q.stale)
                  /\ reqs'[r].at = None
             ELSE Typed /\ reqs'[r] = None
    <2> SUFFICES ASSUME Write(r)
                 PROVE  /\ OthersFollow(r, q.at, q.plugin)
                        /\ IF q.changed
                           THEN /\ Now(r, IF ~q.on THEN "deactivate"
                                          ELSE IF loaded[q.plugin] = None
                                          THEN "load" ELSE "activate",
                                       q.next, q.left, q.status, q.stale)
                                /\ reqs'[r].at = None
                           ELSE Typed /\ reqs'[r] = None
      OBVIOUS
    <2> DEFINE pc == IF ~q.on THEN "deactivate"
                     ELSE IF loaded[q.plugin] = None THEN "load" ELSE "activate"
               v == [q EXCEPT !.at = None, !.pc = pc]
               w == IF q.changed THEN v ELSE None
    <2>1. q.kind = "update"
      BY <1>1, Routes DEF Write, At
    <2>2. /\ v \in Request /\ Kin(q, v) /\ v.pc = pc /\ v.next = q.next
          /\ v.left = q.left /\ v.status = q.status /\ v.stale = q.stale
          /\ v.at = None
      BY <1>1, <2>1 DEF Request, Kin, Phases
    <2>3. w \in Request \cup {None}
      BY <2>2
    <2>4. reqs' = [(IF q.at \notin {None, q.plugin} THEN Follow(q.at, q.plugin)
                    ELSE reqs) EXCEPT ![r] = w]
      BY DEF Write
    <2>5. q.at \in PluginIds \cup {None}
      BY <1>1 DEF Request
    <2> HIDE DEF w, v
    <2>6. Typed /\ reqs'[r] = w /\ OthersFollow(r, q.at, q.plugin)
      BY <1>1, <1>34, <2>3, <2>4, <2>5
    <2>7. v # None
      BY <2>2, NoneAssumption
    <2> QED
      BY <2>2, <2>6, <2>7 DEF Now, w
  <1>35. Delete(r) => Typed /\ reqs'[r] = None /\ OthersFollow(r, q.at, None)
    <2>1. q.at \in PluginIds \cup {None}
      BY <1>1 DEF Request
    <2> QED
      BY <1>34, <2>1 DEF Delete
  <1>7. Extract(r) => To("record")
    BY <1>2 DEF Extract, Phases
  <1>8. Record(r) => IF q.on /\ q.existed THEN To("load") ELSE Left(r)
    BY <1>2, <1>4 DEF Record, Phases
  <1>9. RemoveDirectory(r) => \/ To("delete") /\ UNCHANGED History
                              \/ /\ Left(r) /\ q.plugin \in excused'
                                 /\ q.plugin \in incomplete'
    BY <1>2, <1>4 DEF RemoveDirectory, Phases
  <1>10. Load(r) => To(IF loaded[q.plugin] = None /\ q.plugin \in files
                       THEN "read" ELSE "activate")
    BY <1>2 DEF Load, Phases
  <1>11. Activate(r) => IF loaded[q.plugin] = None THEN Back
                        ELSE Moved(r, "starting", q.next, q.left, q.status, FALSE)
    <2> DEFINE w == [q EXCEPT !.pc = "starting", !.stale = FALSE]
    <2>1. /\ w \in Request /\ Kin(q, w) /\ w.pc = "starting" /\ w.next = q.next
          /\ w.left = q.left /\ w.status = q.status /\ w.stale = FALSE
      BY <1>1 DEF Request, Kin, Phases
    <2>2. Activate(r) /\ loaded[q.plugin] # None => reqs' = [reqs EXCEPT ![r] = w]
      BY DEF Activate
    <2> HIDE DEF w
    <2>3. Activate(r) /\ loaded[q.plugin] # None =>
            Moved(r, w.pc, w.next, w.left, w.status, w.stale)
      BY <2>1, <2>2, Edits
    <2>4. Activate(r) /\ loaded[q.plugin] = None => Back
      BY <1>3 DEF Activate
    <2> QED
      BY <2>1, <2>3, <2>4
  <1>12. SetActive(r) => \/ To("activated") /\ UNCHANGED History
                         \/ Back /\ q.plugin \in excused'
    BY <1>2, <1>3 DEF SetActive, Phases, Fault, Excuse
  <1>13. StoreActive(r) => To("rebuild")
    BY <1>2 DEF StoreActive, Phases
  <1>14. Deactivate(r) => IF Active(q.plugin)
                          THEN Moved(r, "stopping", q.next, q.left, q.status, FALSE)
                          ELSE Back
    <2> DEFINE w == [q EXCEPT !.pc = "stopping", !.stale = FALSE]
    <2>1. /\ w \in Request /\ Kin(q, w) /\ w.pc = "stopping" /\ w.next = q.next
          /\ w.left = q.left /\ w.status = q.status /\ w.stale = FALSE
      BY <1>1 DEF Request, Kin, Phases
    <2>2. Deactivate(r) /\ Active(q.plugin) => reqs' = [reqs EXCEPT ![r] = w]
      BY DEF Deactivate
    <2> HIDE DEF w
    <2>3. Deactivate(r) /\ Active(q.plugin) =>
            Moved(r, w.pc, w.next, w.left, w.status, w.stale)
      BY <2>1, <2>2, Edits
    <2>4. Deactivate(r) /\ ~Active(q.plugin) => Back
      BY <1>3 DEF Deactivate
    <2> QED
      BY <2>1, <2>3, <2>4
  <1>15. SetInactive(r) => \/ To("deactivated") /\ UNCHANGED History
                           \/ Back /\ q.plugin \in excused'
    BY <1>2, <1>3 DEF SetInactive, Phases, Fault, Excuse
  <1>16. StoreInactive(r) => To("rebuild")
    BY <1>2 DEF StoreInactive, Phases
  <1>17. TriggerRebuild(r) => To(IF rebuild.pc = "off" THEN "wait" ELSE "rebuilt")
    BY <1>2 DEF TriggerRebuild, Phases, MayRebuild
  <1>18. Rebuilt(r) => Back
    BY <1>3 DEF Rebuilt
  <1>19. Loaded(r) => Moved(r, "activate",
                            IF q.status = "ACTIVE" THEN "activate" ELSE "done",
                            q.left, q.status, q.stale)
    <2> DEFINE next == IF q.status = "ACTIVE" THEN "activate" ELSE "done"
               w == [q EXCEPT !.pc = "activate", !.next = next]
    <2>1. /\ w \in Request /\ Kin(q, w) /\ w.pc = "activate" /\ w.next = next
          /\ w.left = q.left /\ w.status = q.status /\ w.stale = q.stale
      BY <1>1 DEF Request, Kin, Phases
    <2>2. Loaded(r) => reqs' = [reqs EXCEPT ![r] = w]
      BY DEF Loaded
    <2> HIDE DEF w
    <2>3. Loaded(r) => Moved(r, w.pc, w.next, w.left, w.status, w.stale)
      BY <2>1, <2>2, Edits
    <2> QED
      BY <2>1, <2>3
  <1>20. Extend(r) => \E x \in q.left :
                        /\ Moved(r, IF q.left \ {x} = {} THEN "loaded" ELSE "extend",
                                 q.next, q.left \ {x}, q.status, q.stale)
                        /\ registry' = Append(registry, <<q.plugin, x>>)
    <2> SUFFICES ASSUME Extend(r)
                 PROVE  \E x \in q.left :
                          /\ Moved(r, IF q.left \ {x} = {} THEN "loaded" ELSE "extend",
                                   q.next, q.left \ {x}, q.status, q.stale)
                          /\ registry' = Append(registry, <<q.plugin, x>>)
      OBVIOUS
    <2>1. PICK x \in q.left :
            /\ registry' = Append(registry, <<q.plugin, x>>)
            /\ reqs' = [reqs EXCEPT ![r].left = q.left \ {x},
                                    ![r].pc = IF q.left \ {x} = {} THEN "loaded" ELSE @]
      BY DEF Extend
    <2> DEFINE pc == IF q.left \ {x} = {} THEN "loaded" ELSE "extend"
               w == [q EXCEPT !.left = q.left \ {x}, !.pc = pc]
    <2>2. q.pc = "extend"
      BY DEF Extend, At
    <2>3. /\ w \in Request /\ Kin(q, w) /\ w.pc = pc /\ w.next = q.next
          /\ w.left = q.left \ {x} /\ w.status = q.status /\ w.stale = q.stale
      BY <1>1 DEF Request, Kin, Phases
    <2>4. reqs' = [reqs EXCEPT ![r] = w]
      BY <2>1, <2>2
    <2> HIDE DEF w
    <2>5. Moved(r, w.pc, w.next, w.left, w.status, w.stale)
      BY <2>3, <2>4, Edits
    <2> QED
      BY <2>1, <2>3, <2>5
  <1>21. ASSUME NEW w \in Request, Kin(q, w),
                reqs' = [Stale(q.plugin) EXCEPT ![r] = w]
         PROVE  Now(r, w.pc, w.next, w.left, w.status, w.stale) /\ OthersStale(r)
    <2>1. Typed /\ reqs'[r] = w
          /\ \A s \in Requests \ {r} : reqs'[s] = Stale(q.plugin)[s]
      <3>1. Stale(q.plugin) \in [Requests -> Request \cup {None}]
        BY Staling
      <3> QED
        BY <1>21, <3>1 DEF Typed
    <2>2. w # None
      BY <1>21, NoneAssumption
    <2> QED
      BY <1>21, <2>1, <2>2, Staling DEF Now, OthersStale
  <1> DEFINE v == [q EXCEPT !.stale = TRUE]
  <1>22. /\ Stale(q.plugin)[r] = v /\ v \in Request /\ Kin(q, v)
         /\ v.pc = q.pc /\ v.next = q.next /\ v.left = q.left
         /\ v.status = q.status /\ v.stale = TRUE
    <2>1. Stale(q.plugin)[r] = v
      BY <1>1, Staling
    <2> QED
      BY <1>1, <2>1 DEF Request, Kin
  <1>23. StatusOf(q.plugin) \in Status
    BY DEF StatusOf, Status
  <1> HIDE DEF v
  <1>24. Read(r) => /\ Now(r, "extend", q.next, Extensions, StatusOf(q.plugin), FALSE)
                    /\ OthersStale(r)
    <2> DEFINE w == [v EXCEPT !.pc = "extend", !.left = Extensions,
                              !.status = StatusOf(q.plugin), !.stale = FALSE]
    <2>1. /\ w \in Request /\ Kin(q, w) /\ w.pc = "extend" /\ w.next = q.next
          /\ w.left = Extensions /\ w.status = StatusOf(q.plugin) /\ w.stale = FALSE
      BY <1>22, <1>23 DEF Request, Kin, Phases
    <2>2. Read(r) => reqs' = [Stale(q.plugin) EXCEPT ![r] = w]
      BY <1>22 DEF Read
    <2> HIDE DEF w
    <2>3. Read(r) => Now(r, w.pc, w.next, w.left, w.status, w.stale)
                     /\ OthersStale(r)
      BY <1>21, <2>1, <2>2
    <2> QED
      BY <2>1, <2>3
  <1>25. ExtendFails(r) => /\ Now(r, "activate", q.next, {}, q.status, TRUE)
                           /\ OthersStale(r)
    <2> DEFINE w == [v EXCEPT !.pc = "activate", !.left = {}]
    <2>1. /\ w \in Request /\ Kin(q, w) /\ w.pc = "activate" /\ w.next = q.next
          /\ w.left = {} /\ w.status = q.status /\ w.stale = TRUE
      BY <1>22 DEF Request, Kin, Phases
    <2>2. ExtendFails(r) => reqs' = [Stale(q.plugin) EXCEPT ![r] = w]
      BY <1>22 DEF ExtendFails
    <2> HIDE DEF w
    <2>3. ExtendFails(r) => Now(r, w.pc, w.next, w.left, w.status, w.stale)
                            /\ OthersStale(r)
      BY <1>21, <2>1, <2>2
    <2> QED
      BY <2>1, <2>3
  <1>26. Uninstall(r) => \/ /\ Now(r, "rebuild", q.next, q.left, q.status, TRUE)
                            /\ OthersStale(r) /\ Unloads(q.plugin, q.at)
                         \/ Back /\ NotUninstalled(q.plugin)
    <2> DEFINE w == [v EXCEPT !.pc = "rebuild"]
    <2>1. /\ w \in Request /\ Kin(q, w) /\ w.pc = "rebuild" /\ w.next = q.next
          /\ w.left = q.left /\ w.status = q.status /\ w.stale = TRUE
      BY <1>22 DEF Request, Kin, Phases
    <2>2. Uninstall(r) =>
            \/ reqs' = [Stale(q.plugin) EXCEPT ![r] = w] /\ Unloads(q.plugin, q.at)
            \/ Continue(r) /\ NotUninstalled(q.plugin)
      <3> SUFFICES ASSUME Uninstall(r)
                   PROVE  \/ /\ reqs' = [Stale(q.plugin) EXCEPT ![r] = w]
                             /\ Unloads(q.plugin, q.at)
                          \/ Continue(r) /\ NotUninstalled(q.plugin)
        OBVIOUS
      <3>1. CASE /\ Continue(r) /\ UNCHANGED <<tables, Memory, rebuild>>
                 /\ IF q.plugin \in files THEN Fault(q.plugin) ELSE UNCHANGED History
        <4>1. Fault(q.plugin) \/ (q.plugin \notin files /\ UNCHANGED History)
          BY <3>1
        <4>2. UNCHANGED <<tables, Memory, rebuild>>
          BY <3>1
        <4> QED
          BY <3>1, <4>1, <4>2 DEF NotUninstalled
      <3>2. CASE /\ q.plugin \in files
                 /\ tables' = IF loaded[q.plugin] = None THEN tables
                              ELSE tables \ {q.plugin}
                 /\ incomplete' = IF loaded[q.plugin] # None /\ q.at # q.plugin
                                  THEN incomplete \cup {q.plugin} ELSE incomplete
                 /\ RemoveFromRegistry(q.plugin)
                 /\ loaded' = [loaded EXCEPT ![q.plugin] = None]
                 /\ reqs' = [Stale(q.plugin) EXCEPT ![r].pc = "rebuild"]
                 /\ UNCHANGED <<excused, overlapped, faults>>
        BY <1>22, <3>2 DEF Unloads
      <3> QED
        BY <3>1, <3>2 DEF Uninstall
    <2> HIDE DEF w
    <2>3. reqs' = [Stale(q.plugin) EXCEPT ![r] = w] =>
            Now(r, w.pc, w.next, w.left, w.status, w.stale) /\ OthersStale(r)
      BY <1>21, <2>1
    <2> HIDE DEF Back
    <2> QED
      BY <1>3, <2>1, <2>2, <2>3
  <1> HIDE DEF Back, To
  <1> QED
    BY <1>5, <1>6, <1>7, <1>8, <1>9, <1>10, <1>11, <1>12, <1>13, <1>14,
       <1>15, <1>16, <1>17, <1>18, <1>19, <1>20, <1>24, <1>25, <1>26, <1>31,
       <1>32, <1>33, <1>35
    DEF Outcome, Back, To

\* What another request knows of its row: the row stays, is deleted, or gets
\* another plugin id.
SameRow(r, s) ==
    \/ reqs'[s].at = reqs[s].at
    \/ /\ reqs[s].at # None /\ reqs[s].at = reqs[r].at
       /\ row'[reqs[s].at] = None
       /\ reqs'[s].at # None =>
             /\ reqs[s].at \in excused' /\ reqs'[s].at \in excused'
             /\ row'[reqs'[s].at] # None

\* What a step of a request leaves alone: what other requests do, and what
\* those about other plugins hold,
ReqsFrame(r) ==
    /\ Typed
    /\ reqs'[r] # None => reqs'[r] \in Request /\ Kin(reqs[r], reqs'[r])
    /\ \A s \in Requests \ {r} :
          IF reqs[s] = None THEN reqs'[s] = None
          ELSE /\ Like(reqs[s], reqs'[s]) /\ SameRow(r, s)
               /\ s \notin Working(reqs[r].plugin) => reqs'[s].stale = reqs[s].stale

\* other rows, unless their plugin ids change hands, files and tables,
DiskFrame(r) ==
    LET p == reqs[r].plugin IN
    /\ row' \in [PluginIds -> Row \cup {None}]
    /\ files' \subseteq PluginIds /\ tables' \subseteq PluginIds
    /\ \A o \in PluginIds \ {p} :
          /\ \/ row'[o] = row[o]
             \/ /\ o \in excused'
                /\ row'[o] # None =>
                      row[o] # None /\ (row'[o].installed => row[o].installed)
          /\ o \in files' <=> o \in files
          /\ o \in tables' <=> o \in tables
    /\ \A o \in PluginIds : row[o] # None /\ row'[o] = None =>
          /\ reqs[r].at = o
          /\ \A s \in Requests : reqs'[s] # None => reqs'[s].at # o

\* their objects and entries in the registry,
MemoryFrame(r) ==
    LET p == reqs[r].plugin IN
    /\ loaded' \in [PluginIds -> Status \cup {None}]
    /\ \A o \in PluginIds \ {p} : loaded'[o] = loaded[o]
    /\ loaded'[p] = None /\ loaded[p] # None =>
          \A s \in Working(p) \ {r} : reqs'[s].stale
    /\ registry' \in Seq(Entry)
    /\ \A e \in Entry : e[1] # p => Often(registry', e) = Often(registry, e)

\* the schema but for a new rebuild or one that is refused,
SchemaFrame ==
    /\ rebuild' \in Rebuild /\ missed' \in BOOLEAN
    /\ builder' = builder /\ offered' = offered
    /\ up' = up
    /\ \/ missed'
       \/ rebuild'.pc = "core"
       \/ /\ missed' = missed /\ rebuild'.pc = rebuild.pc
          /\ Range(rebuild.todo) \subseteq Range(rebuild'.todo)
          /\ rebuild.todo # <<>> => Head(rebuild'.todo) = Head(rebuild.todo)
    /\ \/ rebuild'.pc # "types"
       \/ rebuild.pc = "types" /\ (rebuild.todo # <<>> => rebuild'.todo # <<>>)

\* and the history of others.
HistoryFrame(r) ==
    /\ excused \subseteq excused' /\ excused' \subseteq PluginIds
    /\ overlapped' = overlapped
    /\ incomplete' \subseteq PluginIds
    /\ \A o \in incomplete \ incomplete' : o = reqs[r].plugin /\ o \in tables'
    /\ begun' = begun /\ faults' \in Nat

Frame(r) ==
    /\ ReqsFrame(r) /\ DiskFrame(r) /\ MemoryFrame(r) /\ SchemaFrame
    /\ HistoryFrame(r)

LEMMA OthersFrame ==
  ASSUME TypeOK, NEW r \in Requests, Typed,
         reqs'[r] # None => reqs'[r] \in Request /\ Kin(reqs[r], reqs'[r]),
         OthersStay(r) \/ OthersStale(r)
  PROVE  ReqsFrame(r)
  <1>1. ASSUME NEW s \in Requests \ {r}, reqs[s] # None
        PROVE  Like(reqs[s], reqs[s])
    BY <1>1 DEF TypeOK, Like
  <1> QED
    BY <1>1 DEF ReqsFrame, OthersStay, OthersStale, Working, SameRow, Like

\* A row that gets another plugin id, or is deleted
LEMMA FollowFrame ==
  ASSUME TypeOK, NEW r \in Requests, reqs[r] # None, Typed,
         reqs'[r] # None => reqs'[r] \in Request /\ Kin(reqs[r], reqs'[r]),
         NEW to \in PluginIds \cup {None}, OthersFollow(r, reqs[r].at, to),
         reqs[r].at \notin {None, to} =>
            /\ row'[reqs[r].at] = None
            /\ to # None =>
                  reqs[r].at \in excused' /\ to \in excused' /\ row'[to] # None
  PROVE  ReqsFrame(r)
  <1>1. ASSUME NEW s \in Requests \ {r}, reqs[s] # None
        PROVE  Like(reqs[s], reqs[s])
    BY <1>1 DEF TypeOK, Like
  <1>2. ASSUME NEW s \in Requests \ {r}, reqs[s] # None
        PROVE  /\ Like(reqs[s], reqs'[s]) /\ SameRow(r, s)
               /\ reqs'[s].stale = reqs[s].stale
    <2>1. CASE reqs[r].at # None /\ reqs[s].at = reqs[r].at
      BY <1>2, <2>1 DEF OthersFollow, SameRow
    <2>2. CASE ~(reqs[r].at # None /\ reqs[s].at = reqs[r].at)
      BY <1>1, <1>2, <2>2 DEF OthersFollow, SameRow
    <2> QED
      BY <2>1, <2>2
  <1>3. ASSUME NEW s \in Requests \ {r}, reqs[s] = None PROVE reqs'[s] = None
    BY <1>3 DEF OthersFollow
  <1> QED
    BY <1>2, <1>3 DEF ReqsFrame

LEMMA LeftFrame ==
  ASSUME TypeOK, NEW r \in Requests, Left(r)
  PROVE  ReqsFrame(r)
  BY OthersFrame DEF Left

LEMMA NowFrame ==
  ASSUME TypeOK, NEW r \in Requests, NEW pc, NEW next, NEW left, NEW status, NEW stale,
         Now(r, pc, next, left, status, stale), OthersStay(r) \/ OthersStale(r)
  PROVE  ReqsFrame(r)
  BY OthersFrame DEF Now

LEMMA MovedFrame ==
  ASSUME TypeOK, NEW r \in Requests, NEW pc, NEW next, NEW left, NEW status, NEW stale,
         Moved(r, pc, next, left, status, stale)
  PROVE  ReqsFrame(r)
  BY NowFrame DEF Moved

LEMMA BackFrame ==
  ASSUME TypeOK, NEW r \in Requests,
         IF reqs[r].next = "done" THEN Left(r)
         ELSE Moved(r, reqs[r].next, "done", reqs[r].left, reqs[r].status,
                    reqs[r].stale)
  PROVE  ReqsFrame(r)
  BY LeftFrame, MovedFrame

LEMMA DiskStays ==
  ASSUME TypeOK, NEW r \in Requests, UNCHANGED Disk
  PROVE  DiskFrame(r)
  BY DEF TypeOK, DiskFrame, Disk

LEMMA MemoryStays ==
  ASSUME TypeOK, NEW r \in Requests, UNCHANGED Memory
  PROVE  MemoryFrame(r)
  BY DEF TypeOK, MemoryFrame, Memory

LEMMA SchemaStays ==
  ASSUME TypeOK, UNCHANGED <<up, Schema>>
  PROVE  SchemaFrame
  BY DEF TypeOK, SchemaFrame, Schema

LEMMA HistoryStays ==
  ASSUME TypeOK, NEW r \in Requests, reqs[r] # None, begun' = begun,
         UNCHANGED History \/ Fault(reqs[r].plugin) \/ Excuse(reqs[r].plugin)
  PROVE  HistoryFrame(r)
  <1>1. reqs[r].plugin \in PluginIds
    BY DEF TypeOK, Request
  <1> QED
    BY <1>1 DEF TypeOK, HistoryFrame, History, Fault, Excuse

\* A request is about a plugin, the row of which it knows.
LEMMA Knowing ==
  ASSUME ServerInv, NEW r \in Requests, reqs[r] # None
  PROVE  /\ TypeOK /\ reqs[r] \in Request /\ reqs[r].plugin \in PluginIds
         /\ Route(reqs[r]) /\ Knows(reqs[r])
  BY DEF ServerInv, TypeOK, Request

\* A row is written in place, or stays.
LEMMA RowFrame ==
  ASSUME TypeOK, NEW r \in Requests, reqs[r].plugin \in PluginIds,
         NEW w \in Row, row' = [row EXCEPT ![reqs[r].plugin] = w],
         UNCHANGED <<files, tables>>
  PROVE  DiskFrame(r)
  <1>1. w # None
    BY NoneAssumption
  <1> QED
    BY <1>1 DEF TypeOK, DiskFrame

LEMMA FilesFrame ==
  ASSUME TypeOK, NEW r \in Requests, reqs[r].plugin \in PluginIds, row' = row,
         files' \in {files, files \cup {reqs[r].plugin}, files \ {reqs[r].plugin}},
         tables' \in {tables, tables \cup {reqs[r].plugin}, tables \ {reqs[r].plugin}}
  PROVE  DiskFrame(r)
  BY DEF TypeOK, DiskFrame

LEMMA StatusFrame ==
  ASSUME TypeOK, NEW r \in Requests, reqs[r].plugin \in PluginIds,
         NEW w \in Status \cup {None}, UNCHANGED registry,
         loaded' = loaded \/ loaded' = [loaded EXCEPT ![reqs[r].plugin] = w],
         w = None => OthersStale(r)
  PROVE  MemoryFrame(r)
  <1> SUFFICES ASSUME loaded' = [loaded EXCEPT ![reqs[r].plugin] = w]
               PROVE  MemoryFrame(r)
    BY MemoryStays DEF Memory
  <1>1. w = None => \A s \in Working(reqs[r].plugin) \ {r} : reqs'[s].stale
    BY DEF OthersStale, Working
  <1> QED
    BY <1>1 DEF TypeOK, MemoryFrame

LEMMA NothingRebuilt == NoRebuild \in Rebuild
  <1>1. <<>> \in Seq(Entry)
    OBVIOUS
  <1> QED
    BY <1>1 DEF NoRebuild, Rebuild

\* A rebuild begins or is refused.
LEMMA CallFrame ==
  ASSUME TypeOK, CallRebuild \/ UNCHANGED <<rebuild, missed>>,
         builder' = builder, offered' = offered, up' = up
  PROVE  SchemaFrame
  <1>1. CASE CallRebuild /\ rebuild.pc = "off"
    <2>1. rebuild' = [NoRebuild EXCEPT !.pc = "core"] /\ missed' = FALSE
      BY <1>1 DEF CallRebuild, MayRebuild
    <2>2. rebuild' \in Rebuild /\ rebuild'.pc = "core"
      BY <2>1, NothingRebuilt DEF Rebuild, NoRebuild
    <2> QED
      BY <2>1, <2>2 DEF SchemaFrame
  <1>2. CASE CallRebuild /\ rebuild.pc # "off"
    BY <1>2 DEF SchemaFrame, CallRebuild, MayRebuild, TypeOK
  <1>3. CASE UNCHANGED <<rebuild, missed>>
    BY <1>3, SchemaStays DEF Schema
  <1> QED
    BY <1>1, <1>2, <1>3

\* Only a request that is there takes a step.
LEMMA Acts ==
  ASSUME NEW r \in Requests, Step(r)
  PROVE  reqs[r] # None
  BY DEF Step, At, Mark, Install, Check, Clash, Write, Extract, Record, RemoveDirectory, Delete, Load,
         Read, Extend, ExtendFails, Loaded, Activate, SetActive, StoreActive,
         Deactivate, SetInactive, StoreInactive, Uninstall, TriggerRebuild, Rebuilt

LEMMA StepFrames ==
  ASSUME ServerInv, NEW r \in Requests, Step(r)
  PROVE  Frame(r)
  <1> DEFINE q == reqs[r]
             p == reqs[r].plugin
  <1>1. q # None
    BY Acts
  <1>2. TypeOK /\ q \in Request /\ p \in PluginIds /\ Route(q) /\ Knows(q)
    BY <1>1, Knowing
  <1>3. Outcome(r)
    BY <1>1, <1>2, Outcomes
  <1>4. ASSUME begun' = begun, UNCHANGED History \/ Fault(p) \/ Excuse(p)
        PROVE  HistoryFrame(r)
    BY <1>1, <1>2, <1>4, HistoryStays
  <1>5. ASSUME UNCHANGED <<up, Memory, Schema>>
        PROVE  MemoryFrame(r) /\ SchemaFrame
    BY <1>2, <1>5, MemoryStays, SchemaStays
  <1>6. ASSUME UNCHANGED <<Disk, up, Schema>>
        PROVE  DiskFrame(r) /\ SchemaFrame
    BY <1>2, <1>6, DiskStays, SchemaStays
  <1>29. ASSUME NEW w \in Row \cup {None}, w # None
         PROVE  w \in Row
    BY <1>29
  <1>30. q.at \in PluginIds \cup {None} /\ (q.at # None => q.at \in PluginIds /\ row[q.at] \in Row)
    BY <1>2 DEF Request, Knows, TypeOK
  <1>31. CASE Mark(r)
    <2>1. ReqsFrame(r)
      BY <1>2, <1>3, <1>31, MovedFrame DEF Outcome
    <2>2. DiskFrame(r)
      <3>1. CASE row[p] = None
        BY <1>2, <1>31, <3>1, FilesFrame DEF Mark
      <3>2. CASE row[p] # None
        <4> DEFINE w == [row[p] EXCEPT !.installed = TRUE]
        <4>1. w \in Row
          BY <1>2, <3>2 DEF Row, TypeOK
        <4>2. row' = [row EXCEPT ![p] = w] /\ UNCHANGED <<files, tables>>
          BY <1>31, <3>2 DEF Mark
        <4> HIDE DEF w
        <4> QED
          BY <1>2, <4>1, <4>2, RowFrame
      <3> QED
        BY <3>1, <3>2
    <2>3. MemoryFrame(r) /\ SchemaFrame
      BY <1>5, <1>31 DEF Mark
    <2>4. HistoryFrame(r)
      BY <1>4, <1>31 DEF Mark
    <2> QED
      BY <2>1, <2>2, <2>3, <2>4 DEF Frame
  <1>7. CASE Install(r)
    <2>1. ReqsFrame(r)
      BY <1>2, <1>3, <1>7, LeftFrame DEF Outcome
    <2>2. DiskFrame(r)
      BY <1>2, <1>7, FilesFrame DEF Install, CreateTables
    <2>3. MemoryFrame(r) /\ SchemaFrame
      BY <1>5, <1>7 DEF Install
    <2>4. HistoryFrame(r)
      BY <1>2, <1>7 DEF Install, CreateTables, HistoryFrame, TypeOK
    <2> QED
      BY <2>1, <2>2, <2>3, <2>4 DEF Frame
  <1>32. CASE Check(r)
    <2>1. ReqsFrame(r)
      BY <1>2, <1>3, <1>32, MovedFrame DEF Outcome
    <2>2. DiskFrame(r) /\ MemoryFrame(r) /\ SchemaFrame
      BY <1>5, <1>6, <1>32 DEF Check
    <2>3. HistoryFrame(r)
      BY <1>4, <1>32 DEF Check
    <2> QED
      BY <2>1, <2>2, <2>3 DEF Frame
  <1>33. CASE Clash(r)
    <2>1. ReqsFrame(r)
      BY <1>2, <1>3, <1>33, LeftFrame DEF Outcome
    <2>2. DiskFrame(r) /\ MemoryFrame(r) /\ SchemaFrame
      BY <1>5, <1>6, <1>33 DEF Clash
    <2>3. HistoryFrame(r)
      BY <1>4, <1>33 DEF Clash
    <2> QED
      BY <2>1, <2>2, <2>3 DEF Frame
  <1>8. CASE Write(r)
    <2> DEFINE w == [installed |-> q.installed, activated |-> q.on]
    <2>1. w \in Row /\ w # None
      <3>1. w \in Row
        BY <1>2 DEF Row, Request
      <3> QED
        BY <3>1, NoneAssumption
    <2>2. /\ row' = IF q.at = None THEN row ELSE [row EXCEPT ![q.at] = None, ![p] = w]
          /\ UNCHANGED <<files, tables>>
          /\ excused' = IF q.at = p THEN excused ELSE excused \cup ({p, q.at} \ {None})
          /\ p # None
      BY <1>2, <1>8, NoneAssumption DEF Write
    <2>3. /\ Typed /\ OthersFollow(r, q.at, p)
          /\ reqs'[r] # None => /\ reqs'[r] \in Request /\ Kin(q, reqs'[r])
                                /\ reqs'[r].at = None
      BY <1>3, <1>8 DEF Outcome, Now
    <2> HIDE DEF w
    <2>4. ReqsFrame(r)
      <3>1. q.at \notin {None, p} =>
              /\ row'[q.at] = None /\ q.at \in excused' /\ p \in excused'
              /\ row'[p] # None
        BY <1>2, <1>30, <2>1, <2>2 DEF TypeOK
      <3> QED
        BY <1>1, <1>2, <2>3, <3>1, FollowFrame
    <2>5. DiskFrame(r)
      <3>1. CASE q.at = None
        BY <1>2, <2>2, <3>1, FilesFrame
      <3>2. CASE q.at = p
        <4>1. row' = [row EXCEPT ![p] = w]
          BY <1>2, <2>2, <3>2 DEF TypeOK
        <4> QED
          BY <1>2, <2>1, <2>2, <4>1, RowFrame
      <3>3. CASE q.at \notin {None, p}
        <4>1. /\ row'[p] = w /\ row'[q.at] = None /\ q.at \in excused'
              /\ \A o \in PluginIds \ {p, q.at} : row'[o] = row[o]
              /\ row' \in [PluginIds -> Row \cup {None}]
          BY <1>2, <1>30, <2>1, <2>2, <3>3 DEF TypeOK
        <4>2. ASSUME NEW s \in Requests, reqs'[s] # None PROVE reqs'[s].at # q.at
          <5>1. CASE s = r
            BY <2>3, <3>3, <4>2, <5>1
          <5>2. CASE s # r
            BY <2>3, <3>3, <4>2, <5>2 DEF OthersFollow
          <5> QED
            BY <5>1, <5>2
        <4>3. UNCHANGED <<files, tables>> /\ files \subseteq PluginIds /\ tables \subseteq PluginIds
          BY <1>2, <2>2 DEF TypeOK
        <4>4. \A o \in PluginIds : row[o] # None /\ row'[o] = None => o = q.at
          BY <2>1, <4>1
        <4> QED
          BY <4>1, <4>2, <4>3, <4>4 DEF DiskFrame
      <3> QED
        BY <3>1, <3>2, <3>3
    <2>6. MemoryFrame(r) /\ SchemaFrame
      BY <1>5, <1>8 DEF Write
    <2>7. HistoryFrame(r)
      <3>1. /\ UNCHANGED <<overlapped, faults, begun>>
            /\ incomplete' \in {incomplete, incomplete \cup {p}}
        BY <1>8 DEF Write
      <3>2. excused' \subseteq PluginIds
        BY <1>2, <1>30, <2>2 DEF TypeOK
      <3> QED
        BY <1>2, <2>2, <3>1, <3>2 DEF HistoryFrame, TypeOK
    <2> QED
      BY <2>4, <2>5, <2>6, <2>7 DEF Frame
  <1>9. CASE Extract(r)
    <2>1. ReqsFrame(r)
      BY <1>2, <1>3, <1>9, MovedFrame DEF Outcome
    <2>2. DiskFrame(r)
      BY <1>2, <1>9, FilesFrame DEF Extract
    <2>3. MemoryFrame(r) /\ SchemaFrame
      BY <1>5, <1>9 DEF Extract
    <2>4. HistoryFrame(r)
      BY <1>4, <1>9 DEF Extract
    <2> QED
      BY <2>1, <2>2, <2>3, <2>4 DEF Frame
  <1>10. CASE Record(r)
    <2>1. ReqsFrame(r)
      BY <1>2, <1>3, <1>10, MovedFrame, LeftFrame DEF Outcome
    <2>2. DiskFrame(r)
      <3>1. CASE q.at = None
        BY <1>2, <1>10, <3>1, FilesFrame DEF Record
      <3>2. CASE q.at # None
        <4> DEFINE w == [row[q.at] EXCEPT !.installed = FALSE]
        <4>1. w \in Row /\ ~w.installed
          BY <1>30, <3>2 DEF Row
        <4>2. row' = [row EXCEPT ![q.at] = w] /\ UNCHANGED <<files, tables, excused>>
          BY <1>10, <3>2 DEF Record, History
        <4> HIDE DEF w
        <4>3. CASE q.at = p
          BY <1>2, <4>1, <4>2, <4>3, RowFrame
        <4>4. CASE q.at # p
          <5>1. q.at \in excused
            BY <1>2, <1>10, <3>2, <4>4, Routes DEF Record, At, Knows
          <5>2. w # None
            BY <4>1, NoneAssumption
          <5>3. row[q.at] # None
            BY <1>2, <3>2 DEF Knows
          <5>4. /\ row'[q.at] = w /\ row' \in [PluginIds -> Row \cup {None}]
                /\ \A o \in PluginIds \ {q.at} : row'[o] = row[o]
            BY <1>2, <1>30, <3>2, <4>1, <4>2 DEF TypeOK
          <5>5. files \subseteq PluginIds /\ tables \subseteq PluginIds
            BY <1>2 DEF TypeOK
          <5> QED
            BY <4>1, <4>2, <5>1, <5>2, <5>3, <5>4, <5>5 DEF DiskFrame
        <4> QED
          BY <4>3, <4>4
      <3> QED
        BY <3>1, <3>2
    <2>3. MemoryFrame(r) /\ SchemaFrame
      BY <1>5, <1>10 DEF Record
    <2>4. HistoryFrame(r)
      BY <1>4, <1>10 DEF Record
    <2> QED
      BY <2>1, <2>2, <2>3, <2>4 DEF Frame
  <1>11. CASE RemoveDirectory(r)
    <2>1. ReqsFrame(r)
      BY <1>2, <1>3, <1>11, MovedFrame, LeftFrame DEF Outcome
    <2>2. DiskFrame(r)
      BY <1>2, <1>11, FilesFrame DEF RemoveDirectory
    <2>3. MemoryFrame(r) /\ SchemaFrame
      BY <1>5, <1>11 DEF RemoveDirectory
    <2>4. HistoryFrame(r)
      BY <1>2, <1>11 DEF RemoveDirectory, HistoryFrame, TypeOK, History
    <2> QED
      BY <2>1, <2>2, <2>3, <2>4 DEF Frame
  <1>12. CASE Delete(r)
    <2>1. Typed /\ reqs'[r] = None /\ OthersFollow(r, q.at, None)
      BY <1>3, <1>12 DEF Outcome
    <2>2. /\ row' = IF q.at = None THEN row ELSE [row EXCEPT ![q.at] = None]
          /\ UNCHANGED <<files, tables, excused>>
      BY <1>12 DEF Delete, History
    <2>3. ReqsFrame(r)
      <3>1. q.at # None => row'[q.at] = None
        BY <1>2, <1>30, <2>2 DEF TypeOK
      <3> QED
        BY <1>1, <1>2, <2>1, <3>1, FollowFrame
    <2>4. DiskFrame(r)
      <3>1. CASE q.at = None
        BY <1>2, <2>2, <3>1, FilesFrame
      <3>2. CASE q.at # None
        <4>1. /\ row'[q.at] = None /\ row' \in [PluginIds -> Row \cup {None}]
              /\ \A o \in PluginIds \ {q.at} : row'[o] = row[o]
          BY <1>2, <1>30, <2>2, <3>2 DEF TypeOK
        <4>2. q.at # p => q.at \in excused
          BY <1>2, <1>12, <3>2, Routes DEF Delete, At, Knows
        <4>3. \A s \in Requests : reqs'[s] # None => reqs'[s].at # q.at
          BY <2>1, <3>2 DEF OthersFollow
        <4>4. files \subseteq PluginIds /\ tables \subseteq PluginIds
          BY <1>2 DEF TypeOK
        <4>5. \A o \in PluginIds : row[o] # None /\ row'[o] = None => o = q.at
          BY <4>1
        <4> QED
          BY <2>2, <4>1, <4>2, <4>3, <4>4, <4>5 DEF DiskFrame
      <3> QED
        BY <3>1, <3>2
    <2>6. MemoryFrame(r) /\ SchemaFrame
      BY <1>5, <1>12 DEF Delete
    <2>7. HistoryFrame(r)
      BY <1>4, <1>12 DEF Delete
    <2> QED
      BY <2>3, <2>4, <2>6, <2>7 DEF Frame
  <1>13. CASE Load(r)
    <2>1. ReqsFrame(r)
      BY <1>2, <1>3, <1>13, MovedFrame DEF Outcome
    <2>2. DiskFrame(r) /\ MemoryFrame(r) /\ SchemaFrame
      BY <1>5, <1>6, <1>13 DEF Load
    <2>3. HistoryFrame(r)
      BY <1>4, <1>13 DEF Load
    <2> QED
      BY <2>1, <2>2, <2>3 DEF Frame
  <1>14. CASE Read(r)
    <2>1. ReqsFrame(r)
      BY <1>2, <1>3, <1>14, NowFrame DEF Outcome
    <2>2. DiskFrame(r) /\ SchemaFrame
      BY <1>6, <1>14 DEF Read
    <2>3. MemoryFrame(r)
      <3>1. "LOADING" \in Status
        BY DEF Status
      <3>2. "LOADING" # None
        BY <3>1, NoneAssumption
      <3> QED
        BY <1>2, <1>14, <3>1, <3>2, StatusFrame DEF Read
    <2>4. HistoryFrame(r)
      BY <1>4, <1>14 DEF Read
    <2> QED
      BY <2>1, <2>2, <2>3, <2>4 DEF Frame
  <1>15. CASE Extend(r)
    <2>1. PICK x \in q.left :
            /\ Moved(r, IF q.left \ {x} = {} THEN "loaded" ELSE "extend",
                     q.next, q.left \ {x}, q.status, q.stale)
            /\ registry' = Append(registry, <<p, x>>)
      BY <1>3, <1>15 DEF Outcome
    <2>2. ReqsFrame(r)
      BY <1>2, <2>1, MovedFrame
    <2>3. DiskFrame(r)
      BY <1>2, <1>15, DiskStays DEF Extend
    <2>4. <<p, x>> \in Entry
      BY <1>2, <2>1 DEF Request, Entry
    <2>5. MemoryFrame(r)
      <3>1. registry \in Seq(Entry) /\ registry' \in Seq(Entry)
        BY <1>2, <2>1, <2>4, RangePush DEF TypeOK
      <3>2. ASSUME NEW e \in Entry, e[1] # p
            PROVE  Often(registry', e) = Often(registry, e)
        <4>1. <<p, x>> # e
          BY <3>2
        <4> QED
          BY <2>1, <2>4, <3>1, <4>1, PushCounts
      <3>3. loaded' = loaded
        BY <1>15 DEF Extend
      <3> QED
        BY <1>2, <3>1, <3>2, <3>3 DEF MemoryFrame, TypeOK
    <2>6. SchemaFrame
      <3>1. UNCHANGED <<up, builder, offered, missed>>
        BY <1>15 DEF Extend
      <3>2. CASE rebuild' = rebuild
        BY <1>2, <3>1, <3>2, SchemaStays DEF Schema
      <3>3. CASE rebuild' # rebuild
        <4>1. PICK y \in q.left :
                /\ registry' = Append(registry, <<p, y>>)
                /\ rebuild' = [rebuild EXCEPT !.todo = Append(@, <<p, y>>)]
                /\ rebuild.pc \in {"loop", "types"}
          BY <1>15, <3>3 DEF Extend
        <4>2. <<p, y>> \in Entry
          BY <1>2 DEF Request, Entry
        <4>3. rebuild \in Rebuild /\ rebuild.todo \in Seq(Entry)
          BY <1>2 DEF TypeOK, Rebuild
        <4> DEFINE todo == Append(rebuild.todo, <<p, y>>)
        <4>4. /\ todo \in Seq(Entry) /\ todo # <<>>
              /\ Range(rebuild.todo) \subseteq Range(todo)
              /\ rebuild.todo # <<>> => Head(todo) = Head(rebuild.todo)
          BY <4>2, <4>3, RangePush
        <4>5. rebuild' = [rebuild EXCEPT !.todo = todo]
          BY <4>1
        <4> HIDE DEF todo
        <4>6. /\ rebuild' \in Rebuild /\ rebuild'.pc = rebuild.pc
              /\ rebuild'.todo = todo
          BY <4>3, <4>4, <4>5 DEF Rebuild
        <4> QED
          BY <1>2, <3>1, <4>1, <4>4, <4>6 DEF SchemaFrame, TypeOK
      <3> QED
        BY <3>2, <3>3
    <2>7. HistoryFrame(r)
      BY <1>4, <1>15 DEF Extend
    <2> QED
      BY <2>2, <2>3, <2>5, <2>6, <2>7 DEF Frame
  <1>16. CASE ExtendFails(r)
    <2>1. OthersStale(r) /\ ReqsFrame(r)
      BY <1>2, <1>3, <1>16, NowFrame DEF Outcome
    <2>2. DiskFrame(r) /\ SchemaFrame
      BY <1>6, <1>16 DEF ExtendFails
    <2>3. MemoryFrame(r)
      BY <1>2, <1>16, <2>1, StatusFrame DEF ExtendFails
    <2>4. HistoryFrame(r)
      BY <1>4, <1>16 DEF ExtendFails
    <2> QED
      BY <2>1, <2>2, <2>3, <2>4 DEF Frame
  <1>17. CASE Loaded(r)
    <2>1. ReqsFrame(r)
      BY <1>2, <1>3, <1>17, MovedFrame DEF Outcome
    <2>2. DiskFrame(r) /\ SchemaFrame
      BY <1>6, <1>17 DEF Loaded
    <2>3. MemoryFrame(r)
      <3>1. q.status \in Status /\ q.status # None
        BY <1>2, NoneAssumption DEF Request
      <3>2. registry' = registry
            /\ (loaded' = loaded \/ loaded' = [loaded EXCEPT ![p] = q.status])
        BY <1>17 DEF Loaded
      <3> QED
        BY <1>2, <3>1, <3>2, StatusFrame
    <2>4. HistoryFrame(r)
      BY <1>4, <1>17 DEF Loaded
    <2> QED
      BY <2>1, <2>2, <2>3, <2>4 DEF Frame
  <1>18. CASE Activate(r)
    <2>1. ReqsFrame(r)
      BY <1>2, <1>3, <1>18, MovedFrame, BackFrame DEF Outcome
    <2>2. DiskFrame(r) /\ MemoryFrame(r) /\ SchemaFrame
      BY <1>5, <1>6, <1>18 DEF Activate
    <2>3. HistoryFrame(r)
      BY <1>4, <1>18 DEF Activate
    <2> QED
      BY <2>1, <2>2, <2>3 DEF Frame
  <1>19. "ACTIVE" \in Status /\ "INACTIVE" \in Status
         /\ "ACTIVE" # None /\ "INACTIVE" # None
    BY NoneAssumption DEF Status
  <1>20. CASE SetActive(r)
    <2>1. ReqsFrame(r)
      BY <1>2, <1>3, <1>20, MovedFrame, BackFrame DEF Outcome
    <2>2. DiskFrame(r) /\ SchemaFrame
      BY <1>6, <1>20 DEF SetActive
    <2>3. MemoryFrame(r)
      <3>1. registry' = registry
            /\ \/ loaded' = loaded \/ loaded' = [loaded EXCEPT ![p] = "ACTIVE"]
               \/ loaded' = [loaded EXCEPT ![p] = "INACTIVE"]
        BY <1>20 DEF SetActive
      <3> QED
        BY <1>2, <1>19, <3>1, StatusFrame
    <2>4. HistoryFrame(r)
      BY <1>4, <1>20 DEF SetActive
    <2> QED
      BY <2>1, <2>2, <2>3, <2>4 DEF Frame
  <1>21. ASSUME NEW active \in BOOLEAN, Store(r, active), UNCHANGED <<files, tables>>
         PROVE  DiskFrame(r)
    <2>1. CASE row[p] = None
      BY <1>2, <1>21, <2>1, FilesFrame DEF Store
    <2>2. CASE row[p] # None
      <3> DEFINE w == [row[p] EXCEPT !.activated = active]
      <3>1. w \in Row
        BY <1>2, <2>2 DEF Row, TypeOK
      <3>2. row' = [row EXCEPT ![p] = w]
        BY <1>21, <2>2 DEF Store
      <3>3. w # None
        BY <3>1, NoneAssumption
      <3> HIDE DEF w
      <3> QED
        BY <1>2, <1>21, <3>1, <3>2, <3>3, RowFrame
    <2> QED
      BY <2>1, <2>2
  <1>22. CASE StoreActive(r)
    <2>1. ReqsFrame(r)
      BY <1>2, <1>3, <1>22, MovedFrame DEF Outcome
    <2>2. DiskFrame(r) /\ MemoryFrame(r) /\ SchemaFrame
      BY <1>5, <1>21, <1>22 DEF StoreActive
    <2>3. HistoryFrame(r)
      BY <1>4, <1>22 DEF StoreActive
    <2> QED
      BY <2>1, <2>2, <2>3 DEF Frame
  <1>23. CASE Deactivate(r)
    <2>1. ReqsFrame(r)
      BY <1>2, <1>3, <1>23, MovedFrame, BackFrame DEF Outcome
    <2>2. DiskFrame(r) /\ MemoryFrame(r) /\ SchemaFrame
      BY <1>5, <1>6, <1>23 DEF Deactivate
    <2>3. HistoryFrame(r)
      BY <1>4, <1>23 DEF Deactivate
    <2> QED
      BY <2>1, <2>2, <2>3 DEF Frame
  <1>24. CASE SetInactive(r)
    <2>1. ReqsFrame(r)
      BY <1>2, <1>3, <1>24, MovedFrame, BackFrame DEF Outcome
    <2>2. DiskFrame(r) /\ SchemaFrame
      BY <1>6, <1>24 DEF SetInactive
    <2>3. MemoryFrame(r)
      <3>1. registry' = registry
            /\ \/ loaded' = loaded \/ loaded' = [loaded EXCEPT ![p] = "ACTIVE"]
               \/ loaded' = [loaded EXCEPT ![p] = "INACTIVE"]
        BY <1>24 DEF SetInactive
      <3> QED
        BY <1>2, <1>19, <3>1, StatusFrame
    <2>4. HistoryFrame(r)
      BY <1>4, <1>24 DEF SetInactive
    <2> QED
      BY <2>1, <2>2, <2>3, <2>4 DEF Frame
  <1>25. CASE StoreInactive(r)
    <2>1. ReqsFrame(r)
      BY <1>2, <1>3, <1>25, MovedFrame DEF Outcome
    <2>2. DiskFrame(r) /\ MemoryFrame(r) /\ SchemaFrame
      BY <1>5, <1>21, <1>25 DEF StoreInactive
    <2>3. HistoryFrame(r)
      BY <1>4, <1>25 DEF StoreInactive
    <2> QED
      BY <2>1, <2>2, <2>3 DEF Frame
  <1>26. CASE Uninstall(r)
    <2>1. UNCHANGED <<row, files, up, builder, offered, missed, begun>>
      BY <1>26 DEF Uninstall
    <2>2. CASE OthersStale(r) /\ ReqsFrame(r) /\ Unloads(p, q.at)
      <3>1. DiskFrame(r)
        BY <1>2, <2>1, <2>2, FilesFrame DEF Unloads
      <3>2. /\ registry' \in Seq(Entry)
            /\ \A e \in Entry : Often(registry', e) =
                                   IF e[1] = p THEN 0 ELSE Often(registry, e)
        BY <1>2, <2>2, FilterCounts DEF Unloads, RemoveFromRegistry, TypeOK
      <3>3. MemoryFrame(r)
        <4>1. \A s \in Working(p) \ {r} : reqs'[s].stale
          BY <2>2 DEF OthersStale, Working
        <4> QED
          BY <1>2, <2>2, <3>2, <4>1 DEF Unloads, MemoryFrame, TypeOK
      <3>4. SchemaFrame
        <4>1. \/ rebuild' = rebuild
              \/ /\ rebuild.pc \in {"loop", "types"}
                 /\ rebuild' = [rebuild EXCEPT !.detached = TRUE]
          BY <2>2 DEF Unloads, RemoveFromRegistry
        <4>2. /\ rebuild' \in Rebuild /\ rebuild'.pc = rebuild.pc
              /\ rebuild'.todo = rebuild.todo
          BY <1>2, <4>1 DEF TypeOK, Rebuild
        <4> QED
          BY <1>2, <2>1, <4>1, <4>2 DEF TypeOK, SchemaFrame
      <3>5. HistoryFrame(r)
        BY <1>2, <2>1, <2>2 DEF Unloads, HistoryFrame, TypeOK
      <3> QED
        BY <2>2, <3>1, <3>3, <3>4, <3>5 DEF Frame
    <2>3. CASE ReqsFrame(r) /\ NotUninstalled(p)
      <3>1. DiskFrame(r) /\ MemoryFrame(r) /\ SchemaFrame
        BY <1>5, <1>6, <2>1, <2>3 DEF NotUninstalled, Disk, Schema
      <3>2. HistoryFrame(r)
        BY <1>4, <2>1, <2>3 DEF NotUninstalled
      <3> QED
        BY <2>3, <3>1, <3>2 DEF Frame
    <2>4. /\ ReqsFrame(r)
          /\ (OthersStale(r) /\ Unloads(p, q.at)) \/ NotUninstalled(p)
      BY <1>2, <1>3, <1>26, NowFrame, BackFrame DEF Outcome
    <2> QED
      BY <2>2, <2>3, <2>4
  <1>27. CASE TriggerRebuild(r)
    <2>1. ReqsFrame(r)
      BY <1>2, <1>3, <1>27, MovedFrame DEF Outcome
    <2>2. DiskFrame(r) /\ MemoryFrame(r)
      BY <1>2, <1>27, DiskStays, MemoryStays DEF TriggerRebuild
    <2>3. SchemaFrame
      BY <1>2, <1>27, CallFrame DEF TriggerRebuild
    <2>4. HistoryFrame(r)
      BY <1>4, <1>27 DEF TriggerRebuild
    <2> QED
      BY <2>1, <2>2, <2>3, <2>4 DEF Frame
  <1>28. CASE Rebuilt(r)
    <2>1. ReqsFrame(r)
      BY <1>2, <1>3, <1>28, BackFrame DEF Outcome
    <2>2. DiskFrame(r) /\ MemoryFrame(r)
      BY <1>2, <1>28, DiskStays, MemoryStays DEF Rebuilt
    <2>3. SchemaFrame
      BY <1>2, <1>28, CallFrame DEF Rebuilt
    <2>4. HistoryFrame(r)
      BY <1>4, <1>28 DEF Rebuilt
    <2> QED
      BY <2>1, <2>2, <2>3, <2>4 DEF Frame
  <1> QED
    BY <1>7, <1>8, <1>9, <1>10, <1>11, <1>12, <1>13, <1>14, <1>15, <1>16, <1>17,
       <1>18, <1>20, <1>22, <1>23, <1>24, <1>25, <1>26, <1>27, <1>28, <1>31,
       <1>32, <1>33 DEF Step

------------------------------------------------------------------------------
(* Requests stay on their routes                                           *)


\* The kind and the aim of a request stay.
LEMMA KinDoes ==
  ASSUME NEW q, NEW w, Kin(q, w)
  PROVE  /\ Starting(w) <=> Starting(q)
         /\ w.next = q.next => (Stopping(w) <=> Stopping(q))
  BY DEF Kin, Starting, Stopping

\* Back from a lifecycle operation, a request is on its way again.
LEMMA RouteBack ==
  ASSUME NEW q, NEW w, Route(q), Kin(q, w), w.pc = q.next, w.next = "done",
         q.next # "done"
  PROVE  Route(w) /\ w.pc \in {"activate", "extract", "directory"}
  BY DEF Route, Kin, Starting, Stopping, LoadPhases, RunPhases, StopPhases, LastPhases

LEMMA StepRoute ==
  ASSUME ServerInv, NEW r \in Requests, Step(r), reqs'[r] # None
  PROVE  /\ Route(reqs'[r])
         /\ reqs'[r].pc \in {"extend", "starting", "stopping"} /\ ~reqs'[r].stale =>
               loaded'[reqs[r].plugin] # None
  <1> DEFINE q == reqs[r]
             p == reqs[r].plugin
             w == reqs'[r]
             Good == /\ Route(w)
                     /\ w.pc \in {"extend", "starting", "stopping"} /\ ~w.stale =>
                           loaded'[p] # None
             To(pc) == Moved(r, pc, q.next, q.left, q.status, q.stale)
             Back == IF q.next = "done" THEN Left(r)
                     ELSE Moved(r, q.next, "done", q.left, q.status, q.stale)
  <1>1. q # None
    BY Acts
  <1>2. TypeOK /\ q \in Request /\ p \in PluginIds /\ Route(q) /\ Knows(q)
    BY <1>1, Knowing
  <1>3. Outcome(r)
    BY <1>1, <1>2, Outcomes
  <1>4. q.kind \in {"install", "update", "upload", "delete"}
    BY <1>2 DEF Request
  <1>5. Back => Good
    BY <1>2, RouteBack DEF Moved, Now, Left
  <1>6. ASSUME NEW pc, To(pc), pc \notin {"extend", "starting", "stopping"}
        PROVE  /\ w.pc = pc /\ w.next = q.next /\ Kin(q, w)
               /\ Starting(w) <=> Starting(q)
               /\ Stopping(w) <=> Stopping(q)
               /\ Route(w) => Good
    BY <1>6, KinDoes DEF Moved, Now
  <1> USE DEF At, LoadPhases, RunPhases, StopPhases, LastPhases
  <1> HIDE DEF Back, To, Good
  <1>7. CASE Install(r) \/ Clash(r)
    BY <1>3, <1>7 DEF Outcome, Left
  <1>27. CASE Mark(r)
    <2>1. To("install")
      BY <1>3, <1>27 DEF Outcome, To
    <2>2. q.kind = "install" /\ q.next = "done"
      BY <1>2, <1>27, Routes DEF Mark
    <2> QED
      BY <1>6, <2>1, <2>2 DEF Route, Kin
  <1>28. CASE Check(r)
    <2>1. To("write")
      BY <1>3, <1>28 DEF Outcome, To
    <2>2. q.kind = "update" /\ q.next = "done"
      BY <1>2, <1>28, Routes DEF Check
    <2> QED
      BY <1>6, <2>1, <2>2 DEF Route, Kin
  <1>8. CASE Write(r)
    <2>1. q.kind = "update" /\ q.next = "done"
      BY <1>2, <1>8, Routes DEF Write
    <2>2. Stopping(q) \/ Starting(q)
      BY <1>2, <2>1 DEF Stopping, Starting, Request
    <2>3. ~q.on => Stopping(q)
      BY <2>1 DEF Stopping
    <2>4. q.on => Starting(q)
      BY <2>1 DEF Starting
    <2>5. /\ w.next = q.next /\ Kin(q, w)
          /\ \/ ~q.on /\ w.pc = "deactivate"
             \/ q.on /\ w.pc \in {"load", "activate"}
      BY <1>3, <1>8 DEF Outcome, Now
    <2>6. Route(w)
      BY <2>1, <2>3, <2>4, <2>5, KinDoes DEF Route
    <2> QED
      BY <2>5, <2>6 DEF Good
  <1>9. CASE Extract(r)
    <2>1. To("record")
      BY <1>3, <1>9 DEF Outcome, To
    <2>2. q.kind = "upload" /\ q.next = "done"
      BY <1>2, <1>9, Routes DEF Extract
    <2> QED
      BY <1>6, <2>1, <2>2 DEF Route, Kin
  <1>10. CASE Record(r)
    <2>1. q.on /\ To("load")
      BY <1>3, <1>10 DEF Outcome, To, Left
    <2>2. q.kind = "upload" /\ q.next = "done"
      BY <1>2, <1>10, Routes DEF Record
    <2> QED
      BY <1>6, <2>1, <2>2 DEF Route, Starting
  <1>11. CASE RemoveDirectory(r)
    <2>1. To("delete")
      BY <1>3, <1>11 DEF Outcome, To, Left
    <2>2. q.kind = "delete" /\ q.next = "done"
      BY <1>2, <1>11, Routes DEF RemoveDirectory
    <2> QED
      BY <1>6, <2>1, <2>2 DEF Route, Kin
  <1>12. CASE Delete(r)
    BY <1>3, <1>12 DEF Outcome
  <1>13. CASE Load(r)
    <2>1. To("read") \/ To("activate")
      BY <1>3, <1>13 DEF Outcome, To
    <2>2. Starting(q) /\ q.next = "done"
      BY <1>2, <1>13, Routes DEF Load
    <2> QED
      BY <1>6, <2>1, <2>2 DEF Route
  <1>14. CASE Read(r)
    <2>1. Now(r, "extend", q.next, Extensions, StatusOf(p), FALSE)
      BY <1>3, <1>14 DEF Outcome
    <2>2. Starting(q) /\ q.next = "done"
      BY <1>2, <1>14, Routes DEF Read
    <2>3. loaded'[p] = "LOADING" /\ "LOADING" # None
      BY <1>2, <1>14, NoneAssumption DEF Read, TypeOK, Status
    <2> QED
      BY <2>1, <2>2, <2>3, KinDoes DEF Now, Good, Route
  <1>15. CASE Extend(r)
    <2>1. PICK x \in q.left :
            Moved(r, IF q.left \ {x} = {} THEN "loaded" ELSE "extend",
                  q.next, q.left \ {x}, q.status, q.stale)
      BY <1>3, <1>15 DEF Outcome
    <2>2. Starting(q) /\ q.next = "done" /\ q.pc = "extend"
      BY <1>2, <1>15, Routes DEF Extend
    <2>3. loaded' = loaded
      BY <1>15 DEF Extend
    <2>4. /\ w.pc \in {"loaded", "extend"} /\ w.next = "done" /\ w.stale = q.stale
          /\ Kin(q, w)
      BY <2>1, <2>2 DEF Moved, Now
    <2>5. Route(w)
      BY <2>2, <2>4, KinDoes DEF Route
    <2> QED
      BY <1>2, <2>2, <2>3, <2>4, <2>5 DEF Knows, Good
  <1>16. CASE ExtendFails(r)
    <2>1. Now(r, "activate", q.next, {}, q.status, TRUE)
      BY <1>3, <1>16 DEF Outcome
    <2>2. Starting(q) /\ q.next = "done"
      BY <1>2, <1>16, Routes DEF ExtendFails
    <2> QED
      BY <2>1, <2>2, KinDoes DEF Now, Good, Route
  <1>17. CASE Loaded(r)
    <2>1. Moved(r, "activate", IF q.status = "ACTIVE" THEN "activate" ELSE "done",
                q.left, q.status, q.stale)
      BY <1>3, <1>17 DEF Outcome
    <2>2. Starting(q)
      BY <1>2, <1>17, Routes DEF Loaded
    <2> QED
      BY <2>1, <2>2, KinDoes DEF Moved, Now, Good, Route
  <1>18. CASE Activate(r)
    <2>1. CASE Back
      BY <1>5, <2>1 DEF Good
    <2>2. CASE /\ loaded[p] # None
               /\ Moved(r, "starting", q.next, q.left, q.status, FALSE)
      <3>1. Starting(q) /\ q.next \in {"activate", "done"}
        BY <1>2, <1>18, Routes DEF Activate
      <3>2. loaded' = loaded
        BY <1>18 DEF Activate, Memory
      <3> QED
        BY <2>2, <3>1, <3>2, KinDoes DEF Moved, Now, Good, Route
    <2> QED
      BY <1>3, <1>18, <2>1, <2>2 DEF Outcome, Back
  <1>19. CASE SetActive(r)
    <2>1. Back \/ To("activated")
      BY <1>3, <1>19 DEF Outcome, Back, To
    <2>2. Starting(q) /\ q.next \in {"activate", "done"}
      BY <1>2, <1>19, Routes DEF SetActive
    <2> QED
      BY <1>5, <1>6, <2>1, <2>2 DEF Good, Route
  <1>20. CASE StoreActive(r)
    <2>1. To("rebuild")
      BY <1>3, <1>20 DEF Outcome, To
    <2>2. Starting(q) /\ q.next \in {"activate", "done"}
      BY <1>2, <1>20, Routes DEF StoreActive
    <2> QED
      BY <1>6, <2>1, <2>2 DEF Good, Route
  <1>21. CASE Deactivate(r)
    <2>1. CASE Back
      BY <1>5, <2>1 DEF Good
    <2>2. CASE /\ Active(p)
               /\ Moved(r, "stopping", q.next, q.left, q.status, FALSE)
      <3>1. Stopping(q)
        BY <1>2, <1>21, Routes DEF Deactivate
      <3>2. loaded' = loaded
        BY <1>21 DEF Deactivate, Memory
      <3>3. loaded'[p] # None
        BY <2>2, <3>2, NoneAssumption DEF Active, Status
      <3> QED
        BY <2>2, <3>1, <3>3, KinDoes DEF Moved, Now, Good, Route
    <2> QED
      BY <1>3, <1>21, <2>1, <2>2 DEF Outcome, Back
  <1>22. CASE SetInactive(r)
    <2>1. Back \/ To("deactivated")
      BY <1>3, <1>22 DEF Outcome, Back, To
    <2>2. Stopping(q)
      BY <1>2, <1>22, Routes DEF SetInactive
    <2> QED
      BY <1>5, <1>6, <2>1, <2>2 DEF Good, Route
  <1>23. CASE StoreInactive(r)
    <2>1. To("rebuild")
      BY <1>3, <1>23 DEF Outcome, To
    <2>2. Stopping(q)
      BY <1>2, <1>23, Routes DEF StoreInactive
    <2> QED
      BY <1>6, <2>1, <2>2 DEF Good, Route
  <1>24. CASE Uninstall(r)
    <2>1. CASE Back
      BY <1>5, <2>1 DEF Good
    <2>2. CASE Now(r, "rebuild", q.next, q.left, q.status, TRUE)
      <3>1. q.kind = "delete" /\ q.next = "directory"
        BY <1>2, <1>24, Routes DEF Uninstall
      <3> QED
        BY <2>2, <3>1 DEF Now, Good, Route, Kin
    <2> QED
      BY <1>3, <1>24, <2>1, <2>2 DEF Outcome, Back
  <1>25. CASE TriggerRebuild(r)
    <2>1. To("wait") \/ To("rebuilt")
      BY <1>3, <1>25 DEF Outcome, To
    <2>2. \/ q.kind = "delete" /\ q.next = "directory"
          \/ Stopping(q)
          \/ Starting(q) /\ q.next \in {"activate", "done"}
      BY <1>2, <1>25, Routes DEF TriggerRebuild
    <2> QED
      BY <1>6, <2>1, <2>2 DEF Good, Route, Kin
  <1>26. CASE Rebuilt(r)
    BY <1>3, <1>5, <1>26 DEF Outcome, Back, Good
  <1> QED
    BY <1>7, <1>8, <1>9, <1>10, <1>11, <1>12, <1>13, <1>14, <1>15, <1>16, <1>17,
       <1>18, <1>19, <1>20, <1>21, <1>22, <1>23, <1>24, <1>25, <1>26, <1>27, <1>28
    DEF Step, Good

\* A step of a request preserves the invariant of the server.
LEMMA StepServer ==
  ASSUME ServerInv, NEW r \in Requests, Step(r)
  PROVE  ServerInv'
  <1> DEFINE q == reqs[r]
             p == reqs[r].plugin
  <1>1. q # None
    BY Acts
  <1>2. TypeOK /\ q \in Request /\ p \in PluginIds /\ Route(q) /\ Knows(q)
    BY <1>1, Knowing
  <1>3. ReqsFrame(r) /\ DiskFrame(r) /\ MemoryFrame(r) /\ SchemaFrame /\ HistoryFrame(r)
    BY StepFrames DEF Frame
  <1>4. TypeOK'
    <2>1. /\ row' \in [PluginIds -> Row \cup {None}]
          /\ files' \subseteq PluginIds /\ tables' \subseteq PluginIds
      BY <1>3 DEF DiskFrame
    <2>2. loaded' \in [PluginIds -> Status \cup {None}] /\ registry' \in Seq(Entry)
      BY <1>3 DEF MemoryFrame
    <2>3. /\ rebuild' \in Rebuild /\ missed' \in BOOLEAN /\ builder' \subseteq Entry
          /\ offered' \subseteq Entry /\ up' \in BOOLEAN
      BY <1>2, <1>3 DEF SchemaFrame, TypeOK
    <2>4. /\ excused' \subseteq PluginIds /\ overlapped' \subseteq PluginIds
          /\ incomplete' \subseteq PluginIds /\ begun' \in Nat /\ faults' \in Nat
      BY <1>2, <1>3 DEF HistoryFrame, TypeOK
    <2>5. reqs' \in [Requests -> Request \cup {None}]
      BY <1>3 DEF ReqsFrame, Typed
    <2> QED
      BY <2>1, <2>2, <2>3, <2>4, <2>5 DEF TypeOK
  <1>5. IsFiniteSet({o \in PluginIds : row[o] # None})'
    <2> DEFINE R == {o \in PluginIds : row[o] # None}
               T == {o \in PluginIds : row'[o] # None}
    <2>1. IsFiniteSet(R)
      BY DEF ServerInv
    <2>2. T \subseteq R \cup {p}
      BY <1>3 DEF DiskFrame
    <2>3. IsFiniteSet(R \cup {p})
      BY <2>1, FS_AddElement
    <2> QED
      BY <2>2, <2>3, FS_Subset
  <1>6. ASSUME NEW s \in Requests, reqs'[s] # None
        PROVE  Route(reqs'[s]) /\ Knows(reqs[s])'
    <2>1. CASE s = r
      <3>1. Kin(q, reqs'[r])
        BY <1>3, <1>6, <2>1 DEF ReqsFrame
      <3>2. reqs'[r].at \in PluginIds \cup {None}
        BY <1>3, <1>6, <2>1 DEF ReqsFrame, Request
      <3>3. reqs'[r].at # None => row'[reqs'[r].at] # None
        BY <1>2, <1>3, <1>6, <2>1, <3>1, <3>2 DEF Knows, DiskFrame, Kin
      <3>4. /\ Route(reqs'[r])
            /\ reqs'[r].pc \in {"extend", "starting", "stopping"} /\ ~reqs'[r].stale =>
                  loaded'[p] # None
        BY <1>6, <2>1, StepRoute
      <3>5. excused \subseteq excused'
        BY <1>3 DEF HistoryFrame
      <3> QED
        BY <1>2, <2>1, <3>1, <3>3, <3>4, <3>5 DEF Kin, Knows
    <2>2. CASE s # r
      <3> DEFINE o == reqs[s].plugin
      <3>1. reqs[s] # None /\ Like(reqs[s], reqs'[s]) /\ SameRow(r, s)
        BY <1>3, <1>6, <2>2 DEF ReqsFrame
      <3>2. Route(reqs[s]) /\ Knows(reqs[s]) /\ o \in PluginIds /\ reqs[s] \in Request
        BY <3>1, Knowing
      <3>3. Route(reqs'[s])
        BY <3>1, <3>2 DEF Like, Route, Stopping, Starting
      <3>4. /\ reqs'[s].kind = reqs[s].kind /\ reqs'[s].plugin = o
            /\ reqs'[s].existed = reqs[s].existed /\ reqs'[s].pc = reqs[s].pc
            /\ ~reqs'[s].stale => ~reqs[s].stale
        BY <3>1 DEF Like
      <3>5. reqs'[s].at # None => row'[reqs'[s].at] # None
        <4>1. CASE reqs'[s].at = reqs[s].at
          <5>1. reqs[s].at \in PluginIds \cup {None}
            BY <3>2 DEF Request
          <5> QED
            BY <1>3, <1>6, <3>2, <4>1, <5>1 DEF Knows, DiskFrame
        <4>2. CASE reqs'[s].at # reqs[s].at
          BY <3>1, <4>2 DEF SameRow
        <4> QED
          BY <4>1, <4>2
      <3>6. reqs[s].kind # "update" /\ reqs'[s].at \notin {None, o} =>
               reqs'[s].at \in excused'
        BY <1>3, <3>1, <3>2 DEF Knows, SameRow, HistoryFrame
      <3>7. reqs[s].pc \in {"extend", "starting", "stopping"} /\ ~reqs'[s].stale =>
               loaded'[o] # None
        <4>1. CASE s \in Working(p)
          <5>1. o = p
            BY <4>1 DEF Working
          <5>2. loaded'[p] = None /\ loaded[p] # None => reqs'[s].stale
            BY <1>3, <2>2, <4>1 DEF MemoryFrame
          <5> QED
            BY <3>2, <3>4, <5>1, <5>2 DEF Knows
        <4>2. CASE s \notin Working(p)
          <5>1. o # p
            BY <3>1, <4>2 DEF Working
          <5>2. loaded'[o] = loaded[o]
            BY <1>3, <3>2, <5>1 DEF MemoryFrame
          <5> QED
            BY <3>2, <3>4, <5>2 DEF Knows
        <4> QED
          BY <4>1, <4>2
      <3> QED
        BY <3>2, <3>3, <3>4, <3>5, <3>6, <3>7 DEF Knows
    <2> QED
      BY <2>1, <2>2
  <1>7. ASSUME NEW s \in Requests, reqs'[s] # None
        PROVE  reqs[s] # None /\ reqs'[s].plugin = reqs[s].plugin
    BY <1>1, <1>3, <1>7 DEF ReqsFrame, Like, Kin
  <1>8. ASSUME NEW o \in PluginIds PROVE Alone(o)'
    <2>1. Alone(o)
      BY DEF ServerInv
    <2>2. \A s \in Working(o)' : s \in Working(o)
      BY <1>7 DEF Working
    <2> QED
      BY <1>3, <2>1, <2>2 DEF Alone, HistoryFrame
  <1>9. (~up => Down)'
    <2>1. up
      BY <1>1 DEF ServerInv, Down
    <2> QED
      BY <1>3, <2>1 DEF SchemaFrame
  <1>10. RebuildInv'
    BY <1>3 DEF SchemaFrame, ServerInv, RebuildInv
  <1> QED
    BY <1>4, <1>5, <1>6, <1>8, <1>9, <1>10 DEF ServerInv

------------------------------------------------------------------------------
(* Requests that begin                                                     *)

\* What a new request about p finds, and where it begins
Entered(q, p) ==
    \/ /\ q.kind = "install" /\ q.pc = "mark" /\ q.next = "done"
       /\ q.existed /\ q.at = p
    \/ /\ q.kind = "delete" /\ q.pc = "uninstall" /\ q.next = "directory"
       /\ q.existed /\ q.at = p
    \/ /\ q.kind = "update" /\ q.next = "done" /\ q.at # None
       /\ q.pc = IF q.at = p THEN "write" ELSE "check"
       /\ q.changed = (row[q.at].activated # q.on)
    \/ /\ q.kind = "upload" /\ q.at = IF row[p] = None THEN None ELSE p
       /\ q.existed = (row[p] # None)
       /\ IF row[p] # None /\ Active(p)
          THEN q.pc = "deactivate" /\ q.next = "extract"
          ELSE q.pc = "extract" /\ q.next = "done"

Begun(r, p) ==
    /\ up /\ reqs[r] = None /\ Typed /\ OthersStay(r)
    /\ reqs'[r] # None /\ reqs'[r] \in Request
    /\ reqs'[r].plugin = p /\ reqs'[r].left = {} /\ ~reqs'[r].stale
    /\ reqs'[r].at # None => row[reqs'[r].at] # None
    /\ Entered(reqs'[r], p)
    /\ UNCHANGED <<Disk, up, Memory, Schema, excused, incomplete, faults>>
    /\ begun' \in Nat
    /\ overlapped' = IF Working(p) # {} THEN overlapped \cup {p} ELSE overlapped

LEMMA Beginning ==
  ASSUME TypeOK, NEW r \in Requests, NEW w \in Request, Begin(r, w)
  PROVE  /\ up /\ reqs[r] = None /\ Typed /\ OthersStay(r)
         /\ reqs'[r] # None /\ reqs'[r] = w
         /\ begun' \in Nat
         /\ overlapped' = IF Working(w.plugin) # {} THEN overlapped \cup {w.plugin}
                          ELSE overlapped
  <1>1. w # None
    BY NoneAssumption
  <1>2. reqs' = [reqs EXCEPT ![r] = w]
    BY DEF Begin
  <1> QED
    BY <1>1, <1>2 DEF TypeOK, Typed, OthersStay, Begin

\* What a new request has in memory
LEMMA Asking ==
  ASSUME TypeOK, NEW p \in PluginIds,
         NEW kind \in {"install", "update", "upload", "delete"},
         NEW on \in BOOLEAN, NEW pc \in Phases,
         NEW next \in {"activate", "extract", "directory", "done"}
  PROVE  LET q == Asked(kind, p, on, pc, next) IN
         /\ q \in Request
         /\ q.kind = kind /\ q.plugin = p /\ q.on = on /\ q.pc = pc
         /\ q.next = next /\ q.left = {} /\ ~q.stale
         /\ q.existed = (row[p] # None)
         /\ q.at = IF row[p] = None THEN None ELSE p
  BY DEF Asked, Request, Status

LEMMA Begins ==
  ASSUME TypeOK, NEW r \in Requests, NEW p \in PluginIds, Mutation(r, p)
  PROVE  \E o \in PluginIds : Begun(r, o)
  <1>1. CASE InstallPlugin(r, p)
    <2> DEFINE q == Asked("install", p, FALSE, "mark", "done")
    <2>1. Begin(r, q) /\ row[p] # None
      BY <1>1 DEF InstallPlugin
    <2>2. UNCHANGED <<Disk, up, Memory, Schema, excused, incomplete, faults>>
      BY <1>1 DEF InstallPlugin
    <2>3. /\ q \in Request /\ q.kind = "install" /\ q.plugin = p /\ q.pc = "mark"
          /\ q.next = "done" /\ q.left = {} /\ ~q.stale /\ q.existed = (row[p] # None)
          /\ q.at = IF row[p] = None THEN None ELSE p
      BY DEF Asked, Request, Phases, Status, TypeOK
    <2> HIDE DEF q
    <2>4. q.existed /\ q.at = p
      BY <2>1, <2>3
    <2>5. /\ up /\ reqs[r] = None /\ Typed /\ OthersStay(r)
          /\ reqs'[r] # None /\ reqs'[r] = q /\ begun' \in Nat
          /\ overlapped' = IF Working(p) # {} THEN overlapped \cup {p} ELSE overlapped
      BY <2>1, <2>3, Beginning
    <2>6. Entered(q, p)
      BY <2>3, <2>4 DEF Entered
    <2> QED
      BY <2>1, <2>2, <2>3, <2>4, <2>5, <2>6 DEF Begun
  <1>2. CASE DeletePlugin(r, p)
    <2> DEFINE q == Asked("delete", p, FALSE, "uninstall", "directory")
    <2>1. Begin(r, q) /\ row[p] # None
      BY <1>2 DEF DeletePlugin
    <2>2. UNCHANGED <<Disk, up, Memory, Schema, excused, incomplete, faults>>
      BY <1>2 DEF DeletePlugin
    <2>3. /\ q \in Request /\ q.kind = "delete" /\ q.plugin = p /\ q.pc = "uninstall"
          /\ q.next = "directory" /\ q.left = {} /\ ~q.stale
          /\ q.existed = (row[p] # None)
          /\ q.at = IF row[p] = None THEN None ELSE p
      BY DEF Asked, Request, Phases, Status, TypeOK
    <2> HIDE DEF q
    <2>4. q.existed /\ q.at = p
      BY <2>1, <2>3
    <2>5. /\ up /\ reqs[r] = None /\ Typed /\ OthersStay(r)
          /\ reqs'[r] # None /\ reqs'[r] = q /\ begun' \in Nat
          /\ overlapped' = IF Working(p) # {} THEN overlapped \cup {p} ELSE overlapped
      BY <2>1, <2>3, Beginning
    <2>6. Entered(q, p)
      BY <2>3, <2>4 DEF Entered
    <2> QED
      BY <2>1, <2>2, <2>3, <2>4, <2>5, <2>6 DEF Begun
  <1>3. ASSUME NEW to \in PluginIds, NEW on \in BOOLEAN, NEW installed \in BOOLEAN,
               UpdatePlugin(r, p, to, on, installed)
        PROVE  Begun(r, to)
    <2> DEFINE pc == IF to = p THEN "write" ELSE "check"
               a == Asked("update", to, on, pc, "done")
               q == [a EXCEPT !.at = p, !.installed = installed,
                              !.changed = row[p].activated # on]
    <2>1. Begin(r, q) /\ row[p] # None
      BY <1>3 DEF UpdatePlugin
    <2>2. UNCHANGED <<Disk, up, Memory, Schema, excused, incomplete, faults>>
      BY <1>3 DEF UpdatePlugin
    <2>3. pc \in Phases
      BY DEF Phases
    <2>4. /\ a \in Request /\ a.kind = "update" /\ a.plugin = to /\ a.pc = pc
          /\ a.on = on /\ a.next = "done" /\ a.left = {} /\ ~a.stale
      BY <1>3, <2>3, Asking
    <2> HIDE DEF a
    <2>5. /\ q \in Request /\ q.kind = "update" /\ q.plugin = to /\ q.pc = pc
          /\ q.on = on /\ q.next = "done" /\ q.left = {} /\ ~q.stale /\ q.at = p
          /\ q.changed = (row[p].activated # on)
      BY <1>3, <2>4 DEF Request
    <2>6. p # None
      BY NoneAssumption
    <2> HIDE DEF q
    <2>7. /\ up /\ reqs[r] = None /\ Typed /\ OthersStay(r)
          /\ reqs'[r] # None /\ reqs'[r] = q /\ begun' \in Nat
          /\ overlapped' = IF Working(to) # {} THEN overlapped \cup {to}
                           ELSE overlapped
      BY <2>1, <2>5, Beginning
    <2>8. Entered(q, to)
      BY <2>5, <2>6 DEF Entered
    <2> QED
      BY <2>1, <2>2, <2>5, <2>7, <2>8 DEF Begun
  <1>4. ASSUME NEW on \in BOOLEAN, UploadPluginZip(r, p, on)
        PROVE  Begun(r, p)
    <2>1. UNCHANGED <<Disk, up, Memory, Schema, excused, incomplete, faults>>
      BY <1>4 DEF UploadPluginZip
    <2>2. CASE row[p] # None /\ Active(p)
      <3> DEFINE q == Asked("upload", p, on, "deactivate", "extract")
      <3>1. Begin(r, q)
        BY <1>4, <2>2 DEF UploadPluginZip
      <3>2. /\ q \in Request /\ q.kind = "upload" /\ q.plugin = p
            /\ q.pc = "deactivate" /\ q.next = "extract" /\ q.left = {} /\ ~q.stale
            /\ q.existed = (row[p] # None)
            /\ q.at = IF row[p] = None THEN None ELSE p
        BY <1>4, Asking DEF Phases
      <3> HIDE DEF q
      <3> QED
        BY <2>1, <2>2, <3>1, <3>2, Beginning DEF Begun, Entered
    <2>3. CASE ~(row[p] # None /\ Active(p))
      <3> DEFINE q == Asked("upload", p, on, "extract", "done")
      <3>1. Begin(r, q)
        BY <1>4, <2>3 DEF UploadPluginZip
      <3>2. /\ q \in Request /\ q.kind = "upload" /\ q.plugin = p
            /\ q.pc = "extract" /\ q.next = "done" /\ q.left = {} /\ ~q.stale
            /\ q.existed = (row[p] # None)
            /\ q.at = IF row[p] = None THEN None ELSE p
        BY <1>4, Asking DEF Phases
      <3> HIDE DEF q
      <3> QED
        BY <2>1, <2>3, <3>1, <3>2, Beginning DEF Begun, Entered
    <2> QED
      BY <2>2, <2>3
  <1> QED
    BY <1>1, <1>2, <1>3, <1>4 DEF Mutation

LEMMA MutationServer ==
  ASSUME ServerInv, NEW r \in Requests, NEW p \in PluginIds, Begun(r, p)
  PROVE  ServerInv'
  <1>1. TypeOK
    BY DEF ServerInv
  <1>2. UNCHANGED <<row, files, tables, up, loaded, registry, rebuild, builder, offered,
                    missed, excused, incomplete, faults>>
    BY DEF Begun, Disk, Memory, Schema
  <1>3. TypeOK'
    <2>1. reqs' \in [Requests -> Request \cup {None}]
      BY DEF Begun, Typed
    <2>2. /\ begun' \in Nat /\ overlapped' \subseteq PluginIds
      BY <1>1 DEF Begun, TypeOK
    <2> QED
      BY <1>1, <1>2, <2>1, <2>2 DEF TypeOK
  <1>4. IsFiniteSet({o \in PluginIds : row[o] # None})'
    BY <1>2 DEF ServerInv
  <1>5. ASSUME NEW s \in Requests, reqs'[s] # None
        PROVE  Route(reqs'[s]) /\ Knows(reqs[s])'
    <2>1. CASE s = r
      <3>1. Route(reqs'[r])
        BY DEF Begun, Entered, Route, Stopping, StopPhases
      <3>2. /\ reqs'[r].kind = "delete" => reqs'[r].existed
            /\ reqs'[r].kind # "update" => reqs'[r].at \in {None, p}
            /\ reqs'[r].pc \notin {"extend", "starting", "stopping"}
            /\ reqs'[r].plugin = p
        BY DEF Begun, Entered
      <3>3. reqs'[r].at # None => row'[reqs'[r].at] # None
        BY <1>2 DEF Begun
      <3> QED
        BY <2>1, <3>1, <3>2, <3>3 DEF Knows
    <2>2. CASE s # r
      <3>1. reqs'[s] = reqs[s]
        BY <2>2 DEF Begun, OthersStay
      <3>2. Route(reqs[s]) /\ Knows(reqs[s])
        BY <1>5, <3>1, Knowing
      <3> QED
        BY <1>2, <3>1, <3>2 DEF Knows
    <2> QED
      BY <2>1, <2>2
  <1>6. ASSUME NEW o \in PluginIds PROVE Alone(o)'
    <2>1. Alone(o)
      BY DEF ServerInv
    <2>2. \A s \in Working(o)' \ {r} : s \in Working(o)
      BY DEF Begun, OthersStay, Working
    <2>3. r \in Working(o)' => o = p
      BY DEF Begun, Working
    <2>4. o \notin overlapped' => o \notin overlapped /\ (o = p => Working(p) = {})
      BY DEF Begun
    <2> QED
      BY <2>1, <2>2, <2>3, <2>4 DEF Alone
  <1>7. (~up => Down)'
    BY DEF Begun
  <1>8. RebuildInv'
    BY <1>2 DEF ServerInv, RebuildInv
  <1> QED
    BY <1>3, <1>4, <1>5, <1>6, <1>7, <1>8 DEF ServerInv

------------------------------------------------------------------------------
(* The other steps                                                         *)

LEMMA CreateServer ==
  ASSUME ServerInv, NEW p \in PluginIds, CreatePlugin(p)
  PROVE  /\ ServerInv'
         /\ row[p] = None /\ row'[p] # None /\ ~row'[p].installed /\ ~row'[p].activated
         /\ \A o \in PluginIds \ {p} : row'[o] = row[o]
  <1> DEFINE w == [installed |-> FALSE, activated |-> FALSE]
  <1>1. TypeOK
    BY DEF ServerInv
  <1>2. w \in Row /\ ~w.installed /\ ~w.activated
    BY DEF Row
  <1>3. w # None
    BY <1>2, NoneAssumption
  <1>4. /\ up /\ row[p] = None /\ row' = [row EXCEPT ![p] = w]
        /\ UNCHANGED <<files, tables, up, loaded, registry, rebuild, builder, offered,
                       missed, reqs, excused, overlapped, incomplete, faults, begun>>
    BY DEF CreatePlugin, Memory, Schema, History
  <1> HIDE DEF w
  <1>5. /\ row' \in [PluginIds -> Row \cup {None}] /\ row'[p] = w
        /\ \A o \in PluginIds \ {p} : row'[o] = row[o]
    BY <1>1, <1>2, <1>4 DEF TypeOK
  <1>6. TypeOK'
    BY <1>1, <1>4, <1>5 DEF TypeOK
  <1>7. IsFiniteSet({o \in PluginIds : row[o] # None})'
    <2> DEFINE R == {o \in PluginIds : row[o] # None}
               T == {o \in PluginIds : row'[o] # None}
    <2>1. T \subseteq R \cup {p}
      BY <1>5
    <2>2. IsFiniteSet(R \cup {p})
      BY FS_AddElement DEF ServerInv
    <2> QED
      BY <2>1, <2>2, FS_Subset
  <1>8. ASSUME NEW s \in Requests, reqs'[s] # None
        PROVE  Route(reqs'[s]) /\ Knows(reqs[s])'
    <2>1. /\ Route(reqs[s]) /\ Knows(reqs[s])
          /\ reqs[s].at \in PluginIds \cup {None}
      BY <1>4, <1>8, Knowing DEF Request
    <2>2. reqs[s].at # None => row'[reqs[s].at] # None
      BY <1>3, <1>5, <2>1 DEF Knows
    <2> QED
      BY <1>4, <2>1, <2>2 DEF Knows
  <1>9. \A o \in PluginIds : Alone(o)'
    BY <1>4 DEF ServerInv, Alone, Working
  <1>10. (~up => Down)' /\ RebuildInv'
    BY <1>4 DEF ServerInv, RebuildInv
  <1> QED
    BY <1>2, <1>3, <1>4, <1>5, <1>6, <1>7, <1>8, <1>9, <1>10 DEF ServerInv

\* A request that waited goes on.
Onward(q, w) ==
    \/ w = q
    \/ /\ q # None /\ w # None /\ w \in Request /\ Kin(q, w)
       /\ w.next = q.next /\ w.left = q.left /\ w.status = q.status
       /\ w.stale = q.stale
       /\ q.pc = "wait" /\ w.pc = "rebuilt"

LEMMA RebuildDoes ==
  ASSUME TypeOK, RebuildStep
  PROVE  /\ UNCHANGED <<row, files, tables, up, loaded, registry, missed, excused,
                        overlapped, incomplete, faults, begun>>
         /\ rebuild' \in Rebuild /\ builder' \subseteq Entry /\ offered' \subseteq Entry
         /\ RebuildInv'
         /\ Typed
         /\ \A s \in Requests : Onward(reqs[s], reqs'[s])
         /\ \A p : Working(p)' = Working(p)
  <1>1. UNCHANGED <<row, files, tables, up, loaded, registry, missed, excused,
                    overlapped, incomplete, faults, begun>>
    BY DEF RebuildStep, TakeExtensions, RegisterExtension, FinishRebuild,
           Disk, Memory, History
  <1>2. /\ rebuild \in Rebuild /\ rebuild.todo \in Seq(Entry)
        /\ builder \subseteq Entry /\ registry \in Seq(Entry)
    BY DEF TypeOK, Rebuild
  <1>3. ASSUME rebuild.todo # <<>>
        PROVE  Head(rebuild.todo) \in Entry /\ Tail(rebuild.todo) \in Seq(Entry)
    BY <1>2, <1>3, RangeTail
  <1>4. /\ rebuild' \in Rebuild /\ builder' \subseteq Entry /\ offered' \subseteq Entry
        /\ RebuildInv'
    <2>1. CASE TakeExtensions
      <3>1. rebuild' = [rebuild EXCEPT !.pc = "loop", !.todo = registry]
            /\ builder' = builder /\ offered' = offered
        BY <2>1 DEF TakeExtensions
      <3> QED
        BY <1>2, <3>1 DEF Rebuild, TypeOK, RebuildInv
    <2>2. CASE RegisterExtension
      <3>1. rebuild.todo # <<>> /\ offered' = offered
        BY <2>2 DEF RegisterExtension
      <3> DEFINE h == Head(rebuild.todo)
                 t == Tail(rebuild.todo)
      <3>2. /\ \/ rebuild' = [rebuild EXCEPT !.pc = "loop", !.todo = t]
               \/ rebuild' = [rebuild EXCEPT !.pc = "types"]
               \/ rebuild' = [rebuild EXCEPT !.todo = t] /\ rebuild.pc = "loop"
            /\ builder' \in {builder, builder \cup {h}}
        BY <2>2 DEF RegisterExtension
      <3>3. h \in Entry /\ t \in Seq(Entry)
        BY <1>3, <3>1
      <3> HIDE DEF h, t
      <3>4. builder' \subseteq Entry
        BY <1>2, <3>2, <3>3
      <3>5. rebuild' \in Rebuild
        <4>1. CASE rebuild' = [rebuild EXCEPT !.pc = "loop", !.todo = t]
          BY <1>2, <3>3, <4>1 DEF Rebuild
        <4>2. CASE rebuild' = [rebuild EXCEPT !.pc = "types"]
          BY <1>2, <4>2 DEF Rebuild
        <4>3. CASE rebuild' = [rebuild EXCEPT !.todo = t]
          BY <1>2, <3>3, <4>3 DEF Rebuild
        <4> QED
          BY <3>2, <4>1, <4>2, <4>3
      <3>6. RebuildInv'
        BY <1>2, <3>1, <3>2 DEF Rebuild, RebuildInv
      <3> QED
        BY <3>1, <3>4, <3>5, <3>6 DEF TypeOK
    <2>3. CASE FinishRebuild
      <3>1. rebuild' = NoRebuild /\ offered' = builder /\ builder' = builder
        BY <2>3 DEF FinishRebuild
      <3>2. NoRebuild.pc = "off"
        BY DEF NoRebuild
      <3> QED
        BY <1>2, <3>1, <3>2, NothingRebuilt DEF RebuildInv
    <2> QED
      BY <2>1, <2>2, <2>3 DEF RebuildStep
  <1>5. Typed /\ \A s \in Requests : Onward(reqs[s], reqs'[s])
    <2>1. CASE reqs' = reqs
      BY <2>1 DEF Typed, Onward, TypeOK
    <2>2. CASE reqs' = Resume
      <3>1. ASSUME NEW s \in Requests, At(s, "wait")
            PROVE  /\ reqs'[s] # None /\ reqs'[s] \in Request
                   /\ Onward(reqs[s], reqs'[s])
        <4> DEFINE w == [reqs[s] EXCEPT !.pc = "rebuilt"]
        <4>1. reqs'[s] = w /\ reqs[s] \in Request /\ reqs[s] # None
              /\ reqs[s].pc = "wait"
          BY <2>2, <3>1 DEF Resume, At, TypeOK
        <4>2. /\ w \in Request /\ Kin(reqs[s], w) /\ w.next = reqs[s].next
              /\ w.left = reqs[s].left /\ w.status = reqs[s].status
              /\ w.stale = reqs[s].stale /\ w.pc = "rebuilt"
          BY <4>1 DEF Request, Kin, Phases
        <4>3. w # None
          BY <4>2, NoneAssumption
        <4> HIDE DEF w
        <4> QED
          BY <4>1, <4>2, <4>3 DEF Onward
      <3>2. ASSUME NEW s \in Requests, ~At(s, "wait")
            PROVE  reqs'[s] = reqs[s]
        BY <2>2, <3>2 DEF Resume
      <3>3. \A s \in Requests : reqs'[s] \in Request \cup {None}
        BY <3>1, <3>2 DEF TypeOK
      <3>4. reqs' = [s \in Requests |-> reqs'[s]]
        BY <2>2 DEF Resume
      <3>5. Typed
        BY <3>3, <3>4 DEF Typed
      <3> QED
        BY <3>1, <3>2, <3>5 DEF Onward
    <2> QED
      BY <2>1, <2>2 DEF RebuildStep, TakeExtensions, RegisterExtension, FinishRebuild
  <1>6. \A p : Working(p)' = Working(p)
    BY <1>5 DEF Working, Onward, Kin
  <1> QED
    BY <1>1, <1>4, <1>5, <1>6

LEMMA RebuildServer ==
  ASSUME ServerInv, RebuildStep
  PROVE  ServerInv'
  <1>1. TypeOK
    BY DEF ServerInv
  <1>2. /\ UNCHANGED <<row, files, tables, up, loaded, registry, missed, excused,
                       overlapped, incomplete, faults, begun>>
        /\ rebuild' \in Rebuild /\ builder' \subseteq Entry /\ offered' \subseteq Entry
        /\ RebuildInv'
        /\ Typed
        /\ \A s \in Requests : Onward(reqs[s], reqs'[s])
        /\ \A p : Working(p)' = Working(p)
    BY <1>1, RebuildDoes
  <1>3. TypeOK'
    BY <1>1, <1>2 DEF TypeOK, Typed
  <1>4. ASSUME NEW s \in Requests, reqs'[s] # None
        PROVE  Route(reqs'[s]) /\ Knows(reqs[s])'
    <2>1. reqs[s] # None /\ Onward(reqs[s], reqs'[s])
      BY <1>2, <1>4 DEF Onward
    <2>2. Route(reqs[s]) /\ Knows(reqs[s])
      BY <2>1, Knowing
    <2>3. /\ reqs'[s].kind = reqs[s].kind
          /\ reqs'[s].at \in {reqs[s].at, None}
          /\ reqs'[s].plugin = reqs[s].plugin /\ reqs'[s].existed = reqs[s].existed
          /\ reqs'[s].stale = reqs[s].stale
          /\ reqs'[s].pc = reqs[s].pc \/ reqs'[s].pc = "rebuilt"
      BY <2>1 DEF Onward, Kin
    <2>4. Knows(reqs[s])'
      BY <1>2, <2>2, <2>3 DEF Knows
    <2>5. Route(reqs'[s])
      <3>1. CASE reqs'[s] = reqs[s]
        BY <2>2, <3>1
      <3>2. CASE reqs'[s] # reqs[s]
        <4>1. /\ Kin(reqs[s], reqs'[s]) /\ reqs'[s].next = reqs[s].next
              /\ reqs[s].pc = "wait" /\ reqs'[s].pc = "rebuilt"
          BY <2>1, <3>2 DEF Onward
        <4>2. \/ reqs[s].kind = "delete" /\ reqs[s].next = "directory"
              \/ Stopping(reqs[s])
              \/ Starting(reqs[s]) /\ reqs[s].next \in {"activate", "done"}
          BY <2>2, <4>1, Routes DEF LastPhases
        <4> QED
          BY <4>1, <4>2, KinDoes DEF Route, Kin, LastPhases
      <3> QED
        BY <3>1, <3>2
    <2> QED
      BY <2>4, <2>5
  <1>5. ASSUME NEW o \in PluginIds PROVE Alone(o)'
    <2>1. Alone(o) /\ Working(o)' = Working(o)
      BY <1>2 DEF ServerInv
    <2> QED
      BY <1>2, <2>1 DEF Alone
  <1>6. up'
    <2>1. CASE up
      BY <1>2, <2>1
    <2>2. CASE ~up
      <3>1. rebuild.pc = "off"
        BY <2>2 DEF ServerInv, Down, NoRebuild
      <3> QED
        BY <3>1 DEF RebuildStep, TakeExtensions, RegisterExtension, FinishRebuild
    <2> QED
      BY <2>1, <2>2
  <1>7. IsFiniteSet({o \in PluginIds : row[o] # None})'
    BY <1>2 DEF ServerInv
  <1> QED
    BY <1>2, <1>3, <1>4, <1>5, <1>6, <1>7 DEF ServerInv

\* What the process loads when it starts
Present == {p \in PluginIds : row[p] # None /\ row[p].installed /\ p \in files}

LEMMA StartDoes ==
  ASSUME ServerInv, Start
  PROVE  /\ ~up /\ up' = TRUE /\ Down
         /\ loaded' = [p \in PluginIds |->
                          IF p \notin Present THEN None ELSE StatusOf(p)]
         /\ builder' = {p \in Present : row[p].activated} \X Extensions
         /\ offered' = {p \in Present : row[p].activated} \X Extensions
         /\ excused' = {p \in PluginIds \ Present : row[p] # None /\ row[p].activated}
         /\ registry' \in Seq(Entry) /\ Range(registry') = Present \X Extensions
         /\ \A e : Often(registry', e) = IF e \in Present \X Extensions THEN 1 ELSE 0
         /\ UNCHANGED <<row, files, tables, rebuild, missed, reqs, overlapped,
                        incomplete, faults, begun>>
  <1>1. ~up /\ Down
    BY DEF Start, ServerInv
  <1>2. /\ up' = TRUE
        /\ loaded' = [p \in PluginIds |->
                         IF p \notin Present THEN None ELSE StatusOf(p)]
        /\ builder' = {p \in Present : row[p].activated} \X Extensions
        /\ offered' = builder'
        /\ excused' = {p \in PluginIds \ Present : row[p] # None /\ row[p].activated}
        /\ registry' \in SetToSeqs(Present \X Extensions)
        /\ UNCHANGED <<row, files, tables, rebuild, missed, reqs, overlapped,
                       incomplete, faults, begun>>
    BY DEF Start, Present, Disk
  <1>3. IsFiniteSet(Present \X Extensions)
    <2>1. Present \subseteq {p \in PluginIds : row[p] # None}
      BY DEF Present
    <2>2. IsFiniteSet(Present)
      BY <2>1, FS_Subset DEF ServerInv
    <2> QED
      BY <2>2, FS_Product, ExtensionsAssumption
  <1>4. /\ registry' \in Seq(Present \X Extensions)
        /\ Range(registry') = Present \X Extensions
        /\ \A e : Often(registry', e) = IF e \in Present \X Extensions THEN 1 ELSE 0
    BY <1>2, <1>3, EachOnce
  <1>5. Present \X Extensions \subseteq Entry
    BY DEF Present, Entry
  <1>6. registry' \in Seq(Entry)
    BY <1>4, <1>5
  <1> QED
    BY <1>1, <1>2, <1>4, <1>6

LEMMA StartServer ==
  ASSUME ServerInv, Start
  PROVE  ServerInv'
  <1>1. TypeOK
    BY DEF ServerInv
  <1>2. /\ up' = TRUE /\ Down
        /\ builder' \subseteq Entry /\ offered' \subseteq Entry /\ registry' \in Seq(Entry)
        /\ loaded' \in [PluginIds -> Status \cup {None}]
        /\ excused' \subseteq PluginIds
        /\ UNCHANGED <<row, files, tables, rebuild, missed, reqs, overlapped,
                       incomplete, faults, begun>>
    <2>1. /\ up' = TRUE /\ Down /\ registry' \in Seq(Entry)
          /\ UNCHANGED <<row, files, tables, rebuild, missed, reqs, overlapped,
                         incomplete, faults, begun>>
      BY StartDoes
    <2>2. builder' \subseteq Entry /\ offered' \subseteq Entry
      BY StartDoes DEF Present, Entry
    <2>3. loaded' \in [PluginIds -> Status \cup {None}]
      <3>1. \A p : StatusOf(p) \in Status
        BY DEF StatusOf, Status
      <3> QED
        BY <3>1, StartDoes
    <2>4. excused' \subseteq PluginIds
      BY <1>1, StartDoes DEF TypeOK
    <2> QED
      BY <2>1, <2>2, <2>3, <2>4
  <1>3. TypeOK'
    BY <1>1, <1>2 DEF TypeOK
  <1>4. \A s \in Requests : reqs'[s] = None
    BY <1>2 DEF Down
  <1>5. \A o \in PluginIds : Alone(o)'
    BY <1>4 DEF Alone, Working
  <1>6. RebuildInv'
    BY <1>2 DEF Down, NoRebuild, RebuildInv
  <1>7. IsFiniteSet({o \in PluginIds : row[o] # None})'
    BY <1>2 DEF ServerInv
  <1> QED
    BY <1>2, <1>3, <1>4, <1>5, <1>6, <1>7 DEF ServerInv

LEMMA ExitDoes ==
  ASSUME ServerInv, Exit
  PROVE  /\ Down' /\ up' = FALSE
         /\ \A p : Working(p)' = {}
         /\ incomplete' = incomplete \cup
               {reqs[r].plugin :
                  r \in {s \in Requests : reqs[s] # None /\ Unfinished(reqs[s])}}
         /\ UNCHANGED <<row, files, tables, begun>>
         /\ ServerInv'
  <1>1. TypeOK
    BY DEF ServerInv
  <1>2. /\ up' = FALSE /\ missed' = FALSE /\ faults' \in Nat
        /\ loaded' = [p \in PluginIds |-> None] /\ registry' = <<>>
        /\ rebuild' = NoRebuild /\ builder' = {} /\ offered' = {}
        /\ reqs' = [r \in Requests |-> None]
        /\ excused' = {} /\ overlapped' = {}
        /\ UNCHANGED <<row, files, tables, begun>>
    BY <1>1 DEF Exit, Disk, TypeOK
  <1>3. incomplete' = incomplete \cup
               {reqs[r].plugin :
                  r \in {s \in Requests : reqs[s] # None /\ Unfinished(reqs[s])}}
    <2>1. incomplete' = incomplete \cup
             {reqs[r].plugin : r \in {s \in {t \in Requests : reqs[t] # None} :
                                         Unfinished(reqs[s])}}
      BY DEF Exit
    <2>2. {s \in {t \in Requests : reqs[t] # None} : Unfinished(reqs[s])}
             = {s \in Requests : reqs[s] # None /\ Unfinished(reqs[s])}
      OBVIOUS
    <2> QED
      BY <2>1, <2>2
  <1>4. \A s \in Requests : reqs'[s] = None
    BY <1>2
  <1>5. incomplete' \subseteq PluginIds
    BY <1>1, <1>3 DEF TypeOK, Request
  <1>6. Down'
    BY <1>2 DEF Down
  <1>7. TypeOK'
    <2>1. /\ loaded' \in [PluginIds -> Status \cup {None}]
          /\ reqs' \in [Requests -> Request \cup {None}]
          /\ builder' \subseteq Entry /\ offered' \subseteq Entry
          /\ registry' \in Seq(Entry)
      BY <1>2
    <2>2. rebuild' \in Rebuild /\ up' \in BOOLEAN /\ missed' \in BOOLEAN
      BY <1>2, NothingRebuilt
    <2>3. excused' \subseteq PluginIds /\ overlapped' \subseteq PluginIds
      BY <1>2
    <2> QED
      BY <1>1, <1>2, <1>5, <2>1, <2>2, <2>3 DEF TypeOK
  <1>8. RebuildInv'
    BY <1>2 DEF NoRebuild, RebuildInv
  <1>9. IsFiniteSet({o \in PluginIds : row[o] # None})'
    BY <1>2 DEF ServerInv
  <1>10. \A o \in PluginIds : Alone(o)'
    BY <1>4 DEF Alone, Working
  <1>11. \A p : Working(p)' = {}
    BY <1>4 DEF Working
  <1> QED
    BY <1>2, <1>3, <1>4, <1>6, <1>7, <1>8, <1>9, <1>10, <1>11 DEF ServerInv

LEMMA InitServer == Init => ServerInv
  <1> SUFFICES ASSUME Init PROVE ServerInv
    OBVIOUS
  <1>1. /\ row = [p \in PluginIds |-> None] /\ reqs = [r \in Requests |-> None]
        /\ ~up /\ Down
    BY DEF Init, Down
  <1>2. <<>> \in Seq(Entry)
    OBVIOUS
  <1>3. TypeOK
    BY <1>2, NothingRebuilt DEF Init, TypeOK
  <1>4. {p \in PluginIds : row[p] # None} = {}
    BY <1>1
  <1>5. IsFiniteSet({p \in PluginIds : row[p] # None})
    BY <1>4, FS_EmptySet
  <1>6. RebuildInv
    BY DEF Init, NoRebuild, RebuildInv
  <1>7. \A o \in PluginIds : Alone(o)
    BY <1>1 DEF Alone, Working
  <1> QED
    BY <1>1, <1>3, <1>5, <1>6, <1>7 DEF ServerInv

\* The steps of the process and of the administrators
LEMMA Steps ==
  ASSUME TypeOK, Next
  PROVE  \/ \E p \in PluginIds : CreatePlugin(p)
         \/ \E p \in PluginIds, r \in Requests : Begun(r, p)
         \/ \E r \in Requests : Step(r)
         \/ RebuildStep \/ Start \/ Exit
  BY Begins DEF Next

LEMMA NextServer == ServerInv /\ [Next]_vars => ServerInv'
  <1> SUFFICES ASSUME ServerInv, [Next]_vars PROVE ServerInv'
    OBVIOUS
  <1>1. CASE Next
    <2>1. TypeOK
      BY DEF ServerInv
    <2> QED
      BY <1>1, <2>1, Steps, CreateServer, MutationServer, StepServer, RebuildServer,
         StartServer, ExitDoes
  <1>2. CASE UNCHANGED vars
    <2>1. UNCHANGED <<row, files, tables, up, loaded, registry, rebuild, builder, offered,
                      missed, reqs, excused, overlapped, incomplete, faults, begun>>
      BY <1>2 DEF vars, Disk, Memory, Schema, History
    <2> QED
      BY <2>1 DEF ServerInv, TypeOK, Down, Alone, Working, Knows, RebuildInv
  <1> QED
    BY <1>1, <1>2

\* The type of the rows, of the process's memory and of the history
THEOREM TypeCorrect == Spec => []TypeOK
  <1>1. ServerInv => TypeOK
    BY DEF ServerInv
  <1> QED
    BY <1>1, InitServer, NextServer, PTL DEF Spec

------------------------------------------------------------------------------
(* Installed plugins have their tables                                     *)

\* What a step of a request about one plugin does to another plugin
LEMMA Elsewhere ==
  ASSUME ServerInv, NEW r \in Requests, Step(r),
         NEW o \in PluginIds \ {reqs[r].plugin}
  PROVE  /\ loaded'[o] = loaded[o]
         /\ o \in files' <=> o \in files
         /\ o \in tables' <=> o \in tables
         /\ Working(o)' = Working(o)
         /\ \A s \in Working(o) :
               /\ s # r /\ Like(reqs[s], reqs'[s]) /\ SameRow(r, s)
               /\ reqs'[s].stale = reqs[s].stale
         /\ overlapped' = overlapped /\ up' = up /\ excused \subseteq excused'
         /\ \A x \in Extensions : Often(registry', <<o, x>>) = Often(registry, <<o, x>>)
  <1> DEFINE p == reqs[r].plugin
  <1>1. ReqsFrame(r) /\ DiskFrame(r) /\ MemoryFrame(r) /\ SchemaFrame /\ HistoryFrame(r)
    BY StepFrames DEF Frame
  <1>2. /\ r \notin Working(o)
        /\ reqs'[r] # None => reqs'[r].plugin # o
    BY <1>1 DEF ReqsFrame, Kin, Working
  <1>3. ASSUME NEW s \in Working(o)
        PROVE  /\ s # r /\ Like(reqs[s], reqs'[s]) /\ SameRow(r, s)
               /\ reqs'[s].stale = reqs[s].stale /\ s \in Working(o)'
    <2>1. s # r /\ s \notin Working(p) /\ s \in Requests /\ reqs[s] # None
          /\ reqs[s].plugin = o
      BY <1>2 DEF Working
    <2>2. Like(reqs[s], reqs'[s]) /\ SameRow(r, s) /\ reqs'[s].stale = reqs[s].stale
      BY <1>1, <2>1 DEF ReqsFrame
    <2> QED
      BY <2>1, <2>2 DEF Like, Working
  <1>4. ASSUME NEW s \in Working(o)' PROVE s \in Working(o)
    <2>1. s \in Requests /\ s # r /\ reqs'[s] # None /\ reqs'[s].plugin = o
      BY <1>2 DEF Working
    <2>2. reqs[s] # None /\ Like(reqs[s], reqs'[s])
      BY <1>1, <2>1 DEF ReqsFrame
    <2> QED
      BY <2>1, <2>2 DEF Working, Like
  <1>5. ASSUME NEW x \in Extensions
        PROVE  Often(registry', <<o, x>>) = Often(registry, <<o, x>>)
    <2>1. <<o, x>> \in Entry /\ <<o, x>>[1] # p
      BY DEF Entry
    <2> QED
      BY <1>1, <2>1 DEF MemoryFrame
  <1>6. Working(o)' = Working(o)
    BY <1>3, <1>4
  <1> QED
    BY <1>1, <1>3, <1>5, <1>6 DEF DiskFrame, MemoryFrame, SchemaFrame, HistoryFrame

\* What a step of a request leaves of the others about its plugin
LEMMA Beside ==
  ASSUME ServerInv, NEW r \in Requests, Step(r),
         NEW p, p = reqs[r].plugin
  PROVE  /\ r \in Working(p) /\ p \in PluginIds
         /\ \A s \in Working(p) \ {r} :
               /\ s \in Working(p)'
               /\ reqs'[s].kind = reqs[s].kind /\ reqs'[s].pc = reqs[s].pc
               /\ reqs'[s].left = reqs[s].left /\ SameRow(r, s)
         /\ \A s \in Working(p)' : s \in Working(p)
         /\ reqs'[r] # None => r \in Working(p)'
  <1>1. reqs[r] # None /\ reqs[r].plugin \in PluginIds
    BY Acts, Knowing
  <1>2. ReqsFrame(r)
    BY StepFrames DEF Frame
  <1>3. r \in Working(p)
    BY <1>1 DEF Working
  <1>4. ASSUME NEW s \in Working(p) \ {r}
        PROVE  /\ s \in Working(p)'
               /\ reqs'[s].kind = reqs[s].kind /\ reqs'[s].pc = reqs[s].pc
               /\ reqs'[s].left = reqs[s].left /\ SameRow(r, s)
    <2>1. /\ s \in Requests /\ reqs[s] # None /\ reqs[s].plugin = reqs[r].plugin
          /\ Like(reqs[s], reqs'[s]) /\ SameRow(r, s)
      BY <1>2 DEF ReqsFrame, Working
    <2> QED
      BY <2>1 DEF Working, Like
  <1>5. ASSUME NEW s \in Working(p)' PROVE s \in Working(p)
    <2>1. CASE s = r
      BY <1>3, <2>1
    <2>2. CASE s # r
      <3>1. s \in Requests /\ reqs'[s] # None /\ reqs'[s].plugin = p
        BY <2>2 DEF Working
      <3>2. reqs[s] # None /\ Like(reqs[s], reqs'[s])
        BY <1>2, <2>2, <3>1 DEF ReqsFrame
      <3> QED
        BY <3>1, <3>2 DEF Working, Like
    <2> QED
      BY <2>1, <2>2
  <1>6. reqs'[r] # None => r \in Working(p)'
    BY <1>2 DEF ReqsFrame, Working, Kin
  <1> QED
    BY <1>1, <1>3, <1>4, <1>5, <1>6

\* A request that is about to create the tables of p or to delete its row
Mending(q, p) ==
    q.pc = "install" \/ (q.kind = "delete" /\ q.pc # "uninstall" /\ q.at = p)

\* What a step of a request does to the tables and the row of its plugin
LEMMA StepMends ==
  ASSUME ServerInv, NEW r \in Requests, Step(r), NEW p, p = reqs[r].plugin,
         p \notin incomplete'
  PROVE  LET Mends == reqs'[r] # None /\ Mending(reqs'[r], p) IN
         /\ p \in tables => p \in tables' \/ Mends
         /\ Mending(reqs[r], p) => p \in tables' \/ Mends \/ row'[p] = None
         /\ row'[p] # None /\ row'[p].installed =>
               Mends \/ (row[p] # None /\ row[p].installed)
  <1> DEFINE q == reqs[r]
             w == reqs'[r]
             To(pc) == Moved(r, pc, q.next, q.left, q.status, q.stale)
             Back == IF q.next = "done" THEN Left(r)
                     ELSE Moved(r, q.next, "done", q.left, q.status, q.stale)
             Mends == w # None /\ Mending(w, p)
             Holds == p \in tables => p \in tables' \/ Mends
             Mended == p \in tables' \/ Mends \/ row'[p] = None
             Same == row'[p] # None /\ row'[p].installed
                     => Mends \/ (row[p] # None /\ row[p].installed)
  <1> SUFFICES Holds /\ (Mending(q, p) => Mended) /\ Same
    OBVIOUS
  <1>1. q # None
    BY Acts
  <1>2. TypeOK /\ q \in Request /\ p \in PluginIds /\ Route(q) /\ Knows(q)
    BY <1>1, Knowing
  <1>3. Outcome(r)
    BY <1>1, <1>2, Outcomes
  <1>4. q.at \in PluginIds \cup {None}
    BY <1>2 DEF Request
  <1>5. ASSUME row' = row PROVE Same
    BY <1>5
  <1>6. ASSUME tables' = tables PROVE Holds
    BY <1>6
  <1>7. ASSUME q.pc \in LoadPhases \cup RunPhases \cup StopPhases
                        \cup {"mark", "check", "write", "extract", "record", "uninstall"}
        PROVE  ~Mending(q, p)
    BY <1>2, <1>7, Routes DEF Mending, Starting, Stopping, LoadPhases, RunPhases,
       StopPhases
  <1> USE DEF At, LoadPhases, RunPhases, StopPhases, LastPhases
  <1> HIDE DEF Holds, Mended, Same, Back
  <1>8. ASSUME NEW active \in BOOLEAN, Store(r, active) PROVE Same
    BY <1>2, <1>8 DEF Store, Same, TypeOK, Row
  <1>9. CASE Install(r)
    <2>1. p \in tables'
      BY <1>2, <1>9 DEF Install, CreateTables
    <2> QED
      BY <1>5, <1>9, <2>1 DEF Install, Holds, Mended
  <1>29. CASE Mark(r)
    <2>1. To("install")
      BY <1>3, <1>29 DEF Outcome
    <2>2. w # None /\ Mending(w, p)
      BY <2>1 DEF Moved, Now, Mending
    <2> QED
      BY <1>6, <1>7, <1>29, <2>2 DEF Mark, Same
  <1>30. CASE Check(r)
    BY <1>5, <1>6, <1>7, <1>30 DEF Check, Disk
  <1>31. CASE Clash(r)
    BY <1>5, <1>6, <1>7, <1>31 DEF Clash, Disk
  <1>10. CASE Write(r)
    <2>1. tables' = tables /\ q.pc = "write"
      BY <1>10 DEF Write
    <2>2. Same
      <3>1. CASE q.at = None
        BY <1>5, <1>10, <3>1 DEF Write
      <3>2. CASE q.at # None
        <4> DEFINE new == [installed |-> q.installed, activated |-> q.on]
        <4>1. row' = [row EXCEPT ![q.at] = None, ![p] = new]
          BY <1>10, <3>2 DEF Write
        <4>2. row'[p] = new /\ new.installed = q.installed
          BY <1>2, <4>1 DEF TypeOK
        <4>3. q.installed => q.at = p /\ row[p].installed
          BY <1>10, <3>2 DEF Write
        <4>4. q.at = p => row[p] # None
          BY <1>2, <3>2 DEF Knows
        <4> QED
          BY <4>2, <4>3, <4>4 DEF Same
      <3> QED
        BY <3>1, <3>2
    <2> QED
      BY <1>6, <1>7, <2>1, <2>2
  <1>11. CASE Extract(r)
    BY <1>5, <1>6, <1>7, <1>11 DEF Extract
  <1>12. CASE Record(r)
    <2>1. Same
      <3>1. CASE q.at = None
        BY <1>5, <1>12, <3>1 DEF Record
      <3>2. CASE q.at # None
        <4> DEFINE new == [row[q.at] EXCEPT !.installed = FALSE]
        <4>1. row' = [row EXCEPT ![q.at] = new]
          BY <1>12, <3>2 DEF Record
        <4>2. row[q.at] \in Row
          BY <1>2, <1>4, <3>2 DEF Knows, TypeOK
        <4>3. ~new.installed
          BY <4>2 DEF Row
        <4> HIDE DEF new
        <4>4. row'[p] = row[p] \/ row'[p] = new
          BY <1>2, <4>1 DEF TypeOK
        <4> QED
          BY <4>3, <4>4 DEF Same
      <3> QED
        BY <3>1, <3>2
    <2> QED
      BY <1>6, <1>7, <1>12, <2>1 DEF Record
  <1>13. CASE RemoveDirectory(r)
    <2>1. To("delete")
      BY <1>3, <1>13 DEF Outcome
    <2>2. q.kind = "delete"
      BY <1>2, <1>13, Routes DEF RemoveDirectory
    <2>3. Mending(q, p) => w # None /\ Mending(w, p)
      BY <1>13, <2>1, <2>2 DEF Moved, Now, Kin, Mending, RemoveDirectory
    <2> QED
      BY <1>5, <1>6, <1>13, <2>3 DEF RemoveDirectory, Mended
  <1>14. CASE Delete(r)
    <2>1. row' = IF q.at = None THEN row ELSE [row EXCEPT ![q.at] = None]
      BY <1>14 DEF Delete
    <2>2. row'[p] = row[p] \/ row'[p] = None
      BY <1>2, <2>1 DEF TypeOK
    <2>3. Mending(q, p) => row'[p] = None
      BY <1>2, <1>14, <2>1, NoneAssumption DEF Delete, TypeOK, Mending
    <2> QED
      BY <1>6, <1>14, <2>2, <2>3 DEF Delete, Mended, Same
  <1>15. CASE Load(r)
    BY <1>5, <1>6, <1>7, <1>15 DEF Load, Disk
  <1>16. CASE Read(r)
    BY <1>5, <1>6, <1>7, <1>16 DEF Read, Disk
  <1>17. CASE Extend(r)
    BY <1>5, <1>6, <1>7, <1>17 DEF Extend, Disk
  <1>18. CASE ExtendFails(r)
    BY <1>5, <1>6, <1>7, <1>18 DEF ExtendFails, Disk
  <1>19. CASE Loaded(r)
    BY <1>5, <1>6, <1>7, <1>19 DEF Loaded, Disk
  <1>20. CASE Activate(r)
    BY <1>5, <1>6, <1>7, <1>20 DEF Activate, Disk
  <1>21. CASE SetActive(r)
    BY <1>5, <1>6, <1>7, <1>21 DEF SetActive, Disk
  <1>22. CASE StoreActive(r)
    BY <1>6, <1>7, <1>8, <1>22 DEF StoreActive
  <1>23. CASE Deactivate(r)
    BY <1>5, <1>6, <1>7, <1>23 DEF Deactivate, Disk
  <1>24. CASE SetInactive(r)
    BY <1>5, <1>6, <1>7, <1>24 DEF SetInactive, Disk
  <1>25. CASE StoreInactive(r)
    BY <1>6, <1>7, <1>8, <1>25 DEF StoreInactive
  <1>26. CASE Uninstall(r)
    <2>1. q.kind = "delete" /\ q.next = "directory" /\ ~Mending(q, p)
      BY <1>2, <1>7, <1>26, Routes DEF Uninstall
    <2>2. Same
      BY <1>5, <1>26 DEF Uninstall
    <2>3. CASE Now(r, "rebuild", q.next, q.left, q.status, TRUE) /\ Unloads(p, q.at)
      <3>1. w # None /\ w.kind = "delete" /\ w.at = q.at /\ w.pc = "rebuild"
        BY <2>1, <2>3 DEF Now, Kin
      <3>2. tables' = tables \/ q.at = p
        BY <2>3 DEF Unloads
      <3> QED
        BY <2>1, <2>2, <3>1, <3>2 DEF Holds, Mending
    <2>4. CASE NotUninstalled(p)
      BY <1>6, <2>1, <2>2, <2>4 DEF NotUninstalled
    <2> QED
      BY <1>3, <1>26, <2>3, <2>4 DEF Outcome
  <1>27. CASE TriggerRebuild(r)
    <2>1. To("wait") \/ To("rebuilt")
      BY <1>3, <1>27 DEF Outcome
    <2>2. Mending(q, p) => w # None /\ Mending(w, p)
      BY <1>27, <2>1 DEF TriggerRebuild, Mending, Moved, Now, Kin
    <2> QED
      BY <1>5, <1>6, <1>27, <2>2 DEF TriggerRebuild, Disk, Mended
  <1>28. CASE Rebuilt(r)
    <2>1. ASSUME Mending(q, p) PROVE w # None /\ Mending(w, p)
      <3>1. q.kind = "delete" /\ q.next = "directory" /\ q.at = p
        BY <1>2, <1>28, <2>1, Routes DEF Rebuilt, Mending, Stopping, Starting
      <3>2. Moved(r, "directory", "done", q.left, q.status, q.stale)
        BY <1>3, <1>28, <3>1 DEF Outcome
      <3> QED
        BY <3>1, <3>2 DEF Moved, Now, Kin, Mending
    <2> QED
      BY <1>5, <1>6, <1>28, <2>1 DEF Rebuilt, Disk, Mended
  <1> QED
    BY <1>9, <1>10, <1>11, <1>12, <1>13, <1>14, <1>15, <1>16, <1>17, <1>18, <1>19,
       <1>20, <1>21, <1>22, <1>23, <1>24, <1>25, <1>26, <1>27, <1>28, <1>29, <1>30,
       <1>31 DEF Step

\* A request that mends a row still does after a step of another one, or the row
\* is gone.
LEMMA MendingStays ==
  ASSUME NEW r \in Requests, NEW s \in Requests, NEW p, SameRow(r, s),
         reqs'[s].kind = reqs[s].kind, reqs'[s].pc = reqs[s].pc, Mending(reqs[s], p)
  PROVE  Mending(reqs'[s], p) \/ row'[p] = None
  BY DEF SameRow, Mending

LEMMA StepTables ==
  ASSUME ServerInv, NEW r \in Requests, Step(r), NEW p \in PluginIds,
         p \notin incomplete', p \notin incomplete => Placed(p)
  PROVE  Placed(p)'
  <1>1. DiskFrame(r) /\ HistoryFrame(r)
    BY StepFrames DEF Frame
  <1>2. SUFFICES ASSUME row'[p] # None, row'[p].installed
                 PROVE  p \in tables' \/ \E s \in Working(p)' : Mending(reqs'[s], p)
    BY DEF Placed, Mending
  <1>3. CASE p \in incomplete
    BY <1>1, <1>3 DEF HistoryFrame
  <1>4. CASE p \notin incomplete /\ p # reqs[r].plugin
    <2>1. /\ Working(p)' = Working(p) /\ (p \in tables' <=> p \in tables)
          /\ \A s \in Working(p) : Like(reqs[s], reqs'[s]) /\ SameRow(r, s)
      BY <1>4, Elsewhere
    <2>2. row[p] # None /\ row[p].installed
      BY <1>1, <1>2, <1>4 DEF DiskFrame
    <2>3. p \in tables \/ \E s \in Working(p) : Mending(reqs[s], p)
      BY <1>4, <2>2 DEF Placed, Mending
    <2>4. ASSUME NEW s \in Working(p), Mending(reqs[s], p) PROVE Mending(reqs'[s], p)
      <3>1. s \in Requests /\ reqs'[s].kind = reqs[s].kind /\ reqs'[s].pc = reqs[s].pc
        BY <2>1 DEF Like, Working
      <3> QED
        BY <1>2, <2>1, <2>4, <3>1, MendingStays
    <2> QED
      BY <2>1, <2>3, <2>4
  <1>5. CASE p \notin incomplete /\ p = reqs[r].plugin
    <2> DEFINE Mends == reqs'[r] # None /\ Mending(reqs'[r], p)
    <2>1. /\ p \in tables => p \in tables' \/ Mends
          /\ Mending(reqs[r], p) => p \in tables' \/ Mends
          /\ Mends \/ (row[p] # None /\ row[p].installed)
      BY <1>2, <1>5, StepMends
    <2>2. /\ \A s \in Working(p) \ {r} :
                /\ s \in Working(p)' /\ SameRow(r, s)
                /\ reqs'[s].kind = reqs[s].kind /\ reqs'[s].pc = reqs[s].pc
          /\ reqs'[r] # None => r \in Working(p)'
      BY <1>5, Beside
    <2> SUFFICES ASSUME ~Mends
                 PROVE  p \in tables' \/ \E s \in Working(p)' : Mending(reqs'[s], p)
      BY <2>2
    <2>3. p \in tables \/ \E s \in Working(p) : Mending(reqs[s], p)
      BY <1>5, <2>1 DEF Placed, Mending
    <2>4. ASSUME NEW s \in Working(p) \ {r}, Mending(reqs[s], p)
          PROVE  s \in Working(p)' /\ Mending(reqs'[s], p)
      <3>1. s \in Requests
        BY DEF Working
      <3> QED
        BY <1>2, <2>2, <2>4, <3>1, MendingStays
    <2> QED
      BY <2>1, <2>3, <2>4
  <1> QED
    BY <1>3, <1>4, <1>5

LEMMA NextTables ==
  ASSUME ServerInv, TablesInv, [Next]_vars
  PROVE  TablesInv'
  <1> SUFFICES ASSUME NEW p \in PluginIds, p \notin incomplete'
               PROVE  Placed(p)'
    BY DEF TablesInv
  <1>1. TypeOK
    BY DEF ServerInv
  <1>2. ASSUME p \notin incomplete PROVE Placed(p)
    BY <1>2 DEF TablesInv
  <1>3. CASE \E o \in PluginIds : CreatePlugin(o)
    <2>1. PICK o \in PluginIds : CreatePlugin(o)
      BY <1>3
    <2>2. UNCHANGED <<tables, reqs, incomplete>>
      BY <2>1 DEF CreatePlugin, History
    <2>3. p = o => ~row'[p].installed
      BY <2>1, CreateServer
    <2>4. p # o => row'[p] = row[p]
      BY <2>1, CreateServer
    <2> QED
      BY <1>2, <2>2, <2>3, <2>4 DEF Placed, Working
  <1>4. CASE \E o \in PluginIds, r \in Requests : Begun(r, o)
    <2>1. PICK o \in PluginIds, r \in Requests : Begun(r, o)
      BY <1>4
    <2>2. UNCHANGED <<row, tables, incomplete>>
      BY <2>1 DEF Begun, Disk
    <2>3. \A s \in Working(p) : s \in Working(p)' /\ reqs'[s] = reqs[s]
      BY <2>1 DEF Begun, OthersStay, Working
    <2> QED
      BY <1>2, <2>2, <2>3 DEF Placed
  <1>5. CASE \E r \in Requests : Step(r)
    BY <1>2, <1>5, StepTables
  <1>6. CASE RebuildStep
    <2>1. /\ UNCHANGED <<row, tables, incomplete>>
          /\ \A s \in Requests : Onward(reqs[s], reqs'[s])
          /\ Working(p)' = Working(p)
      BY <1>1, <1>6, RebuildDoes
    <2>2. \A s \in Working(p) : Mending(reqs[s], p) => Mending(reqs'[s], p)
      BY <2>1 DEF Onward, Kin, Mending, Working
    <2> QED
      BY <1>2, <2>1, <2>2 DEF Placed, Mending
  <1>7. CASE Start
    <2>1. UNCHANGED <<row, tables, reqs, incomplete>>
      BY <1>7, StartDoes
    <2> QED
      BY <1>2, <2>1 DEF Placed, Working
  <1>8. CASE Exit
    <2>1. /\ UNCHANGED <<row, tables>>
          /\ incomplete' = incomplete \cup
                {reqs[r].plugin :
                   r \in {s \in Requests : reqs[s] # None /\ Unfinished(reqs[s])}}
      BY <1>8, ExitDoes
    <2>2. \A s \in Working(p) : ~Unfinished(reqs[s])
      BY <2>1 DEF Working
    <2> QED
      BY <1>2, <2>1, <2>2 DEF Placed, Unfinished
  <1>9. CASE UNCHANGED vars
    <2>1. UNCHANGED <<row, tables, reqs, incomplete>>
      BY <1>9 DEF vars, Disk, History
    <2> QED
      BY <1>2, <2>1 DEF Placed, Working
  <1> QED
    BY <1>1, <1>3, <1>4, <1>5, <1>6, <1>7, <1>8, <1>9, Steps

\* An installed plugin that nobody works on has its tables, whatever requests
\* overlapped or failed elsewhere and however often the process was restarted,
\* unless its installation or deletion failed or was cut off, an update wrote
\* installed into its row or gave the row its plugin id, or the deletion of
\* another row took the tables, since the last installation that worked.
THEOREM InstalledComplete == Spec => []InstalledHasTables
  <1>1. Init => TablesInv
    BY DEF Init, TablesInv, Placed
  <1>2. ServerInv /\ TablesInv /\ [Next]_vars => TablesInv'
    BY NextTables
  <1>3. TablesInv => InstalledHasTables
    BY DEF TablesInv, Placed, InstalledHasTables
  <1> QED
    BY <1>1, <1>2, <1>3, InitServer, NextServer, PTL DEF Spec

------------------------------------------------------------------------------
(* The schema offers what is active                                        *)

LEMMA ActiveLoaded ==
  ASSUME NEW p, Active(p)
  PROVE  loaded[p] # None
  BY NoneAssumption DEF Active, Status

\* What no step changed for p stays right.
LEMMA FollowedStays ==
  ASSUME ServerInv, SchemaFrame, ~missed', NEW p \in PluginIds,
         loaded'[p] = loaded[p], ~missed => Followed(p)
  PROVE  Followed(p)'
  <1>1. CASE rebuild'.pc = "core"
    BY <1>1 DEF Followed
  <1>2. CASE /\ missed' = missed /\ rebuild'.pc = rebuild.pc
             /\ Range(rebuild.todo) \subseteq Range(rebuild'.todo)
             /\ rebuild.todo # <<>> => Head(rebuild'.todo) = Head(rebuild.todo)
    <2>1. Followed(p)
      BY <1>2
    <2>2. offered' = offered /\ builder' = builder /\ (Active(p)' <=> Active(p))
      BY DEF SchemaFrame, Active
    <2> QED
      BY <1>2, <2>1, <2>2 DEF Followed, Of
  <1> QED
    BY <1>1, <1>2 DEF SchemaFrame

\* A step of a request leaves it owing a rebuild, or asks for one, or changes
\* no status.
LEMMA StepOwes ==
  ASSUME ServerInv, NEW r \in Requests, Step(r), reqs[r].plugin \notin excused'
  PROVE  \/ reqs'[r] # None /\ Owing(reqs'[r])
         \/ missed' \/ rebuild'.pc = "core"
         \/ ~Owing(reqs[r]) /\ loaded' = loaded
  <1> DEFINE q == reqs[r]
             p == reqs[r].plugin
             w == reqs'[r]
             Owes == w # None /\ Owing(w)
             Idle == ~Owing(q) /\ loaded' = loaded
             To(pc) == Moved(r, pc, q.next, q.left, q.status, q.stale)
  <1> SUFFICES Owes \/ missed' \/ rebuild'.pc = "core" \/ Idle
    OBVIOUS
  <1>1. q # None
    BY Acts
  <1>2. TypeOK /\ Route(q)
    BY <1>1, Knowing
  <1>3. Outcome(r)
    BY <1>1, <1>2, Outcomes
  <1>4. ASSUME w # None,
               w.pc \in {"extend", "loaded", "activate", "starting", "activated",
                         "deactivated", "rebuild"}
        PROVE  Owes
    BY <1>4 DEF Owing
  <1> HIDE DEF Owes
  <1> USE DEF At
  <1>6. CASE Mark(r) \/ Install(r) \/ Check(r) \/ Clash(r) \/ Write(r) \/ Extract(r)
             \/ Record(r) \/ RemoveDirectory(r) \/ Delete(r) \/ Load(r)
             \/ Deactivate(r) \/ Rebuilt(r)
    <2>1. ~Owing(q)
      BY <1>6 DEF Owing, Mark, Install, Check, Clash, Write, Extract, Record, RemoveDirectory, Delete,
         Load, Deactivate, Rebuilt
    <2>2. loaded' = loaded
      BY <1>6 DEF Memory, Mark, Install, Check, Clash, Write, Extract, Record, RemoveDirectory, Delete,
         Load, Deactivate, Rebuilt
    <2> QED
      BY <2>1, <2>2
  <1>7. CASE Read(r) \/ ExtendFails(r)
    BY <1>3, <1>4, <1>7 DEF Outcome, Now
  <1>8. CASE Extend(r)
    <2>1. PICK x \in q.left :
            Moved(r, IF q.left \ {x} = {} THEN "loaded" ELSE "extend",
                  q.next, q.left \ {x}, q.status, q.stale)
      BY <1>3, <1>8 DEF Outcome
    <2> QED
      BY <1>4, <2>1 DEF Moved, Now
  <1>9. CASE Loaded(r) \/ StoreActive(r) \/ StoreInactive(r)
    BY <1>3, <1>4, <1>9 DEF Outcome, Moved, Now
  <1>10. CASE Activate(r)
    <2>1. loaded[p] # None
      BY <1>10 DEF Activate, Excuse
    <2> QED
      BY <1>3, <1>4, <1>10, <2>1 DEF Outcome, Moved, Now
  <1>11. CASE SetActive(r) \/ SetInactive(r)
    <2>1. To("activated") \/ To("deactivated")
      BY <1>3, <1>11 DEF Outcome
    <2> QED
      BY <1>4, <2>1 DEF Moved, Now
  <1>12. CASE Uninstall(r)
    <2>1. ~Owing(q)
      BY <1>12 DEF Owing, Uninstall
    <2>2. Now(r, "rebuild", q.next, q.left, q.status, TRUE) \/ loaded' = loaded
      BY <1>3, <1>12 DEF Outcome, NotUninstalled, Memory
    <2> QED
      BY <1>4, <2>1, <2>2 DEF Now
  <1>13. CASE TriggerRebuild(r)
    <2>1. CallRebuild
      BY <1>13 DEF TriggerRebuild
    <2>2. [NoRebuild EXCEPT !.pc = "core"].pc = "core"
      BY DEF NoRebuild
    <2> QED
      BY <2>1, <2>2 DEF CallRebuild
  <1> QED
    BY <1>6, <1>7, <1>8, <1>9, <1>10, <1>11, <1>12, <1>13 DEF Step

\* A step of a request leaves the extensions of its plugin in the registry, or
\* to be pushed.
LEMMA StepFills ==
  ASSUME ServerInv, NEW r \in Requests, Step(r), NEW p, p = reqs[r].plugin,
         p \notin excused', Filled(p)
  PROVE  Filled(p)'
  <1> DEFINE q == reqs[r]
             w == reqs'[r]
  <1>1. q # None
    BY Acts
  <1>2. TypeOK /\ q \in Request /\ p \in PluginIds /\ Route(q) /\ Knows(q)
    BY <1>1, Knowing
  <1>3. Outcome(r)
    BY <1>1, <1>2, Outcomes
  <1>4. /\ r \in Working(p)
        /\ \A s \in Working(p) \ {r} :
              s \in Working(p)' /\ reqs'[s].pc = reqs[s].pc /\ reqs'[s].left = reqs[s].left
        /\ w # None => r \in Working(p)'
    BY Beside
  <1>5. ASSUME loaded[p] # None, Range(registry) \subseteq Range(registry'),
               q.pc # "extend"
        PROVE  Filled(p)'
    <2>1. CASE Of(p) \subseteq Range(registry)
      BY <1>5, <2>1 DEF Filled, Of
    <2>2. CASE ~ (Of(p) \subseteq Range(registry))
      <3>1. PICK s \in Working(p) :
              /\ reqs[s].pc = "extend"
              /\ \A x \in Extensions \ reqs[s].left : <<p, x>> \in Range(registry)
        BY <1>5, <2>2 DEF Filled
      <3>2. s # r
        BY <1>5, <3>1
      <3> QED
        BY <1>4, <1>5, <3>1, <3>2 DEF Filled
    <2> QED
      BY <2>1, <2>2
  <1>6. ASSUME loaded'[p] # None => loaded[p] # None, registry' = registry,
               q.pc # "extend"
        PROVE  Filled(p)'
    BY <1>5, <1>6 DEF Filled
  <1> USE DEF At
  <1>7. CASE Mark(r) \/ Install(r) \/ Check(r) \/ Clash(r) \/ Write(r) \/ Extract(r)
             \/ Record(r) \/ RemoveDirectory(r) \/ Delete(r) \/ Load(r) \/ Deactivate(r) \/ Rebuilt(r)
             \/ Activate(r) \/ StoreActive(r) \/ StoreInactive(r) \/ TriggerRebuild(r)
    <2>1. q.pc # "extend"
      BY <1>7 DEF Mark, Install, Check, Clash, Write, Extract, Record, RemoveDirectory, Delete,
         Load, Deactivate, Rebuilt, Activate, StoreActive, StoreInactive, TriggerRebuild
    <2>2. loaded' = loaded /\ registry' = registry
      BY <1>7 DEF Memory, Mark, Install, Check, Clash, Write, Extract, Record, RemoveDirectory, Delete,
         Load, Deactivate, Rebuilt, Activate, StoreActive, StoreInactive, TriggerRebuild
    <2> QED
      BY <1>6, <2>1, <2>2
  <1>8. CASE Read(r)
    <2>1. w # None /\ w.pc = "extend" /\ w.left = Extensions
      BY <1>3, <1>8 DEF Outcome, Now
    <2> QED
      BY <1>4, <2>1 DEF Filled
  <1>9. CASE Extend(r)
    <2>1. PICK x \in q.left :
            /\ Moved(r, IF q.left \ {x} = {} THEN "loaded" ELSE "extend",
                     q.next, q.left \ {x}, q.status, q.stale)
            /\ registry' = Append(registry, <<p, x>>)
      BY <1>3, <1>9 DEF Outcome
    <2>2. registry \in Seq(Entry) /\ <<p, x>> \in Entry
      BY <1>2, <2>1 DEF TypeOK, Request, Entry
    <2>3. Range(registry') = Range(registry) \cup {<<p, x>>}
      BY <2>1, <2>2, RangePush
    <2>4. /\ w # None /\ w.left = q.left \ {x}
          /\ w.pc = IF w.left = {} THEN "loaded" ELSE "extend"
      BY <2>1 DEF Moved, Now
    <2>5. loaded' = loaded
      BY <1>9 DEF Extend
    <2>6. CASE Of(p) \subseteq Range(registry)
      BY <2>3, <2>6 DEF Filled, Of
    <2>7. CASE loaded[p] # None /\ ~ (Of(p) \subseteq Range(registry))
      <3>1. PICK s \in Working(p) :
              /\ reqs[s].pc = "extend"
              /\ \A y \in Extensions \ reqs[s].left : <<p, y>> \in Range(registry)
        BY <2>7 DEF Filled
      <3>2. CASE s # r
        BY <1>4, <2>3, <3>1, <3>2 DEF Filled
      <3>3. CASE s = r
        <4>1. \A y \in Extensions \ w.left : <<p, y>> \in Range(registry')
          BY <2>3, <2>4, <3>1, <3>3
        <4>2. CASE w.left = {}
          <5>1. Of(p) \subseteq Range(registry')
            BY <4>1, <4>2 DEF Of
          <5> QED
            BY <5>1 DEF Filled, Of
        <4>3. CASE w.left # {}
          BY <1>4, <2>4, <4>1, <4>3 DEF Filled
        <4> QED
          BY <4>2, <4>3
      <3> QED
        BY <3>2, <3>3
    <2> QED
      BY <2>5, <2>6, <2>7 DEF Filled
  <1>10. CASE ExtendFails(r)
    BY <1>10 DEF ExtendFails, Fault, Excuse
  <1>11. CASE Loaded(r)
    BY <1>6, <1>11 DEF Loaded
  <1>12. CASE SetActive(r)
    <2>1. q.pc = "starting" /\ registry' = registry
      BY <1>12 DEF SetActive
    <2>2. loaded' = loaded \/ ~q.stale
      BY <1>12 DEF SetActive
    <2> QED
      BY <1>2, <1>6, <2>1, <2>2 DEF Knows
  <1>13. CASE SetInactive(r)
    <2>1. q.pc = "stopping" /\ registry' = registry
      BY <1>13 DEF SetInactive
    <2>2. loaded' = loaded \/ ~q.stale
      BY <1>13 DEF SetInactive
    <2> QED
      BY <1>2, <1>6, <2>1, <2>2 DEF Knows
  <1>14. CASE Uninstall(r)
    <2>1. CASE Unloads(p, q.at)
      BY <1>2, <2>1 DEF Unloads, Filled, TypeOK
    <2>2. CASE NotUninstalled(p)
      BY <1>6, <1>14, <2>2 DEF NotUninstalled, Memory, Uninstall
    <2> QED
      BY <1>3, <1>14, <2>1, <2>2 DEF Outcome
  <1> QED
    BY <1>7, <1>8, <1>9, <1>10, <1>11, <1>12, <1>13, <1>14 DEF Step

LEMMA StepSchema ==
  ASSUME ServerInv, NEW r \in Requests, Step(r), NEW p \in PluginIds,
         p \notin excused', Filled(p), ~missed /\ ~Owed(p) => Followed(p)
  PROVE  Filled(p)' /\ ((~missed /\ ~Owed(p))' => Followed(p)')
  <1>1. SchemaFrame
    BY StepFrames DEF Frame
  <1>2. CASE p # reqs[r].plugin
    <2>1. /\ loaded'[p] = loaded[p] /\ Working(p)' = Working(p)
          /\ \A s \in Working(p) : Like(reqs[s], reqs'[s])
          /\ \A x \in Extensions : Often(registry', <<p, x>>) = Often(registry, <<p, x>>)
      BY <1>2, Elsewhere
    <2>2. \A x \in Extensions : <<p, x>> \in Range(registry')
                                   <=> <<p, x>> \in Range(registry)
      <3>1. registry \in Seq(Entry)
        BY DEF ServerInv, TypeOK
      <3>2. registry' \in Seq(Entry)
        BY StepFrames DEF Frame, MemoryFrame
      <3> QED
        BY <2>1, <3>1, <3>2, RangeIs
    <2>6. \A s \in Working(p) : reqs'[s].pc = reqs[s].pc /\ reqs'[s].left = reqs[s].left
      BY <2>1 DEF Like
    <2>3. Filled(p)'
      BY <2>1, <2>2, <2>6 DEF Filled, Of
    <2>4. Owed(p)' <=> Owed(p)
      BY <2>1, <2>6 DEF Owed, Owing
    <2>5. ASSUME ~missed', ~Owed(p)' PROVE Followed(p)'
      BY <1>1, <2>1, <2>4, <2>5, FollowedStays
    <2> QED
      BY <2>3, <2>5
  <1>3. CASE p = reqs[r].plugin
    <2>1. Filled(p)'
      BY <1>3, StepFills
    <2>2. ASSUME ~missed', ~Owed(p)' PROVE Followed(p)'
      <3>1. /\ \A s \in Working(p) \ {r} : s \in Working(p)' /\ reqs'[s].pc = reqs[s].pc
            /\ reqs'[r] # None => r \in Working(p)'
        BY <1>3, Beside
      <3>2. ~ (reqs'[r] # None /\ Owing(reqs'[r]))
        BY <2>2, <3>1 DEF Owed
      <3>3. CASE rebuild'.pc = "core"
        BY <3>3 DEF Followed
      <3>4. CASE ~Owing(reqs[r]) /\ loaded' = loaded
        <4>1. ASSUME Owed(p) PROVE FALSE
          <5>1. PICK s \in Working(p) : Owing(reqs[s])
            BY <4>1 DEF Owed
          <5>2. s # r
            BY <3>4, <5>1
          <5> QED
            BY <2>2, <3>1, <5>1, <5>2 DEF Owed, Owing
        <4> QED
          BY <1>1, <2>2, <3>4, <4>1, FollowedStays
      <3> QED
        BY <1>3, <2>2, <3>2, <3>3, <3>4, StepOwes
    <2> QED
      BY <2>1, <2>2
  <1> QED
    BY <1>2, <1>3

LEMMA RebuildSchema ==
  ASSUME ServerInv, RebuildStep, NEW p \in PluginIds,
         Filled(p), ~missed /\ ~Owed(p) => Followed(p)
  PROVE  Filled(p)' /\ ((~missed /\ ~Owed(p))' => Followed(p)')
  <1>1. TypeOK
    BY DEF ServerInv
  <1>2. /\ UNCHANGED <<loaded, registry, missed>>
        /\ \A s \in Requests : Onward(reqs[s], reqs'[s])
        /\ Working(p)' = Working(p)
    BY <1>1, RebuildDoes
  <1>3. \A s \in Working(p) : /\ reqs'[s].pc = "extend" <=> reqs[s].pc = "extend"
                              /\ reqs'[s].left = reqs[s].left
                              /\ Owing(reqs'[s]) <=> Owing(reqs[s])
    BY <1>2 DEF Onward, Owing, Working
  <1>4. Filled(p)'
    BY <1>2, <1>3 DEF Filled, Of
  <1>5. Owed(p)' <=> Owed(p)
    BY <1>2, <1>3 DEF Owed
  <1>6. ASSUME ~missed', ~Owed(p)' PROVE Followed(p)'
    <2>1. Followed(p) /\ ~Owed(p)
      BY <1>2, <1>5, <1>6
    <2>2. Active(p)' <=> Active(p)
      BY <1>2 DEF Active
    <2>3. /\ rebuild \in Rebuild /\ rebuild.todo \in Seq(Entry)
          /\ RebuildInv
      BY <1>1 DEF TypeOK, Rebuild, ServerInv
    <2>4. CASE TakeExtensions
      <3>1. rebuild.pc = "core"
            /\ rebuild' = [rebuild EXCEPT !.pc = "loop", !.todo = registry]
        BY <2>4 DEF TakeExtensions
      <3>2. rebuild'.pc = "loop" /\ rebuild'.todo = registry
        BY <2>3, <3>1 DEF Rebuild
      <3>3. ASSUME Active(p) PROVE Of(p) \subseteq Range(registry)
        <4>1. loaded[p] # None
          BY <3>3, ActiveLoaded
        <4>2. \A s \in Working(p) : reqs[s].pc # "extend"
          BY <2>1 DEF Owed, Owing
        <4> QED
          BY <4>1, <4>2 DEF Filled
      <3> QED
        BY <2>2, <3>2, <3>3 DEF Followed, Of
    <2>5. CASE RegisterExtension
      <3> DEFINE h == Head(rebuild.todo)
                 t == Tail(rebuild.todo)
      <3>1. /\ rebuild.pc \in {"loop", "types"} /\ rebuild.todo # <<>>
            /\ rebuild' = IF rebuild.pc = "types"
                          THEN [rebuild EXCEPT !.pc = "loop", !.todo = t]
                          ELSE IF Active(h[1])
                          THEN [rebuild EXCEPT !.pc = "types"]
                          ELSE [rebuild EXCEPT !.todo = t]
            /\ builder' = IF rebuild.pc = "types" THEN builder \cup {h} ELSE builder
        BY <2>5 DEF RegisterExtension
      <3>2. h \in Entry /\ Range(rebuild.todo) = Range(t) \cup {h}
        BY <2>3, <3>1, RangeTail
      <3>3. h \in Of(p) => h[1] = p
        BY DEF Of
      <3>4. Active(p) => Of(p) \subseteq builder \cup Range(rebuild.todo)
        BY <2>1, <3>1 DEF Followed
      <3> HIDE DEF h, t
      <3>5. CASE rebuild.pc = "types"
        <4>1. /\ rebuild'.pc = "loop" /\ rebuild'.todo = t
              /\ builder' = builder \cup {h}
          BY <2>3, <3>1, <3>5 DEF Rebuild
        <4> QED
          BY <2>2, <3>2, <3>4, <4>1 DEF Followed, Of
      <3>6. CASE rebuild.pc # "types" /\ Active(h[1])
        <4>1. /\ rebuild'.pc = "types" /\ rebuild'.todo = rebuild.todo
              /\ builder' = builder
          BY <2>3, <3>1, <3>6 DEF Rebuild
        <4> QED
          BY <2>2, <3>4, <4>1 DEF Followed, Of
      <3>7. CASE rebuild.pc # "types" /\ ~Active(h[1])
        <4>1. /\ rebuild'.pc \in {"loop", "types"} /\ rebuild'.todo = t
              /\ builder' = builder
          BY <2>3, <3>1, <3>7 DEF Rebuild
        <4>2. Active(p) => h \notin Of(p)
          BY <3>3, <3>7
        <4>3. Active(p) => Of(p) \subseteq builder' \cup Range(rebuild'.todo)
          BY <3>2, <3>4, <4>1, <4>2
        <4> QED
          BY <2>2, <4>1, <4>3 DEF Followed, Of
      <3> QED
        BY <3>5, <3>6, <3>7
    <2>6. CASE FinishRebuild
      <3>1. /\ rebuild.pc = "loop" /\ rebuild.todo = <<>>
            /\ offered' = builder /\ rebuild'.pc = "off"
        BY <2>6 DEF FinishRebuild, NoRebuild
      <3>2. Range(rebuild.todo) = {}
        BY <3>1 DEF Range
      <3>3. Active(p) => Of(p) \subseteq offered'
        BY <2>1, <3>1, <3>2 DEF Followed
      <3> QED
        BY <2>2, <3>1, <3>3 DEF Followed, Of
    <2> QED
      BY <2>4, <2>5, <2>6 DEF RebuildStep
  <1> QED
    BY <1>4, <1>6

\* A process that has ended has no plugin to offer.
LEMMA DownSchema ==
  ASSUME Down, NEW p \in PluginIds
  PROVE  Filled(p) /\ Followed(p)
  <1>1. loaded[p] = None /\ rebuild.pc = "off"
    BY DEF Down, NoRebuild
  <1>2. ~Active(p)
    BY <1>1, ActiveLoaded
  <1> QED
    BY <1>1, <1>2 DEF Filled, Followed

LEMMA NextSchema ==
  ASSUME ServerInv, SchemaInv, [Next]_vars
  PROVE  SchemaInv'
  <1> SUFFICES ASSUME NEW p \in PluginIds, p \notin excused'
               PROVE  Filled(p)' /\ ((~missed /\ ~Owed(p))' => Followed(p)')
    BY DEF SchemaInv
  <1>1. TypeOK
    BY DEF ServerInv
  <1>2. ASSUME p \notin excused
        PROVE  Filled(p) /\ (~missed /\ ~Owed(p) => Followed(p))
    BY <1>2 DEF SchemaInv
  <1>3. CASE \E o \in PluginIds : CreatePlugin(o)
    <2>1. UNCHANGED <<loaded, registry, rebuild, builder, offered, missed, reqs, excused>>
      BY <1>3 DEF CreatePlugin, Memory, Schema, History
    <2> QED
      BY <1>2, <2>1 DEF Filled, Owed, Followed, Working, Active
  <1>4. CASE \E o \in PluginIds, r \in Requests : Begun(r, o)
    <2>2. PICK o \in PluginIds, r \in Requests : Begun(r, o)
      BY <1>4
    <2>3. UNCHANGED <<loaded, registry, rebuild, builder, offered, missed, excused>>
      BY <2>2 DEF Begun, Memory, Schema
    <2>4. \A s \in Working(p) : s \in Working(p)' /\ reqs'[s] = reqs[s]
      BY <2>2 DEF Begun, OthersStay, Working
    <2>5. Filled(p)'
      BY <1>2, <2>3, <2>4 DEF Filled
    <2>6. Owed(p) => Owed(p)'
      BY <2>4 DEF Owed
    <2> QED
      BY <1>2, <2>3, <2>5, <2>6 DEF Followed, Active
  <1>5. CASE \E r \in Requests : Step(r)
    <2>1. PICK r \in Requests : Step(r)
      BY <1>5
    <2>2. p \notin excused
      BY <2>1, StepFrames DEF Frame, HistoryFrame
    <2> QED
      BY <1>2, <2>1, <2>2, StepSchema
  <1>6. CASE RebuildStep
    <2>1. excused' = excused
      BY <1>1, <1>6, RebuildDoes
    <2> QED
      BY <1>2, <1>6, <2>1, RebuildSchema
  <1>7. CASE Start
    <2>1. /\ loaded'[p] = IF p \notin Present THEN None ELSE StatusOf(p)
          /\ offered' = {o \in Present : row[o].activated} \X Extensions
          /\ p \notin Present => ~(row[p] # None /\ row[p].activated)
          /\ Range(registry') = Present \X Extensions
          /\ rebuild'.pc = "off"
      BY <1>7, StartDoes DEF Down, NoRebuild
    <2>2. Active(p)' <=> p \in Present /\ row[p].activated
      BY <2>1, NoneAssumption DEF Active, StatusOf, Present, Status
    <2>3. Active(p)' => Of(p) \subseteq offered'
      BY <2>1, <2>2 DEF Of
    <2>4. loaded'[p] # None => Of(p) \subseteq Range(registry')
      BY <2>1 DEF Of
    <2> QED
      BY <2>1, <2>3, <2>4 DEF Filled, Followed, Of
  <1>8. CASE Exit
    <2>1. Down'
      BY <1>8, ExitDoes
    <2>2. loaded'[p] = None /\ rebuild'.pc = "off"
      BY <2>1 DEF Down, NoRebuild
    <2>3. ~Active(p)'
      BY <2>2, NoneAssumption DEF Active, Status
    <2> QED
      BY <2>2, <2>3 DEF Filled, Followed
  <1>9. CASE UNCHANGED vars
    <2>1. UNCHANGED <<loaded, registry, rebuild, builder, offered, missed, reqs, excused>>
      BY <1>9 DEF vars, Memory, Schema, History
    <2> QED
      BY <1>2, <2>1 DEF Filled, Owed, Followed, Working, Active
  <1> QED
    BY <1>1, <1>3, <1>4, <1>5, <1>6, <1>7, <1>8, <1>9, Steps

\* When nothing is in flight and the last rebuild refused nobody, the schema
\* offers the fields of the active plugins, however many requests interleaved
\* with the rebuilds and with each other.  Left out are plugins of which a step
\* failed or whose plugin id an update gave or took since the process started,
\* and nothing is said of fields that the builder keeps of other plugins.
THEOREM SchemaRight == Spec => []SchemaCurrent
  <1>1. Init => SchemaInv
    <2> SUFFICES ASSUME Init PROVE SchemaInv
      OBVIOUS
    <2>1. Down
      BY DEF Init, Down
    <2> QED
      BY <2>1, DownSchema DEF SchemaInv
  <1>2. ServerInv /\ SchemaInv /\ [Next]_vars => SchemaInv'
    BY NextSchema
  <1>3. SchemaInv => SchemaCurrent
    <2> SUFFICES ASSUME SchemaInv, Quiet, ~missed, NEW p \in PluginIds \ excused
                 PROVE  Active(p) => Of(p) \subseteq offered
      BY DEF SchemaCurrent
    <2>1. ~Owed(p) /\ rebuild.pc = "off"
      BY DEF Quiet, Owed, Working
    <2> QED
      BY <2>1 DEF SchemaInv, Followed
  <1> QED
    BY <1>1, <1>2, <1>3, InitServer, NextServer, PTL DEF Spec

------------------------------------------------------------------------------
(* The row and the memory agree                                            *)

\* A step of the only request about a plugin
LEMMA StepAlone ==
  ASSUME ServerInv, NEW r \in Requests, Step(r), NEW p, p = reqs[r].plugin,
         p \notin overlapped'
  PROVE  /\ Working(p) = {r}
         /\ Working(p)' = IF reqs'[r] = None THEN {} ELSE {r}
  <1>1. r \in Working(p) /\ p \in PluginIds
        /\ (\A s \in Working(p)' : s \in Working(p))
        /\ (reqs'[r] # None => r \in Working(p)')
    BY Beside
  <1>2. p \notin overlapped
    BY StepFrames DEF Frame, HistoryFrame
  <1>3. Working(p) = {r}
    BY <1>1, <1>2 DEF ServerInv, Alone
  <1>4. r \in Working(p)' => reqs'[r] # None
    BY DEF Working
  <1> QED
    BY <1>1, <1>3, <1>4

\* What a request that works alone on a plugin leaves, from which its invariant
\* follows
Leaves(r, p) ==
    /\ reqs'[r] = None => Agree(p)'
    /\ reqs'[r] # None => Phase(reqs[r], p)'
    /\ loaded'[p] # None => p \in files'
    /\ \A x \in Extensions :
          Often(registry', <<p, x>>) =
             IF \/ loaded'[p] = None
                \/ reqs'[r] # None /\ reqs'[r].pc = "extend" /\ x \in reqs'[r].left
             THEN 0 ELSE 1

LEMMA StepLeaves ==
  ASSUME ServerInv, NEW r \in Requests, Step(r), NEW p, p = reqs[r].plugin,
         p \notin overlapped', Leaves(r, p)
  PROVE  PluginInv(p)'
  <1>1. Working(p)' = IF reqs'[r] = None THEN {} ELSE {r}
    BY StepAlone
  <1>2. CASE reqs'[r] = None
    BY <1>1, <1>2 DEF Leaves, PluginInv, Due
  <1>3. CASE reqs'[r] # None
    BY <1>1, <1>3 DEF Leaves, PluginInv, Due
  <1> QED
    BY <1>2, <1>3

LEMMA StepMemory ==
  ASSUME ServerInv, NEW r \in Requests, Step(r), NEW p, p = reqs[r].plugin,
         p \notin excused', p \notin overlapped', PluginInv(p)
  PROVE  Leaves(r, p)
  <1> DEFINE q == reqs[r]
             w == reqs'[r]
             To(pc) == Moved(r, pc, q.next, q.left, q.status, q.stale)
             Back == IF q.next = "done" THEN Left(r)
                     ELSE Moved(r, q.next, "done", q.left, q.status, q.stale)
             Own == w.kind \in {"upload", "delete"} /\ w.existed => w.at = p
             Exact == \A x \in Extensions :
                        Often(registry', <<p, x>>) =
                           IF \/ loaded'[p] = None
                              \/ w # None /\ w.pc = "extend" /\ x \in w.left
                           THEN 0 ELSE 1
  <1>1. q # None
    BY Acts
  <1>2. TypeOK /\ q \in Request /\ p \in PluginIds /\ Route(q) /\ Knows(q)
        /\ row[p] \in Row \cup {None} /\ q.status # None
    <2>1. q \in Request => q.status \in Status
      BY DEF Request
    <2> QED
      BY <1>1, <2>1, Knowing, NoneAssumption DEF TypeOK
  <1>3. Outcome(r)
    BY <1>1, <1>2, Outcomes
  <1>4. Working(p) = {r}
    BY StepAlone
  <1>5. /\ Phase(q, p)
        /\ q.kind \in {"upload", "delete"} /\ q.existed => q.at = p
        /\ loaded[p] # None => p \in files
        /\ \A x \in Extensions :
              Often(registry, <<p, x>>) =
                 IF loaded[p] = None \/ (q.pc = "extend" /\ x \in q.left)
                 THEN 0 ELSE 1
    BY <1>4 DEF PluginInv, Due, Phase
  <1>6. ASSUME registry' = registry, loaded'[p] = None <=> loaded[p] = None,
               q.pc # "extend", w = None \/ w.pc # "extend"
        PROVE  Exact
    BY <1>5, <1>6
  <1>7. ASSUME NEW pc, To(pc)
        PROVE  /\ w # None /\ w.pc = pc /\ w.next = q.next /\ Kin(q, w) /\ Own
               /\ w.stale = q.stale
               /\ Starting(w) <=> Starting(q)
               /\ Stopping(w) <=> Stopping(q)
    BY <1>5, <1>7, KinDoes DEF Moved, Now, Kin
  <1>8. ASSUME Back
        PROVE  \/ w = None /\ q.next = "done"
               \/ /\ w # None /\ w.pc = q.next /\ q.next # "done"
                  /\ w.next = "done" /\ Kin(q, w) /\ Own
                  /\ w.pc \in {"activate", "extract", "directory"}
    BY <1>2, <1>5, <1>8, RouteBack DEF Moved, Now, Left, Kin
  <1>9. ASSUME UNCHANGED <<files, loaded, registry>>, q.pc # "extend",
               w = None \/ w.pc # "extend"
        PROVE  (loaded'[p] # None => p \in files') /\ Exact
    BY <1>5, <1>6, <1>9
  <1>10. Active(p) => loaded[p] # None
    BY ActiveLoaded
  <1> USE DEF At, LoadPhases, RunPhases, StopPhases, LastPhases
  <1> HIDE DEF Back, To
  <1>11. CASE Install(r)
    <2>1. q.pc = "install" /\ w = None /\ UNCHANGED <<row, files, loaded, registry>>
      BY <1>3, <1>11 DEF Outcome, Left, Install, Memory
    <2>2. Agree(p)'
      BY <1>5, <2>1 DEF Phase, Agree, On, Active
    <2> QED
      BY <1>9, <2>1, <2>2 DEF Leaves
  <1>32. CASE Mark(r)
    <2>1. /\ q.pc = "mark" /\ q.kind = "install" /\ To("install")
          /\ UNCHANGED <<files, loaded, registry>>
          /\ row' = IF row[p] = None THEN row ELSE [row EXCEPT ![p].installed = TRUE]
      BY <1>2, <1>3, <1>32, Routes DEF Outcome, To, Mark, Memory
    <2>2. w # None /\ w.pc = "install" /\ w.kind = "install"
      BY <1>7, <2>1 DEF Kin
    <2>3. On(p)' <=> On(p)
      <3>1. CASE row[p] = None
        BY <2>1, <3>1 DEF On
      <3>2. CASE row[p] # None
        <4> DEFINE v == [row[p] EXCEPT !.installed = TRUE]
        <4>1. v \in Row /\ v.activated = row[p].activated
          BY <1>2, <3>2 DEF Row
        <4>2. row'[p] = v
          BY <1>2, <2>1, <3>2 DEF TypeOK
        <4>3. v # None
          BY <4>1, NoneAssumption
        <4> HIDE DEF v
        <4> QED
          BY <3>2, <4>1, <4>2, <4>3 DEF On
      <3> QED
        BY <3>1, <3>2
    <2>4. Agree(p)'
      BY <1>5, <2>1, <2>3 DEF Phase, Agree, Active
    <2>5. Phase(reqs[r], p)'
      BY <2>2, <2>4 DEF Phase, Stopping
    <2> QED
      BY <1>9, <2>1, <2>2, <2>5 DEF Leaves
  <1>33. CASE Check(r)
    <2>1. /\ q.pc = "check" /\ q.kind = "update" /\ To("write")
          /\ UNCHANGED <<row, files, loaded, registry>>
      BY <1>2, <1>3, <1>33, Routes DEF Outcome, To, Check, Disk, Memory
    <2>2. w # None /\ w.pc = "write" /\ w.kind = "update" /\ w.at \in {q.at, None}
      BY <1>7, <2>1 DEF Kin
    <2>3. w.at # p
      BY <1>2, <1>5, <2>1, <2>2, NoneAssumption DEF Phase
    <2>4. Agree(p)'
      BY <1>5, <2>1 DEF Phase, Agree, Active, On
    <2>5. Phase(reqs[r], p)'
      BY <2>2, <2>3, <2>4 DEF Phase, Stopping
    <2> QED
      BY <1>9, <2>1, <2>2, <2>5 DEF Leaves
  <1>34. CASE Clash(r)
    <2>1. /\ q.pc \in {"check", "write"} /\ w = None
          /\ UNCHANGED <<row, files, loaded, registry>>
      BY <1>3, <1>34 DEF Outcome, Left, Clash, Disk, Memory
    <2>2. Agree(p)'
      BY <1>5, <2>1 DEF Phase, Agree, On, Active
    <2> QED
      BY <1>9, <2>1, <2>2 DEF Leaves
  <1>12. CASE Write(r)
    <2>1. /\ q.pc = "write" /\ q.kind = "update" /\ q.next = "done"
          /\ UNCHANGED <<files, loaded, registry>>
      BY <1>2, <1>12, Routes DEF Write, Memory
    <2>2. q.at = p
      BY <1>2, <1>12, NoneAssumption DEF Write
    <2> DEFINE v == [installed |-> q.installed, activated |-> q.on]
    <2>3. v \in Row /\ v.activated = q.on /\ q.on \in BOOLEAN
      BY <1>2 DEF Row, Request
    <2>4. row' = [row EXCEPT ![p] = None, ![p] = v]
      BY <1>2, <1>12, <2>2, NoneAssumption DEF Write
    <2>5. row'[p] = v /\ v # None
      BY <1>2, <2>3, <2>4, NoneAssumption DEF TypeOK
    <2> HIDE DEF v
    <2>6. /\ Agree(p) /\ (q.changed <=> ~ (On(p) <=> q.on))
          /\ (Active(p)' <=> Active(p)) /\ (On(p)' <=> q.on)
      BY <1>5, <2>1, <2>2, <2>3, <2>5 DEF Phase, Active, On
    <2>7. CASE q.changed
      <3>1. /\ w # None /\ Kin(q, w) /\ w.at = None
            /\ w.pc = IF ~q.on THEN "deactivate"
                      ELSE IF loaded[p] = None THEN "load" ELSE "activate"
        BY <1>3, <1>12, <2>7 DEF Outcome, Now
      <3>2. w.kind = "update"
        BY <2>1, <3>1 DEF Kin
      <3>3. ~q.on => Active(p)'
        BY <2>6, <2>7 DEF Agree
      <3>4. Phase(reqs[r], p)'
        BY <2>5, <3>1, <3>2, <3>3 DEF Phase
      <3>5. w.pc # "extend"
        BY <3>1
      <3> QED
        BY <1>9, <2>1, <3>1, <3>4, <3>5 DEF Leaves
    <2>8. CASE ~q.changed
      <3>1. w = None
        BY <1>3, <1>12, <2>8 DEF Outcome
      <3>2. Agree(p)'
        BY <2>6, <2>8 DEF Agree
      <3> QED
        BY <1>9, <2>1, <3>1, <3>2 DEF Leaves
    <2> QED
      BY <2>7, <2>8
  <1>13. CASE Extract(r)
    <2>1. /\ q.pc = "extract" /\ files' = files \cup {p}
          /\ UNCHANGED <<row, loaded, registry>> /\ q.kind = "upload" /\ To("record")
      BY <1>2, <1>3, <1>13, Routes DEF Outcome, To, Extract, Memory
    <2>2. w # None /\ w.pc = "record" /\ Own /\ w.kind = "upload"
      BY <1>7, <2>1 DEF Kin
    <2>3. ~Active(p)' /\ ~On(p)'
      BY <1>5, <2>1 DEF Phase, Active, On
    <2>4. Phase(reqs[r], p)'
      BY <2>2, <2>3 DEF Phase
    <2> QED
      BY <1>5, <1>6, <2>1, <2>2, <2>4 DEF Leaves
  <1>14. CASE Record(r)
    <2>1. /\ q.pc = "record" /\ UNCHANGED <<files, loaded, registry>>
          /\ q.kind = "upload"
          /\ (q.on /\ q.existed /\ To("load")) \/ w = None
          /\ row' = IF q.at = None THEN row ELSE [row EXCEPT ![q.at].installed = FALSE]
      BY <1>2, <1>3, <1>14, Routes DEF Outcome, To, Left, Record, Memory
    <2>2. ~Active(p)'
      BY <1>5, <2>1 DEF Phase, Active
    <2>3. ~On(p)' /\ (q.existed => row'[p] # None)
      <3>1. ~On(p)
        BY <1>5, <2>1 DEF Phase
      <3>2. CASE q.at = p
        <4> DEFINE v == [row[p] EXCEPT !.installed = FALSE]
        <4>1. row[p] # None /\ row'[p] = v
          BY <1>2, <2>1, <3>2, NoneAssumption DEF Knows, TypeOK
        <4>2. v \in Row /\ v.activated = row[p].activated
          BY <1>2, <4>1 DEF Row
        <4>3. v # None
          BY <4>2, NoneAssumption
        <4> HIDE DEF v
        <4> QED
          BY <3>1, <4>1, <4>2, <4>3 DEF On
      <3>3. CASE q.at # p
        <4>1. row'[p] = row[p] /\ ~q.existed
          BY <1>2, <1>5, <2>1, <3>3 DEF TypeOK
        <4> QED
          BY <3>1, <4>1 DEF On
      <3> QED
        BY <3>2, <3>3
    <2>4. CASE q.on /\ q.existed /\ To("load")
      <3>1. w # None /\ w.pc = "load" /\ Own /\ w.kind = "upload"
        BY <1>7, <2>1, <2>4 DEF Kin
      <3>2. Phase(reqs[r], p)'
        BY <2>3, <2>4, <3>1 DEF Phase
      <3> QED
        BY <1>9, <2>1, <3>1, <3>2 DEF Leaves
    <2>5. CASE w = None
      <3>1. Agree(p)'
        BY <2>2, <2>3 DEF Agree
      <3> QED
        BY <1>9, <2>1, <2>5, <3>1 DEF Leaves
    <2> QED
      BY <2>1, <2>4, <2>5
  <1>15. CASE RemoveDirectory(r)
    <2>1. /\ q.pc = "directory" /\ UNCHANGED <<row, loaded, registry>>
          /\ q.kind = "delete" /\ To("delete")
      BY <1>2, <1>3, <1>15, Routes
      DEF Outcome, To, RemoveDirectory, Memory, Fault
    <2>2. w # None /\ w.pc = "delete" /\ Own /\ w.kind = "delete"
      BY <1>7, <2>1 DEF Kin
    <2>3. loaded[p] = None
      BY <1>5, <2>1 DEF Phase
    <2>4. Phase(reqs[r], p)'
      BY <2>1, <2>2, <2>3 DEF Phase, Stopping
    <2> QED
      BY <1>6, <2>1, <2>2, <2>3, <2>4 DEF Leaves
  <1>16. CASE Delete(r)
    <2>1. /\ q.pc = "delete" /\ UNCHANGED <<files, loaded, registry>>
          /\ q.kind = "delete" /\ w = None /\ q.at = p
      BY <1>2, <1>3, <1>5, <1>16, Routes DEF Delete, Memory, Knows, Outcome
    <2>4. row' = [row EXCEPT ![p] = None]
      BY <1>2, <1>16, <2>1, NoneAssumption DEF Delete
    <2>2. loaded[p] = None
      BY <1>5, <2>1 DEF Phase
    <2>3. Agree(p)'
      BY <1>2, <1>10, <2>1, <2>2, <2>4 DEF Agree, On, Active, TypeOK
    <2> QED
      BY <1>9, <2>1, <2>3 DEF Leaves
  <1>17. CASE Load(r)
    <2>1. /\ q.pc = "load" /\ UNCHANGED <<row, files, loaded, registry>>
          /\ Starting(q)
          /\ \/ To("read") /\ loaded[p] = None /\ p \in files
             \/ To("activate")
      BY <1>2, <1>3, <1>17, Routes DEF Outcome, To, Load, Memory, Disk
    <2>2. /\ w # None /\ w.pc \in {"read", "activate"} /\ Own
          /\ w.kind \in {"update", "upload"}
          /\ w.pc = "read" => loaded[p] = None /\ p \in files
      <3>1. q.kind \in {"update", "upload"}
        BY <2>1 DEF Starting
      <3>2. CASE To("read") /\ loaded[p] = None /\ p \in files
        BY <1>7, <3>1, <3>2 DEF Kin
      <3>3. CASE To("activate")
        BY <1>7, <3>1, <3>3 DEF Kin
      <3> QED
        BY <2>1, <3>2, <3>3
    <2>3. row'[p] # None
      BY <1>5, <2>1 DEF Phase
    <2>4. Phase(reqs[r], p)'
      BY <2>1, <2>2, <2>3 DEF Phase
    <2> QED
      BY <1>9, <2>1, <2>2, <2>4 DEF Leaves
  <1>18. CASE Read(r)
    <2>1. /\ q.pc = "read" /\ registry' = registry /\ UNCHANGED Disk
          /\ loaded' = [loaded EXCEPT ![p] = "LOADING"]
          /\ Starting(q)
          /\ Now(r, "extend", q.next, Extensions, StatusOf(p), FALSE)
      BY <1>2, <1>3, <1>18, Routes DEF Outcome, Read
    <2>2. /\ w # None /\ w.pc = "extend" /\ Own /\ w.left = Extensions
          /\ w.kind \in {"update", "upload"} /\ ~w.stale
      BY <1>5, <2>1 DEF Now, Kin, Starting
    <2>3. /\ row'[p] # None /\ loaded[p] = None /\ p \in files'
      BY <1>5, <2>1 DEF Phase, Disk
    <2>4. Phase(reqs[r], p)'
      BY <2>2, <2>3 DEF Phase
    <2>5. Exact
      BY <1>5, <2>1, <2>2, <2>3
    <2> QED
      BY <2>2, <2>3, <2>4, <2>5 DEF Leaves
  <1>19. CASE Extend(r)
    <2>1. PICK x \in q.left :
            /\ Moved(r, IF q.left \ {x} = {} THEN "loaded" ELSE "extend",
                     q.next, q.left \ {x}, q.status, q.stale)
            /\ registry' = Append(registry, <<p, x>>)
      BY <1>3, <1>19 DEF Outcome
    <2>2. /\ q.pc = "extend" /\ loaded' = loaded /\ UNCHANGED Disk /\ Starting(q)
      BY <1>2, <1>19, Routes DEF Extend
    <2>3. /\ w # None /\ Own /\ w.left = q.left \ {x}
          /\ w.pc = IF w.left = {} THEN "loaded" ELSE "extend"
          /\ w.kind \in {"update", "upload"} /\ w.stale = q.stale
      BY <1>5, <2>1, <2>2 DEF Moved, Now, Kin, Starting
    <2>4. ~q.stale /\ row[p] # None
      BY <1>5, <2>2 DEF Phase
    <2>5. loaded[p] # None
      BY <1>2, <2>2, <2>4 DEF Knows
    <2>6. Phase(reqs[r], p)'
      <3>1. row'[p] # None
        BY <2>2, <2>4 DEF Disk
      <3> QED
        BY <2>3, <2>4, <3>1 DEF Phase
    <2>7. Exact
      <3>1. registry \in Seq(Entry) /\ <<p, x>> \in Entry /\ x \in Extensions
        BY <1>2, <2>1 DEF TypeOK, Entry, Request
      <3> SUFFICES ASSUME NEW y \in Extensions
                   PROVE  Often(registry', <<p, y>>) = IF y \in w.left THEN 0 ELSE 1
        BY <2>2, <2>3, <2>5
      <3>2. Often(registry, <<p, y>>) = IF y \in q.left THEN 0 ELSE 1
        BY <1>5, <2>2, <2>5
      <3>3. CASE y = x
        <4>1. Often(registry', <<p, y>>) = Often(registry, <<p, y>>) + 1
          BY <2>1, <3>1, <3>3, PushCounts
        <4> QED
          BY <2>1, <2>3, <3>2, <3>3, <4>1
      <3>4. CASE y # x
        <4>1. Often(registry', <<p, y>>) = Often(registry, <<p, y>>)
          BY <2>1, <3>1, <3>4, PushCounts
        <4> QED
          BY <2>3, <3>2, <3>4, <4>1
      <3> QED
        BY <3>3, <3>4
    <2>8. loaded'[p] # None => p \in files'
      BY <1>5, <2>2 DEF Disk
    <2> QED
      BY <2>3, <2>6, <2>7, <2>8 DEF Leaves
  <1>20. CASE ExtendFails(r)
    BY <1>20 DEF ExtendFails, Fault, Excuse
  <1>21. CASE Loaded(r)
    <2>1. /\ q.pc = "loaded" /\ registry' = registry /\ UNCHANGED Disk
          /\ loaded[p] # None /\ Starting(q)
          /\ loaded' = loaded \/ loaded' = [loaded EXCEPT ![p] = q.status]
          /\ Moved(r, "activate", IF q.status = "ACTIVE" THEN "activate" ELSE "done",
                   q.left, q.status, q.stale)
      BY <1>2, <1>3, <1>21, Routes DEF Outcome, Loaded
    <2>2. /\ w # None /\ w.pc = "activate" /\ Own
          /\ w.kind \in {"update", "upload"}
      BY <1>5, <2>1 DEF Moved, Now, Kin, Starting
    <2>3. loaded'[p] # None
      BY <1>2, <2>1 DEF TypeOK
    <2>4. row'[p] # None /\ (p \in files => p \in files')
      BY <1>5, <2>1 DEF Phase, Disk
    <2>5. Phase(reqs[r], p)'
      BY <2>2, <2>4 DEF Phase
    <2> QED
      BY <1>5, <1>6, <2>1, <2>2, <2>3, <2>4, <2>5 DEF Leaves
  <1>22. CASE Activate(r)
    <2>1. /\ q.pc = "activate" /\ UNCHANGED <<row, files, loaded, registry>>
          /\ Starting(q)
          /\ Moved(r, "starting", q.next, q.left, q.status, FALSE)
      BY <1>2, <1>3, <1>22, Routes DEF Outcome, Activate, Excuse, Memory, Disk
    <2>2. /\ w # None /\ w.pc = "starting" /\ Own /\ ~w.stale
          /\ w.kind \in {"update", "upload"}
      BY <1>5, <2>1 DEF Moved, Now, Kin, Starting
    <2>3. row'[p] # None
      BY <1>5, <2>1 DEF Phase
    <2>4. Phase(reqs[r], p)'
      BY <2>2, <2>3 DEF Phase
    <2> QED
      BY <1>9, <2>1, <2>2, <2>4 DEF Leaves
  <1>23. CASE SetActive(r)
    <2>1. /\ q.pc = "starting" /\ Starting(q) /\ ~q.stale /\ row[p] # None
      BY <1>2, <1>5, <1>23, Routes DEF SetActive, Phase
    <2>2. /\ p \in files /\ UNCHANGED <<row, files, registry>> /\ To("activated")
          /\ loaded' = [loaded EXCEPT ![p] = "ACTIVE"]
      BY <1>3, <1>23, <2>1 DEF Outcome, To, SetActive, Disk, Fault, Excuse
    <2>3. /\ w # None /\ w.pc = "activated" /\ Own
          /\ w.kind \in {"update", "upload"}
      BY <1>7, <2>1, <2>2 DEF Kin, Starting
    <2>4. Active(p)' /\ loaded'[p] # None /\ loaded[p] # None
      BY <1>2, <2>1, <2>2, NoneAssumption DEF Active, TypeOK, Status, Knows
    <2>5. Phase(reqs[r], p)'
      BY <2>1, <2>2, <2>3, <2>4 DEF Phase
    <2> QED
      BY <1>6, <2>1, <2>2, <2>3, <2>4, <2>5 DEF Leaves
  <1>24. ASSUME NEW active \in BOOLEAN, Store(r, active)
         PROVE  IF row[p] = None THEN row'[p] = None
                ELSE row'[p] # None /\ row'[p].activated = active
    <2>1. CASE row[p] = None
      BY <1>24, <2>1 DEF Store
    <2>2. CASE row[p] # None
      <3> DEFINE v == [row[p] EXCEPT !.activated = active]
      <3>1. v \in Row /\ v.activated = active
        BY <1>2, <2>2 DEF Row
      <3>2. row'[p] = v
        BY <1>2, <1>24, <2>2 DEF Store, TypeOK
      <3>3. v # None
        BY <3>1, NoneAssumption
      <3> HIDE DEF v
      <3> QED
        BY <2>2, <3>1, <3>2, <3>3
    <2> QED
      BY <2>1, <2>2
  <1>25. CASE StoreActive(r)
    <2>1. /\ q.pc = "activated" /\ Starting(q) /\ Store(r, TRUE) /\ To("rebuild")
          /\ q.next \in {"activate", "done"} /\ row[p] # None /\ Active(p)
          /\ UNCHANGED <<files, loaded, registry>>
      BY <1>2, <1>3, <1>5, <1>25, Routes DEF Outcome, To, StoreActive, Phase, Memory
    <2>2. /\ w # None /\ w.pc = "rebuild" /\ Own
          /\ w.kind \in {"update", "upload"} /\ Starting(w) /\ ~Stopping(w)
      BY <1>7, <2>1 DEF Kin, Starting, Stopping
    <2>3. Active(p)' /\ On(p)'
      BY <1>24, <2>1 DEF Active, On
    <2>4. Phase(reqs[r], p)'
      BY <2>2, <2>3 DEF Phase
    <2> QED
      BY <1>9, <2>1, <2>2, <2>4 DEF Leaves
  <1>26. CASE Deactivate(r)
    <2>1. /\ q.pc = "deactivate" /\ UNCHANGED <<row, files, loaded, registry>>
          /\ Stopping(q)
          /\ Moved(r, "stopping", q.next, q.left, q.status, FALSE)
      BY <1>2, <1>3, <1>5, <1>26, Routes
      DEF Outcome, Deactivate, Memory, Disk, Phase
    <2>2. /\ w # None /\ w.pc = "stopping" /\ Own /\ ~w.stale
          /\ w.kind \in {"update", "upload"}
      BY <1>5, <2>1 DEF Moved, Now, Kin, Stopping
    <2>3. Phase(reqs[r], p)'
      BY <2>2 DEF Phase
    <2> QED
      BY <1>9, <2>1, <2>2, <2>3 DEF Leaves
  <1>27. CASE SetInactive(r)
    <2>1. /\ q.pc = "stopping" /\ Stopping(q) /\ ~q.stale
      BY <1>2, <1>5, <1>27, Routes DEF SetInactive, Phase
    <2>2. /\ p \in files /\ UNCHANGED <<row, files, registry>> /\ To("deactivated")
          /\ loaded' = [loaded EXCEPT ![p] = "INACTIVE"]
      BY <1>3, <1>27, <2>1 DEF Outcome, To, SetInactive, Disk, Fault, Excuse
    <2>3. /\ w # None /\ w.pc = "deactivated" /\ Own
          /\ w.kind \in {"update", "upload"}
      BY <1>7, <2>1, <2>2 DEF Kin, Stopping
    <2>4. ~Active(p)' /\ loaded'[p] # None /\ loaded[p] # None
      BY <1>2, <2>1, <2>2, NoneAssumption DEF Active, TypeOK, Status, Knows
    <2>5. Phase(reqs[r], p)'
      BY <2>1, <2>2, <2>3, <2>4 DEF Phase
    <2> QED
      BY <1>6, <2>1, <2>2, <2>3, <2>4, <2>5 DEF Leaves
  <1>28. CASE StoreInactive(r)
    <2>1. /\ q.pc = "deactivated" /\ Stopping(q) /\ Store(r, FALSE) /\ To("rebuild")
          /\ ~Active(p) /\ UNCHANGED <<files, loaded, registry>>
      BY <1>2, <1>3, <1>5, <1>28, Routes
      DEF Outcome, To, StoreInactive, Phase, Memory
    <2>2. /\ w # None /\ w.pc = "rebuild" /\ Own
          /\ w.kind \in {"update", "upload"} /\ Stopping(w)
      BY <1>7, <2>1 DEF Kin, Stopping
    <2>3. ~Active(p)' /\ ~On(p)'
      BY <1>24, <2>1 DEF Active, On
    <2>4. Phase(reqs[r], p)'
      BY <2>2, <2>3 DEF Phase
    <2> QED
      BY <1>9, <2>1, <2>2, <2>4 DEF Leaves
  <1>29. CASE Uninstall(r)
    <2>1. /\ q.pc = "uninstall" /\ q.kind = "delete" /\ q.next = "directory"
          /\ UNCHANGED <<row, files>>
      BY <1>2, <1>29, Routes DEF Uninstall
    <2>2. CASE /\ Now(r, "rebuild", q.next, q.left, q.status, TRUE) /\ Unloads(p, q.at)
      <3>1. /\ w # None /\ w.pc = "rebuild" /\ Own /\ w.kind = "delete"
        BY <1>5, <2>1, <2>2 DEF Now, Kin
      <3>2. loaded'[p] = None
        BY <1>2, <2>2 DEF Unloads, TypeOK
      <3>3. Phase(reqs[r], p)'
        BY <3>1, <3>2 DEF Phase, Stopping, Starting
      <3>4. Exact
        <4>1. \A x \in Extensions : <<p, x>> \in Entry /\ <<p, x>>[1] = p
          BY <1>2 DEF Entry
        <4>2. \A e \in Entry : Often(NotOf(p, registry), e) =
                                  IF e[1] = p THEN 0 ELSE Often(registry, e)
          BY <1>2, FilterCounts DEF TypeOK
        <4>3. registry' = NotOf(p, registry)
          BY <2>2 DEF Unloads, RemoveFromRegistry
        <4> QED
          BY <3>2, <4>1, <4>2, <4>3
      <3> QED
        BY <3>1, <3>2, <3>3, <3>4 DEF Leaves
    <2>3. CASE Back /\ NotUninstalled(p)
      <3>1. p \notin files /\ UNCHANGED <<loaded, registry>>
        BY <2>3 DEF NotUninstalled, Memory, Fault
      <3>2. /\ w # None /\ w.pc = "directory" /\ Own /\ w.kind = "delete"
        BY <1>8, <2>1, <2>3 DEF Kin
      <3>3. loaded'[p] = None
        BY <1>5, <3>1
      <3>4. Phase(reqs[r], p)'
        BY <3>2, <3>3 DEF Phase, Stopping, Starting
      <3> QED
        BY <1>9, <2>1, <3>1, <3>2, <3>4 DEF Leaves
    <2> QED
      BY <1>3, <1>29, <2>2, <2>3 DEF Outcome, Back
  <1>30. CASE TriggerRebuild(r)
    <2>1. /\ q.pc = "rebuild" /\ UNCHANGED <<row, files, loaded, registry>>
          /\ To("wait") \/ To("rebuilt")
      BY <1>3, <1>30 DEF Outcome, To, TriggerRebuild, Disk, Memory
    <2>2. /\ w # None /\ w.pc \in {"wait", "rebuilt"} /\ Own
          /\ w.kind = q.kind
          /\ Starting(w) <=> Starting(q)
          /\ Stopping(w) <=> Stopping(q)
      <3>1. CASE To("wait")
        BY <1>7, <3>1 DEF Kin
      <3>2. CASE To("rebuilt")
        BY <1>7, <3>2 DEF Kin
      <3> QED
        BY <2>1, <3>1, <3>2
    <2>3. /\ Active(p)' <=> Active(p)
          /\ On(p)' <=> On(p)
          /\ loaded'[p] = loaded[p]
      BY <2>1 DEF Active, On
    <2>4. Phase(reqs[r], p)'
      BY <1>5, <2>1, <2>2, <2>3 DEF Phase
    <2> QED
      BY <1>9, <2>1, <2>2, <2>4 DEF Leaves
  <1>31. CASE Rebuilt(r)
    <2>1. /\ q.pc = "rebuilt" /\ UNCHANGED <<row, files, loaded, registry>> /\ Back
      BY <1>3, <1>31 DEF Outcome, Back, Rebuilt, Disk, Memory
    <2>2. /\ Active(p)' <=> Active(p)
          /\ On(p)' <=> On(p)
          /\ loaded'[p] = loaded[p]
      BY <2>1 DEF Active, On
    <2>3. w # None =>
            /\ w.pc = q.next /\ Own /\ w.kind = q.kind /\ w.next = "done"
            /\ Starting(w) <=> Starting(q)
            /\ w.pc \in {"activate", "extract", "directory"}
      BY <1>8, <2>1, KinDoes DEF Kin
    <2>4. w = None => q.next = "done"
      BY <1>8, <2>1
    <2>5. CASE q.kind = "delete" /\ q.next = "directory"
      <3>1. loaded[p] = None
        BY <1>5, <2>1, <2>5 DEF Phase
      <3>2. Phase(reqs[r], p)' /\ w # None /\ w.pc = "directory"
        BY <2>2, <2>3, <2>4, <2>5, <3>1 DEF Phase, Stopping
      <3> QED
        BY <1>9, <2>1, <3>2 DEF Leaves
    <2>6. CASE Stopping(q)
      <3>1. ~Active(p) /\ ~On(p)
        BY <1>5, <2>1, <2>6 DEF Phase
      <3>2. Agree(p)'
        BY <2>2, <3>1 DEF Agree
      <3>3. w # None => w.pc = "extract" /\ w.kind = "upload"
        BY <2>3, <2>6 DEF Stopping
      <3>4. w # None => Phase(reqs[r], p)'
        BY <2>2, <2>3, <3>1, <3>3 DEF Phase
      <3> QED
        BY <1>9, <2>1, <3>2, <3>3, <3>4 DEF Leaves
    <2>7. CASE Starting(q) /\ q.next \in {"activate", "done"}
      <3>1. Active(p) /\ On(p)
        BY <1>5, <2>1, <2>7 DEF Phase, Stopping, Starting
      <3>2. Agree(p)'
        BY <2>2, <3>1 DEF Agree
      <3>3. w # None => w.pc = "activate" /\ w.kind \in {"update", "upload"}
        BY <2>3, <2>7 DEF Starting
      <3>4. row'[p] # None
        BY <2>1, <3>1 DEF On
      <3>5. w # None => Phase(reqs[r], p)'
        BY <2>3, <3>3, <3>4 DEF Phase
      <3> QED
        BY <1>9, <2>1, <3>2, <3>3, <3>5 DEF Leaves
    <2> QED
      BY <1>2, <2>1, <2>5, <2>6, <2>7, Routes
  <1> QED
    BY <1>11, <1>12, <1>13, <1>14, <1>15, <1>16, <1>17, <1>18, <1>19, <1>20, <1>21,
       <1>22, <1>23, <1>25, <1>26, <1>27, <1>28, <1>29, <1>30, <1>31, <1>32, <1>33,
       <1>34 DEF Step

\* A request that begins alone on a plugin
LEMMA BeginsMemory ==
  ASSUME ServerInv, NEW r \in Requests, NEW p \in PluginIds, Begun(r, p),
         p \notin overlapped', p \notin overlapped => PluginInv(p)
  PROVE  PluginInv(p)'
  <1> DEFINE w == reqs'[r]
  <1>1. TypeOK
    BY DEF ServerInv
  <1>2. Working(p) = {} /\ PluginInv(p)
    BY DEF Begun
  <1>3. Working(p)' = {r}
    BY <1>2 DEF Begun, OthersStay, Working
  <1>4. UNCHANGED <<row, files, loaded, registry>>
    BY DEF Begun, Disk, Memory
  <1>5. /\ Active(p)' <=> Active(p)
        /\ On(p)' <=> On(p)
        /\ Agree(p)
    BY <1>2, <1>4 DEF Active, On, PluginInv, Begun
  <1>6. w # None /\ w \in Request /\ ~w.stale /\ w.pc # "extend" /\ Entered(w, p)
    BY DEF Begun, Entered
  <1>7. Phase(reqs[r], p)'
    <2>1. Agree(p)'
      BY <1>5 DEF Agree
    <2>2. w.at # None => row[w.at] # None
      BY DEF Begun
    <2> HIDE DEF w
    <2> USE DEF LoadPhases, RunPhases, StopPhases, LastPhases
    <2>3. CASE w.kind = "install" /\ w.pc = "mark" /\ w.existed /\ w.at = p
      BY <2>1, <2>3 DEF Phase, Stopping, w
    <2>4. CASE w.kind = "delete" /\ w.pc = "uninstall" /\ w.existed /\ w.at = p
      BY <2>4 DEF Phase, Stopping, w
    <2>5. CASE w.kind = "update" /\ w.at # None /\ w.at = p /\ w.pc = "write"
               /\ w.changed = (row[p].activated # w.on)
      <3>1. row[p] # None
        BY <2>2, <2>5
      <3>2. w.on \in BOOLEAN /\ row[p].activated \in BOOLEAN
        BY <1>1, <1>6, <3>1 DEF Request, TypeOK, Row
      <3>3. w.changed <=> ~(On(p)' <=> w.on)
        <4>1. On(p)' <=> row[p].activated
          BY <1>5, <3>1 DEF On
        <4> QED
          BY <2>5, <3>2, <4>1
      <3> QED
        BY <2>1, <2>5, <3>3 DEF Phase, w
    <2>6. CASE w.kind = "update" /\ w.at # p /\ w.pc = "check"
      BY <2>1, <2>6 DEF Phase, w
    <2>7. CASE w.kind = "upload" /\ w.at = (IF row[p] = None THEN None ELSE p)
               /\ w.existed = (row[p] # None)
      <3>1. w.existed => w.at = p
        BY <2>7
      <3>2. CASE w.pc = "deactivate" /\ Active(p)
        BY <1>5, <2>7, <3>1, <3>2 DEF Phase, w
      <3>3. CASE w.pc = "extract" /\ ~(row[p] # None /\ Active(p))
        <4>1. ~Active(p)' /\ ~On(p)'
          BY <1>5, <3>3 DEF Agree, On
        <4> QED
          BY <2>7, <3>1, <3>3, <4>1 DEF Phase, w
      <3> QED
        BY <1>6, <2>7, <3>2, <3>3 DEF Entered
    <2> QED
      BY <1>6, <2>3, <2>4, <2>5, <2>6, <2>7 DEF Entered
  <1>8. /\ loaded'[p] # None => p \in files'
        /\ \A x \in Extensions : Often(registry', <<p, x>>)
                                    = IF loaded'[p] = None THEN 0 ELSE 1
    BY <1>2, <1>4 DEF PluginInv, Due
  <1>9. Working(p)' # {}
    BY <1>3
  <1> QED
    BY <1>3, <1>6, <1>7, <1>8, <1>9 DEF PluginInv, Due

\* Two moments of a request between which nothing happens to it that counts
\* for the plugin id p
Same(q, w, p) ==
    /\ w.kind = q.kind /\ w.on = q.on /\ w.existed = q.existed
    /\ w.pc = q.pc /\ w.next = q.next /\ w.left = q.left
    /\ w.changed = q.changed /\ w.stale = q.stale
    /\ w.at = p <=> q.at = p

LEMMA NextMemory ==
  ASSUME ServerInv, MemoryInv, [Next]_vars
  PROVE  MemoryInv'
  <1> SUFFICES ASSUME NEW p \in PluginIds, p \notin excused', p \notin overlapped'
               PROVE  PluginInv(p)'
    BY DEF MemoryInv
  <1>1. TypeOK
    BY DEF ServerInv
  <1>2. ASSUME p \notin excused, p \notin overlapped PROVE PluginInv(p)
    BY <1>2 DEF MemoryInv
  <1>3. ASSUME PluginInv(p), up' = up, loaded'[p] = loaded[p],
               On(p)' <=> On(p), row[p] # None => row'[p] # None,
               p \in files' <=> p \in files, Working(p)' = Working(p),
               \A s \in Working(p) : Same(reqs[s], reqs'[s], p),
               \A x \in Extensions : Often(registry', <<p, x>>) = Often(registry, <<p, x>>)
        PROVE  PluginInv(p)'
    <2>1. Active(p)' <=> Active(p)
      BY <1>3 DEF Active
    <2>2. up /\ Working(p) = {} => Agree(p)
      BY <1>3 DEF PluginInv
    <2>3. (up /\ Working(p) = {} => Agree(p))'
      BY <1>3, <2>1, <2>2 DEF Agree
    <2>4. loaded'[p] # None => p \in files'
      BY <1>3 DEF PluginInv
    <2>5. ASSUME NEW s \in Working(p) PROVE Phase(reqs[s], p)'
      <3>1. Phase(reqs[s], p) /\ Same(reqs[s], reqs'[s], p)
        BY <1>3, <2>5 DEF PluginInv
      <3>2. Agree(p)' <=> Agree(p)
        BY <1>3, <2>1 DEF Agree
      <3>3. /\ Starting(reqs'[s]) <=> Starting(reqs[s])
            /\ Stopping(reqs'[s]) <=> Stopping(reqs[s])
        BY <3>1 DEF Same, Starting, Stopping
      <3> QED
        BY <1>3, <2>1, <3>1, <3>2, <3>3 DEF Phase, Same
    <2>6. \A x \in Extensions : Often(registry', <<p, x>>) = Due(p, x)'
      BY <1>3 DEF PluginInv, Due, Same
    <2> QED
      BY <1>3, <2>3, <2>4, <2>5, <2>6 DEF PluginInv
  <1>4. CASE \E o \in PluginIds : CreatePlugin(o)
    <2>1. PICK o \in PluginIds : CreatePlugin(o)
      BY <1>4
    <2>2. UNCHANGED <<files, up, loaded, registry, reqs, excused, overlapped>>
      BY <2>1 DEF CreatePlugin, Memory, History
    <2>3. /\ row[o] = None /\ row'[o] # None /\ ~row'[o].activated
          /\ p # o => row'[p] = row[p]
      BY <2>1, CreateServer
    <2>4. (On(p)' <=> On(p)) /\ (row[p] # None => row'[p] # None)
      <3>1. CASE p = o
        BY <2>3, <3>1 DEF On
      <3>2. CASE p # o
        BY <2>3, <3>2 DEF On
      <3> QED
        BY <3>1, <3>2
    <2>5. Working(p)' = Working(p)
      BY <2>2 DEF Working
    <2> QED
      BY <1>2, <1>3, <2>2, <2>4, <2>5 DEF Same
  <1>5. CASE \E o \in PluginIds, r \in Requests : Begun(r, o)
    <2>2. PICK o \in PluginIds, r \in Requests : Begun(r, o)
      BY <1>5
    <2>3. excused' = excused /\ overlapped \subseteq overlapped'
      BY <2>2 DEF Begun
    <2>4. CASE p = o
      BY <1>2, <2>2, <2>3, <2>4, BeginsMemory
    <2>5. CASE p # o
      <3>1. UNCHANGED <<row, files, up, loaded, registry>>
        BY <2>2 DEF Begun, Disk, Memory
      <3>2. /\ Working(p)' = Working(p)
            /\ \A s \in Working(p) : Same(reqs[s], reqs'[s], p)
        BY <2>2, <2>5 DEF Begun, OthersStay, Working, Same
      <3>3. On(p)' <=> On(p)
        BY <3>1 DEF On
      <3> QED
        BY <1>2, <1>3, <2>3, <3>1, <3>2, <3>3
    <2> QED
      BY <2>4, <2>5
  <1>6. CASE \E r \in Requests : Step(r)
    <2>1. PICK r \in Requests : Step(r)
      BY <1>6
    <2>2. PluginInv(p)
      BY <1>2, <2>1, StepFrames DEF Frame, HistoryFrame
    <2>3. CASE p = reqs[r].plugin
      BY <2>1, <2>2, <2>3, StepMemory, StepLeaves
    <2>4. CASE p # reqs[r].plugin
      <3>1. /\ loaded'[p] = loaded[p]
            /\ p \in files' <=> p \in files
            /\ Working(p)' = Working(p)
            /\ \A s \in Working(p) :
                  /\ Like(reqs[s], reqs'[s]) /\ SameRow(r, s)
                  /\ reqs'[s].stale = reqs[s].stale
            /\ up' = up
            /\ \A x \in Extensions :
                  Often(registry', <<p, x>>) = Often(registry, <<p, x>>)
        BY <2>1, <2>4, Elsewhere
      <3>2. row'[p] = row[p]
        BY <2>1, <2>4, StepFrames DEF Frame, DiskFrame
      <3>3. On(p)' <=> On(p)
        BY <3>2 DEF On
      <3>4. ASSUME NEW s \in Working(p) PROVE Same(reqs[s], reqs'[s], p)
        <4>1. reqs[s].at # None => row[reqs[s].at] # None
          BY <3>4, Knowing DEF Working, Knows
        <4>2. p # None
          BY NoneAssumption
        <4>3. SameRow(r, s) /\ Like(reqs[s], reqs'[s]) /\ reqs'[s].stale = reqs[s].stale
          BY <3>1, <3>4
        <4>4. reqs'[s].at = p <=> reqs[s].at = p
          BY <3>2, <4>1, <4>2, <4>3 DEF SameRow
        <4> QED
          BY <4>3, <4>4 DEF Same, Like
      <3> QED
        BY <1>3, <2>2, <3>1, <3>2, <3>3, <3>4
    <2> QED
      BY <2>3, <2>4
  <1>7. CASE RebuildStep
    <2>1. /\ UNCHANGED <<row, files, up, loaded, registry, excused, overlapped>>
          /\ \A s \in Requests : Onward(reqs[s], reqs'[s])
          /\ Working(p)' = Working(p)
      BY <1>1, <1>7, RebuildDoes
    <2>2. PluginInv(p)
      BY <1>2, <2>1
    <2>3. /\ Active(p)' <=> Active(p)
          /\ On(p)' <=> On(p)
          /\ Agree(p)' <=> Agree(p)
      BY <2>1 DEF Active, On, Agree
    <2>4. ASSUME NEW s \in Working(p)
          PROVE  /\ Phase(reqs[s], p)'
                 /\ reqs'[s].pc = "extend" <=> reqs[s].pc = "extend"
                 /\ reqs'[s].left = reqs[s].left
      <3>1. Phase(reqs[s], p) /\ Onward(reqs[s], reqs'[s])
        BY <2>1, <2>2 DEF PluginInv, Working
      <3>2. CASE reqs'[s] = reqs[s]
        BY <2>1, <2>3, <3>1, <3>2 DEF Phase
      <3>3. CASE reqs'[s] # reqs[s]
        <4>1. /\ reqs'[s].kind = reqs[s].kind /\ reqs'[s].existed = reqs[s].existed
              /\ reqs[s].kind # "update" => reqs'[s].at = reqs[s].at
              /\ reqs[s].pc = "wait" /\ reqs'[s].pc = "rebuilt"
              /\ reqs'[s].left = reqs[s].left
              /\ Starting(reqs'[s]) <=> Starting(reqs[s])
              /\ Stopping(reqs'[s]) <=> Stopping(reqs[s])
          BY <3>1, <3>3, KinDoes DEF Onward, Kin
        <4>2. Phase(reqs[s], p)'
          BY <2>1, <2>3, <3>1, <4>1
          DEF Phase, LoadPhases, RunPhases, StopPhases, LastPhases
        <4> QED
          BY <4>1, <4>2
      <3> QED
        BY <3>2, <3>3
    <2> QED
      BY <2>1, <2>2, <2>3, <2>4 DEF PluginInv, Due
  <1>8. CASE Start
    <2>1. /\ loaded'[p] = IF p \notin Present THEN None ELSE StatusOf(p)
          /\ p \notin Present => ~(row[p] # None /\ row[p].activated)
          /\ \A e : Often(registry', e) = IF e \in Present \X Extensions THEN 1 ELSE 0
          /\ UNCHANGED <<row, files, reqs>>
          /\ reqs = [r \in Requests |-> None]
      BY <1>8, StartDoes DEF Down
    <2>2. StatusOf(p) \in Status /\ StatusOf(p) # None
      BY NoneAssumption DEF StatusOf, Status
    <2>3. Working(p)' = {}
      BY <2>1 DEF Working
    <2>4. Agree(p)'
      <3>1. Active(p)' <=> p \in Present /\ row[p].activated
        BY <2>1, <2>2, NoneAssumption DEF Active, StatusOf, Present, Status
      <3> QED
        BY <2>1, <3>1 DEF Agree, On, Present
    <2>5. loaded'[p] # None <=> p \in Present
      BY <2>1, <2>2
    <2>6. loaded'[p] # None => p \in files'
      BY <2>1, <2>5 DEF Present
    <2>7. \A x \in Extensions : Often(registry', <<p, x>>)
                                   = IF loaded'[p] = None THEN 0 ELSE 1
      BY <2>1, <2>5
    <2> QED
      BY <2>3, <2>4, <2>6, <2>7 DEF PluginInv, Due
  <1>9. CASE Exit
    <2>1. Down' /\ up' = FALSE /\ Working(p)' = {}
      BY <1>9, ExitDoes
    <2>2. loaded'[p] = None /\ registry' = <<>>
      BY <2>1 DEF Down
    <2>3. \A e : Often(registry', e) = 0
      BY <2>2, NothingOften
    <2> QED
      BY <2>1, <2>2, <2>3 DEF PluginInv, Due
  <1>10. CASE UNCHANGED vars
    <2>1. UNCHANGED <<row, files, up, loaded, registry, reqs, excused, overlapped>>
      BY <1>10 DEF vars, Disk, Memory, History
    <2> QED
      BY <1>2, <1>3, <2>1 DEF On, Working, Same
  <1> QED
    BY <1>1, <1>4, <1>5, <1>6, <1>7, <1>8, <1>9, <1>10, Steps

LEMMA InitMemory == Init => MemoryInv
  <1> SUFFICES ASSUME Init, NEW p \in PluginIds PROVE PluginInv(p)
    BY DEF MemoryInv
  <1>1. /\ ~up /\ Working(p) = {} /\ loaded[p] = None /\ registry = <<>>
    BY DEF Init, Working
  <1>2. \A e : Often(registry, e) = 0
    BY <1>1, NothingOften
  <1> QED
    BY <1>1, <1>2 DEF PluginInv, Due

\* While the process runs and nobody works on a plugin, its row and the manager's
\* memory agree on whether it is active, whatever requests about other plugins
\* do and wherever requests were cut off before the process started, unless
\* since then two requests about it overlapped, one failed, or an update gave or
\* took its plugin id.
THEOREM StatusesAgree == Spec => []Agreement
  <1>1. ServerInv /\ MemoryInv /\ [Next]_vars => MemoryInv'
    BY NextMemory
  <1>2. MemoryInv => Agreement
    BY DEF MemoryInv, PluginInv, Agreement, Agree, On
  <1> QED
    BY <1>1, <1>2, InitMemory, InitServer, NextServer, PTL DEF Spec

\* The registry holds each extension of a loaded plugin once and nothing of a
\* plugin that is not loaded, under the same conditions.
THEOREM RegistryRight == Spec => []RegistryExact
  <1>1. ServerInv /\ MemoryInv /\ [Next]_vars => MemoryInv'
    BY NextMemory
  <1>2. ServerInv /\ MemoryInv => RegistryExact
    <2> SUFFICES ASSUME ServerInv, MemoryInv, NEW p \in PluginIds,
                        p \notin excused, p \notin overlapped,
                        Working(p) = {}, NEW e \in Of(p)
                 PROVE  Cardinality({i \in DOMAIN registry : registry[i] = e})
                           = IF loaded[p] = None THEN 0 ELSE 1
      BY DEF RegistryExact
    <2>1. PICK x \in Extensions : e = <<p, x>>
      BY DEF Of
    <2>2. Often(registry, e) = IF loaded[p] = None THEN 0 ELSE 1
      BY <2>1 DEF MemoryInv, PluginInv, Due
    <2>3. registry \in Seq(Entry)
      BY DEF ServerInv, TypeOK
    <2>4. DOMAIN registry = 1 .. Len(registry)
      BY <2>3
    <2> QED
      BY <2>2, <2>4 DEF Often, Places
  <1> QED
    BY <1>1, <1>2, InitMemory, InitServer, NextServer, PTL DEF Spec
=============================================================================
