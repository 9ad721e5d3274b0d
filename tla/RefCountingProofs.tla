------------------------- MODULE RefCountingProofs -------------------------
(***************************************************************************)
(* Reference counting is right for any number of threads, objects and      *)
(* pointers: the counter is the number of owners, no pointer of a deleted  *)
(* object is used, and the whole implements Ownership.                     *)
(***************************************************************************)
EXTENDS RefCounting, FiniteSetTheorems, TLAPS

LEMMA FiniteReferences == IsFiniteSet(References)
  <1>1. IsFiniteSet(Slots)
    BY FS_Union, RefAssumption DEF Slots
  <1> QED
    BY <1>1, FS_Union, RefAssumption DEF References

LEMMA FiniteOwners ==
  ASSUME NEW o
  PROVE  /\ IsFiniteSet(Owners(o)) /\ Cardinality(Owners(o)) \in Nat
         /\ Cardinality(Owners(o)) = 0 <=> Owners(o) = {}
         /\ \A r \in Owners(o) : Cardinality(Owners(o)) = 1 <=> Owners(o) = {r}
  <1>1. IsFiniteSet(Owners(o))
    BY FiniteReferences, FS_Subset DEF Owners
  <1>2. ASSUME NEW r \in Owners(o)
        PROVE  Cardinality(Owners(o)) = 1 <=> Owners(o) = {r}
    BY <1>1, FS_Singleton
  <1> QED
    BY <1>1, <1>2, FS_CardinalityType, FS_EmptySet

(* One reference more, one less, and one that is passed on.                *)
LEMMA OneMore ==
  ASSUME refers \in [References -> Objects \union {Null}], NEW r \in References,
         NEW o \in Objects, refers[r] = Null,
         refers' = [refers EXCEPT ![r] = o]
  PROVE  /\ r \in Owners(o)'
         /\ Cardinality(Owners(o)') = Cardinality(Owners(o)) + 1
         /\ \A x \in Objects \ {o} : Owners(x)' = Owners(x)
  <1>1. o # Null
    BY RefAssumption
  <1>2. Owners(o)' = Owners(o) \union {r} /\ r \notin Owners(o)
    BY <1>1 DEF Owners
  <1>3. \A x \in Objects \ {o} : Owners(x)' = Owners(x)
    BY RefAssumption DEF Owners
  <1>4. IsFiniteSet(Owners(o)) /\ Cardinality(Owners(o)) \in Nat
    BY FiniteOwners
  <1>5. Cardinality(Owners(o)') = Cardinality(Owners(o)) + 1
    BY <1>2, <1>4, FS_AddElement
  <1> QED
    BY <1>2, <1>3, <1>5

LEMMA OneLess ==
  ASSUME refers \in [References -> Objects \union {Null}], NEW r \in References,
         NEW o \in Objects, refers[r] = o,
         refers' = [refers EXCEPT ![r] = Null]
  PROVE  /\ r \in Owners(o)
         /\ Owners(o)' = Owners(o) \ {r}
         /\ Cardinality(Owners(o)') = Cardinality(Owners(o)) - 1
         /\ \A x \in Objects \ {o} : Owners(x)' = Owners(x)
  <1>1. o # Null
    BY RefAssumption
  <1>2. Owners(o)' = Owners(o) \ {r} /\ r \in Owners(o)
    BY <1>1 DEF Owners
  <1>3. \A x \in Objects \ {o} : Owners(x)' = Owners(x)
    BY RefAssumption DEF Owners
  <1>4. IsFiniteSet(Owners(o)) /\ Cardinality(Owners(o)) \in Nat
    BY FiniteOwners
  <1>5. Cardinality(Owners(o)') = Cardinality(Owners(o)) - 1
    BY <1>2, <1>4, FS_RemoveElement
  <1> QED
    BY <1>2, <1>3, <1>5

LEMMA OnePassed ==
  ASSUME refers \in [References -> Objects \union {Null}],
         NEW r \in References, NEW q \in References,
         NEW o \in Objects, refers[r] = Null, refers[q] = o,
         refers' = [refers EXCEPT ![r] = o, ![q] = Null]
  PROVE  /\ r \in Owners(o)'
         /\ Cardinality(Owners(o)') = Cardinality(Owners(o))
         /\ \A x \in Objects \ {o} : Owners(x)' = Owners(x)
  <1>1. o # Null /\ r # q
    BY RefAssumption
  <1>2. Owners(o)' = (Owners(o) \ {q}) \union {r} /\ q \in Owners(o) /\ r \notin Owners(o)
    BY <1>1 DEF Owners
  <1>3. \A x \in Objects \ {o} : Owners(x)' = Owners(x)
    BY RefAssumption DEF Owners
  <1>4. IsFiniteSet(Owners(o)) /\ Cardinality(Owners(o)) \in Nat
    BY FiniteOwners
  <1>5. Cardinality(Owners(o) \ {q}) = Cardinality(Owners(o)) - 1
        /\ IsFiniteSet(Owners(o) \ {q})
    BY <1>2, <1>4, FS_RemoveElement
  <1>6. Cardinality(Owners(o)') = Cardinality(Owners(o) \ {q}) + 1
    BY <1>2, <1>5, FS_AddElement
  <1>7. Cardinality(Owners(o)') = Cardinality(Owners(o))
    BY <1>4, <1>5, <1>6
  <1>8. r \in Owners(o)'
    BY <1>2
  <1> QED
    BY <1>3, <1>7, <1>8

----------------------------------------------------------------------------
(* The inductive invariant.                                                *)
IInv == RefTypeOK /\ CounterIsOwners /\ CallsAreSafe

LEMMA RefersType ==
  ASSUME RefTypeOK
  PROVE  refers \in [References -> Objects \union {Null}]
  BY DEF RefTypeOK, refers, References

LEMMA OwnedIsAlive ==
  ASSUME IInv, NEW r \in References, refers[r] # Null
  PROVE  /\ refers[r] \in Objects /\ life[refers[r]] = "alive"
         /\ r \in Owners(refers[r])
         /\ count[refers[r]] = Cardinality(Owners(refers[r]))
  <1>1. refers[r] \in Objects /\ r \in Owners(refers[r])
    BY RefersType DEF IInv, Owners
  <1> QED
    BY <1>1, RefersType DEF IInv, CounterIsOwners

(* What a step does to one object, as Ownership has it.  In each case the  *)
(* owners of all other objects are left alone.                             *)
LEMMA Created ==
  ASSUME IInv, RefTypeOK', NEW r \in References, NEW o \in Objects,
         refers[r] = Null, life[o] # "alive",
         refers' = [refers EXCEPT ![r] = o],
         count' = [count EXCEPT ![o] = 1], life' = [life EXCEPT ![o] = "alive"]
  PROVE  /\ CounterIsOwners' /\ O!Create(r, o) /\ Owners(o) = {}
         /\ \A x \in Objects \ {o} : Owners(x)' = Owners(x)
  <1>1. Owners(o) = {}
    BY DEF IInv, CounterIsOwners
  <1>2. /\ r \in Owners(o)'
        /\ Cardinality(Owners(o)') = Cardinality(Owners(o)) + 1
        /\ \A x \in Objects \ {o} : Owners(x)' = Owners(x)
    BY RefersType, OneMore DEF IInv
  <1>3. Cardinality(Owners(o)) = 0
    BY <1>1, RefersType, FiniteOwners DEF IInv
  <1>5. CounterIsOwners'
    BY <1>2, <1>3 DEF IInv, CounterIsOwners, RefTypeOK
  <1>6. O!Create(r, o)
    BY <1>1 DEF O!Create, O!ReferencesTo, Owners, IInv, RefTypeOK
  <1> QED
    BY <1>1, <1>2, <1>5, <1>6

LEMMA Shared ==
  ASSUME IInv, NEW r \in References, NEW o \in Objects,
         refers[r] = Null, life[o] = "alive",
         refers' = [refers EXCEPT ![r] = o],
         count' = [count EXCEPT ![o] = @ + 1], UNCHANGED life
  PROVE  /\ CounterIsOwners' /\ O!Share(r, o)
         /\ \A x \in Objects \ {o} : Owners(x)' = Owners(x)
  <1>2. /\ r \in Owners(o)'
        /\ Cardinality(Owners(o)') = Cardinality(Owners(o)) + 1
        /\ \A x \in Objects \ {o} : Owners(x)' = Owners(x)
    BY RefersType, OneMore DEF IInv
  <1>5. CounterIsOwners'
    BY <1>2 DEF IInv, CounterIsOwners, RefTypeOK
  <1>6. O!Share(r, o)
    BY DEF O!Share
  <1> QED
    BY <1>2, <1>5, <1>6

LEMMA Dropped ==
  ASSUME IInv, NEW r \in References, NEW o \in Objects, refers[r] = o,
         refers' = [refers EXCEPT ![r] = Null],
         count' = [count EXCEPT ![o] = @ - 1],
         \A x \in Objects : life'[x] = "alive" <=>
                               life[x] = "alive" /\ ~(x = o /\ count[o] = 1)
  PROVE  /\ CounterIsOwners' /\ O!Drop(r)
         /\ \A x \in Objects \ {o} : Owners(x)' = Owners(x)
  <1>1. /\ r \in Owners(o)
        /\ Owners(o)' = Owners(o) \ {r}
        /\ Cardinality(Owners(o)') = Cardinality(Owners(o)) - 1
        /\ \A x \in Objects \ {o} : Owners(x)' = Owners(x)
    BY RefersType, OneLess DEF IInv
  <1>3. life[o] = "alive" /\ count[o] = Cardinality(Owners(o)) /\ o # Null
    BY OwnedIsAlive, RefAssumption
  <1>4. /\ count[o] = 1 <=> Owners(o) = {r}
        /\ Owners(o)' = {} <=> count[o] = 1
    BY <1>1, <1>3, FiniteOwners
  <1>5. CounterIsOwners'
    <2> SUFFICES ASSUME NEW x \in Objects
                 PROVE  IF life'[x] = "alive"
                          THEN count'[x] = Cardinality(Owners(x)') /\ Owners(x)' # {}
                          ELSE Owners(x)' = {}
      BY DEF CounterIsOwners
    <2>1. CASE x = o
      BY <1>1, <1>3, <1>4, <2>1 DEF IInv, RefTypeOK
    <2>2. CASE x # o
      BY <1>1, <2>2 DEF IInv, CounterIsOwners, RefTypeOK
    <2> QED
      BY <2>1, <2>2
  <1>6. O!Drop(r)
    <2> DEFINE Living == {x \in Objects : life[x] = "alive"}
    <2>1. Living' = IF count[o] = 1 THEN Living \ {o} ELSE Living
      OBVIOUS
    <2>2. O!ReferencesTo(o) = Owners(o)
      BY DEF O!ReferencesTo, Owners
    <2> HIDE DEF Living
    <2>3. Living' = IF O!ReferencesTo(o) = {r} THEN Living \ {o} ELSE Living
      BY <1>4, <2>1, <2>2
    <2> QED
      BY <1>3, <2>3 DEF O!Drop, Living
  <1> QED
    BY <1>1, <1>5, <1>6

LEMMA Passed ==
  ASSUME IInv, NEW r \in References, NEW q \in References, NEW o \in Objects,
         refers[r] = Null, refers[q] = o,
         refers' = [refers EXCEPT ![r] = o, ![q] = Null],
         UNCHANGED <<count, life>>
  PROVE  /\ CounterIsOwners' /\ O!Pass(r, q)
         /\ \A x \in Objects \ {o} : Owners(x)' = Owners(x)
  <1>1. /\ r \in Owners(o)'
        /\ Cardinality(Owners(o)') = Cardinality(Owners(o))
        /\ \A x \in Objects \ {o} : Owners(x)' = Owners(x)
    BY RefersType, OnePassed DEF IInv
  <1>3. life[o] = "alive" /\ o # Null
    BY OwnedIsAlive, RefAssumption
  <1>4. CounterIsOwners'
    BY <1>1, <1>3 DEF IInv, CounterIsOwners, RefTypeOK
  <1>5. O!Pass(r, q)
    BY <1>3 DEF O!Pass
  <1> QED
    BY <1>1, <1>4, <1>5

LEMMA Kept ==
  ASSUME IInv, refers' = refers, count' = count,
         \A x \in Objects : life'[x] = "alive" <=> life[x] = "alive"
  PROVE  /\ CounterIsOwners' /\ UNCHANGED O!vars
         /\ \A x \in Objects : Owners(x)' = Owners(x)
  <1>1. \A x : Owners(x)' = Owners(x)
    BY DEF Owners
  <1>2. CounterIsOwners'
    BY <1>1 DEF IInv, CounterIsOwners
  <1>3. UNCHANGED O!vars
    BY DEF O!vars
  <1> QED
    BY <1>1, <1>2, <1>3

----------------------------------------------------------------------------
(* Which pointers are owning references.                                   *)
LEMMA Disjoint ==
  /\ Null \notin Slots /\ Slots \intersect Threads = {}
  /\ References = Slots \union Threads /\ Slots = Locals \union Objects
  /\ Locals \intersect Objects = {} /\ Null \notin Objects
  /\ \A l \in Locals : Home[l] \in Threads
  /\ NoCall.dst = Null /\ NoCall.src = Null /\ NoCall.kind = "none"
  BY RefAssumption DEF Slots, References, NoCall

LEMMA RefersAt ==
  /\ \A t \in Threads : refers[t] = raw[t]
  /\ \A s \in Slots : refers[s] = IF Owning(s) THEN ptr[s] ELSE Null
  BY Disjoint DEF refers

LEMMA RefersNext ==
  /\ \A t \in Threads : refers'[t] = raw'[t]
  /\ \A s \in Slots : refers'[s] = IF Owning(s)' THEN ptr'[s] ELSE Null
  BY Disjoint DEF refers

LEMMA RefersIsAFunction ==
  /\ refers = [r \in References |-> refers[r]]
  /\ refers' = [r \in References |-> refers'[r]]
  BY DEF refers

LEMMA OwnLocal ==
  ASSUME IInv, NEW l \in Locals, call[Home[l]].dst # l
  PROVE  Owning(l) /\ refers[l] = ptr[l]
  <1>1. ASSUME NEW u \in Threads, call[u].dst = l
        PROVE  FALSE
    BY <1>1, Disjoint DEF IInv, CallsAreSafe, CallIsSafe
  <1>2. Owning(l)
    BY <1>1, Disjoint DEF Owning
  <1> QED
    BY <1>2, RefersAt, Disjoint

(* What t reaches through a local of its own.                              *)
Reaches(t, s) ==
  /\ s # call[t].dst
  /\ s \in Locals => Home[s] = t
  /\ s \in Objects => \E l \in Locals : Home[l] = t /\ l # call[t].dst /\ ptr[l] = s

LEMMA ReachedIsOwning ==
  ASSUME IInv, NEW t \in Threads, NEW s \in Slots, Reaches(t, s)
  PROVE  /\ Owning(s) /\ refers[s] = ptr[s]
         /\ s \in Objects => life[s] = "alive"
         /\ \A u \in Threads : call[u].dst # s
  <1>1. CASE s \in Locals
    BY <1>1, OwnLocal, Disjoint DEF Reaches, Owning
  <1>2. CASE s \in Objects
    <2>1. PICK l \in Locals : Home[l] = t /\ l # call[t].dst /\ ptr[l] = s
      BY <1>2 DEF Reaches
    <2>2. refers[l] = s /\ l \in References
      BY <2>1, OwnLocal, Disjoint
    <2>3. l \in Owners(s) /\ life[s] = "alive"
      BY <1>2, <2>2, OwnedIsAlive, Disjoint
    <2>4. ASSUME NEW u \in Threads, call[u].dst = s
          PROVE  FALSE
      <3>1. u # t /\ call[u] # NoCall
        BY <2>4, Disjoint DEF Reaches
      <3>2. PICK k \in Locals : Home[k] = u /\ Owners(s) = {k}
        BY <1>2, <2>4, <3>1 DEF IInv, CallsAreSafe, CallIsSafe
      <3> QED
        BY <2>1, <2>3, <3>1, <3>2
    <2> QED
      BY <1>2, <2>3, <2>4, RefersAt, Disjoint DEF Owning
  <1> QED
    BY <1>1, <1>2, Disjoint

(* A thread that may write to the member of an object is its only owner.   *)
LEMMA MemberIsItsOwn ==
  ASSUME IInv, NEW t \in Threads, Idle(t), NEW s \in Objects, MayWrite(t, s)
  PROVE  \E l \in Locals : Home[l] = t /\ ptr[l] = s /\ Owners(s) = {l}
  <1>1. PICK l \in Locals : Home[l] = t /\ ptr[l] = s
    BY Disjoint DEF MayWrite, Holders
  <1>2. call[t].dst # l
    BY Disjoint DEF Idle
  <1>3. refers[l] = s /\ l \in References
    BY <1>1, <1>2, OwnLocal, Disjoint
  <1>4. l \in Owners(s) /\ count[s] = Cardinality(Owners(s)) /\ count[s] = 1
    BY <1>3, OwnedIsAlive, Disjoint DEF MayWrite
  <1> QED
    BY <1>1, <1>4, FiniteOwners

LEMMA MayMeansReaches ==
  ASSUME NEW t \in Threads, Idle(t), NEW s \in Slots, NEW d,
         MayRead(t, s, d) \/ MayWrite(t, s)
  PROVE  Reaches(t, s)
  BY Disjoint DEF Idle, MayRead, MayWrite, Holders, Reaches

(* The calls of a thread that a step leaves alone.                         *)
LEMMA CallStays ==
  ASSUME IInv, NEW u \in Threads, call'[u] = call[u],
         call[u] # NoCall => raw'[u] = raw[u],
         \A l \in Locals : Home[l] = u /\ l # call[u].dst => ptr'[l] = ptr[l],
         \A x \in Objects : x = call[u].dst => Owners(x)' = Owners(x)
  PROVE  CallIsSafe(u)'
  <1>1. CallIsSafe(u)
    BY DEF IInv, CallsAreSafe
  <1> QED
    BY <1>1, Disjoint DEF CallIsSafe

LEMMA CallsGoOn ==
  ASSUME IInv, NEW u \in Threads, call'[u] = call[u],
         call[u] # NoCall => raw'[u] = raw[u],
         \A l \in Locals : Home[l] = u /\ l # call[u].dst => ptr'[l] = ptr[l],
         NEW o, \A x \in Objects \ {o} : Owners(x)' = Owners(x),
         \A l \in Locals : Owners(o) = {l} => Home[l] # u
  PROVE  CallIsSafe(u)'
  <1>1. ASSUME NEW x \in Objects, x = call[u].dst
        PROVE  Owners(x)' = Owners(x)
    <2>1. CallIsSafe(u) /\ call[u] # NoCall
      BY <1>1, Disjoint DEF IInv, CallsAreSafe
    <2> QED
      BY <1>1, <2>1 DEF CallIsSafe
  <1> QED
    BY <1>1, CallStays

----------------------------------------------------------------------------
(* What every step does.                                                   *)
StepIsGood == IInv' /\ [O!Next]_(O!vars)

LEMMA OwnedIsCounted ==
  ASSUME IInv, NEW r \in References, refers[r] # Null
  PROVE  count[refers[r]] \in Nat \ {0}
  BY OwnedIsAlive, FiniteOwners

LEMMA AbstractNext ==
  ASSUME NEW r \in References, NEW q \in References, NEW o \in Objects,
         O!Create(r, o) \/ O!Share(r, o) \/ O!Drop(r) \/ O!Pass(r, q)
  PROVE  O!Next
  BY DEF O!Next

LEMMA MakePtrStep ==
  ASSUME IInv, NEW t \in Threads, NEW l \in Locals, NEW o \in Objects,
         MakePtr(t, l, o)
  PROVE  StepIsGood
  <1> USE DEF MakePtr
  <1>1. refers[l] = Null /\ l \in References
    BY OwnLocal, Disjoint DEF Idle
  <1>2. RefTypeOK'
    BY Disjoint DEF IInv, RefTypeOK
  <1>3. \A u \in Threads : call[u].dst # o
    <2>1. Owners(o) = {}
      BY DEF IInv, CounterIsOwners
    <2> QED
      BY <2>1, Disjoint DEF IInv, CallsAreSafe, CallIsSafe
  <1>4. refers' = [refers EXCEPT ![l] = o]
    <2>1. refers'[l] = o
      BY OwnLocal, Disjoint DEF refers, Owning, Idle, IInv, RefTypeOK
    <2>2. ASSUME NEW q \in References, q # l
          PROVE  refers'[q] = refers[q]
      BY <2>2, <1>3, Disjoint DEF refers, Owning, IInv, RefTypeOK
    <2> QED
      BY <2>1, <2>2, RefersIsAFunction
  <1>5. /\ CounterIsOwners' /\ O!Create(l, o) /\ Owners(o) = {}
        /\ \A x \in Objects \ {o} : Owners(x)' = Owners(x)
    BY <1>1, <1>2, <1>4, Created
  <1>6. ASSUME NEW u \in Threads
        PROVE  CallIsSafe(u)'
    <2>1. CASE u = t
      BY <2>1 DEF CallIsSafe, Idle
    <2>2. CASE u # t
      <3>1. \A k \in Locals : Owners(o) = {k} => Home[k] # u
        BY <1>5
      <3>2. \A k \in Locals : Home[k] = u => ptr'[k] = ptr[k]
        BY <2>2, Disjoint DEF IInv, RefTypeOK
      <3> QED
        BY <3>1, <3>2, <1>5, CallsGoOn
    <2> QED
      BY <2>1, <2>2
  <1> QED
    BY <1>1, <1>2, <1>5, <1>6, AbstractNext DEF StepIsGood, IInv, CallsAreSafe

LEMMA CopyConstructStep ==
  ASSUME IInv, NEW t \in Threads, NEW l \in Locals, NEW s \in Slots,
         CopyConstruct(t, l, s)
  PROVE  StepIsGood
  <1> DEFINE o == ptr[s]
  <1> USE DEF CopyConstruct, AddRef
  <1>1. refers[l] = Null /\ l \in References /\ s \in References
    BY OwnLocal, Disjoint DEF Idle
  <1>2. refers[s] = o /\ o \in Objects /\ life[o] = "alive" /\ s \in Owners(o)
    BY <1>1, MayMeansReaches, ReachedIsOwning, OwnedIsAlive
  <1>3. RefTypeOK'
    BY <1>2, Disjoint DEF IInv, RefTypeOK
  <1>4. refers' = [refers EXCEPT ![l] = o]
    <2>1. refers'[l] = o
      BY OwnLocal, Disjoint DEF refers, Owning, Idle, IInv, RefTypeOK
    <2>2. ASSUME NEW q \in References, q # l
          PROVE  refers'[q] = refers[q]
      BY <2>2, Disjoint DEF refers, Owning, IInv, RefTypeOK
    <2> QED
      BY <2>1, <2>2, RefersIsAFunction
  <1>5. /\ CounterIsOwners' /\ O!Share(l, o)
        /\ \A x \in Objects \ {o} : Owners(x)' = Owners(x)
    BY <1>1, <1>2, <1>4, Shared
  <1>6. ASSUME NEW u \in Threads
        PROVE  CallIsSafe(u)'
    <2>1. CASE u = t
      BY <2>1 DEF CallIsSafe, Idle
    <2>2. CASE u # t
      <3>1. \A k \in Locals : Owners(o) = {k} => Home[k] # u
        BY <1>2, <2>2, MayMeansReaches DEF Reaches
      <3> QED
        BY <2>2, <3>1, <1>5, CallsGoOn, Disjoint DEF IInv, RefTypeOK
    <2> QED
      BY <2>1, <2>2
  <1> QED
    BY <1>1, <1>2, <1>3, <1>5, <1>6, AbstractNext DEF StepIsGood, IInv, CallsAreSafe

LEMMA MoveConstructStep ==
  ASSUME IInv, NEW t \in Threads, NEW l \in Locals, NEW s \in Slots,
         MoveConstruct(t, l, s)
  PROVE  StepIsGood
  <1> DEFINE o == ptr[s]
  <1> USE DEF MoveConstruct
  <1>1. refers[l] = Null /\ l \in References /\ s \in References
    BY OwnLocal, Disjoint DEF Idle
  <1>2. /\ refers[s] = o /\ o \in Objects /\ s \in Owners(o)
        /\ Reaches(t, s) /\ Owning(s)
    BY <1>1, MayMeansReaches, ReachedIsOwning, OwnedIsAlive
  <1>3. RefTypeOK'
    BY <1>2, Disjoint DEF IInv, RefTypeOK
  <1>4. refers' = [refers EXCEPT ![l] = o, ![s] = Null]
    <2>1. refers'[l] = o /\ refers'[s] = Null
      BY <1>2, OwnLocal, Disjoint DEF refers, Owning, Idle, IInv, RefTypeOK
    <2>2. ASSUME NEW q \in References, q # l, q # s
          PROVE  refers'[q] = refers[q]
      BY <2>2, Disjoint DEF refers, Owning, IInv, RefTypeOK
    <2> QED
      BY <2>1, <2>2, RefersIsAFunction
  <1>5. /\ CounterIsOwners' /\ O!Pass(l, s)
        /\ \A x \in Objects \ {o} : Owners(x)' = Owners(x)
    BY <1>1, <1>2, <1>4, Passed
  <1>6. ASSUME NEW u \in Threads
        PROVE  CallIsSafe(u)'
    <2>1. CASE u = t
      BY <2>1 DEF CallIsSafe, Idle
    <2>2. CASE u # t
      <3>1. \A k \in Locals : Owners(o) = {k} => Home[k] # u
        BY <1>2, <2>2 DEF Reaches
      <3> QED
        BY <2>2, <3>1, <1>2, <1>5, CallsGoOn, Disjoint DEF IInv, RefTypeOK, Reaches
    <2> QED
      BY <2>1, <2>2
  <1> QED
    BY <1>1, <1>2, <1>3, <1>5, <1>6, AbstractNext DEF StepIsGood, IInv, CallsAreSafe

(* The first half of every assignment and reset().                         *)
LEMMA BeginStep ==
  ASSUME IInv, NEW t \in Threads, NEW kind \in Kinds, NEW dst \in Slots,
         NEW src \in Slots \union {Null}, Begin(t, kind, dst, src),
         kind \in {"copy", "move"} =>
           /\ src \in Slots /\ src # dst
           /\ src \in Locals => Home[src] = t
           /\ src \in Objects => \E l \in Locals : Home[l] = t /\ l # dst /\ ptr[l] = src,
         kind \in {"reset", "resetTo"} => src = Null,
         kind = "resetTo" => raw[t] # Null
  PROVE  StepIsGood
  <1> DEFINE o == ptr[dst]
  <1> USE DEF Begin
  <1>1. refers[dst] = o /\ dst \in References /\ Owning(dst) /\ Reaches(t, dst)
    BY MayMeansReaches, ReachedIsOwning, Disjoint
  <1>2. /\ call'[t] = [kind |-> kind, dst |-> dst, src |-> src]
        /\ \A u \in Threads \ {t} : call'[u] = call[u]
    BY DEF IInv, RefTypeOK
  <1>3. ASSUME NEW s \in Objects
        PROVE  life'[s] \in {"alive", "members"} <=> life[s] \in {"alive", "members"}
    <2>1. CASE o = Null
      BY <2>1 DEF ReleaseIfAny
    <2>2. CASE o # Null
      <3>1. o \in Objects /\ life[o] = "alive"
        BY <1>1, <2>2, OwnedIsAlive
      <3> QED
        BY <2>2, <3>1 DEF ReleaseIfAny, ReleaseRef, IInv, RefTypeOK
    <2> QED
      BY <2>1, <2>2
  <1>4. \A s \in Slots \ {dst} : Owning(s)' <=> Owning(s)
    BY <1>2, <1>3, Disjoint DEF Owning, Idle
  <1>5. refers' = [refers EXCEPT ![dst] = Null]
    <2>1. refers'[dst] = Null
      BY <1>2, Disjoint DEF refers, Owning
    <2>2. ASSUME NEW q \in References, q # dst
          PROVE  refers'[q] = refers[q]
      BY <2>2, <1>4, Disjoint DEF refers
    <2> QED
      BY <2>1, <2>2, RefersIsAFunction
  <1>6. /\ RefTypeOK' /\ CounterIsOwners' /\ [O!Next]_(O!vars)
        /\ \A x \in Objects \ {o} : Owners(x)' = Owners(x)
    <2>1. CASE o = Null
      <3>1. refers' = refers /\ UNCHANGED <<count, life>>
        BY <2>1, <1>1, <1>5, RefersIsAFunction DEF ReleaseIfAny
      <3>2. RefTypeOK'
        BY <2>1 DEF IInv, RefTypeOK, ReleaseIfAny
      <3> QED
        BY <2>1, <3>1, <3>2, Kept, Disjoint
    <2>2. CASE o # Null
      <3>1. /\ o \in Objects /\ life[o] = "alive" /\ dst \in Owners(o)
            /\ count[o] \in Nat \ {0}
        BY <1>1, <2>2, OwnedIsAlive, OwnedIsCounted
      <3>2. RefTypeOK'
        BY <2>2, <3>1 DEF IInv, RefTypeOK, ReleaseIfAny, ReleaseRef
      <3>3. /\ count' = [count EXCEPT ![o] = @ - 1]
            /\ \A x \in Objects : life'[x] = "alive" <=>
                                  life[x] = "alive" /\ ~(x = o /\ count[o] = 1)
        BY <2>2, <3>1 DEF IInv, RefTypeOK, ReleaseIfAny, ReleaseRef
      <3>4. /\ CounterIsOwners' /\ O!Drop(dst)
            /\ \A x \in Objects \ {o} : Owners(x)' = Owners(x)
        BY <1>1, <1>5, <3>1, <3>3, Dropped
      <3> QED
        BY <1>1, <3>1, <3>2, <3>4, AbstractNext
    <2> QED
      BY <2>1, <2>2
  <1>7. CallIsSafe(t)'
    <2>1. ASSUME dst \in Objects
          PROVE  \E l \in Locals : Home[l] = t /\ l # dst /\ Owners(dst)' = {l}
      <3>1. PICK l \in Locals : Home[l] = t /\ Owners(dst) = {l}
        BY <2>1, MemberIsItsOwn
      <3>2. l # dst /\ dst # o
        BY <1>1, <2>1, <3>1, Disjoint DEF Owners
      <3> QED
        BY <2>1, <1>6, <3>1, <3>2
    <2> QED
      BY <1>1, <1>2, <2>1 DEF CallIsSafe, Reaches
  <1>8. ASSUME NEW u \in Threads, u # t
        PROVE  CallIsSafe(u)'
    <2>1. \A k \in Locals : Owners(o) = {k} => Home[k] # u
      <3>1. ASSUME NEW k \in Locals, Owners(o) = {k}
            PROVE  k = dst
        <4>1. o # Null => dst \in Owners(o)
          BY <1>1, OwnedIsAlive
        <4>2. o = Null => refers[dst] = o
          BY <1>1
        <4> QED
          BY <1>1, <3>1, <4>1, <4>2 DEF Owners
      <3> QED
        BY <3>1, <1>1, <1>8 DEF Reaches
    <2> QED
      BY <1>2, <1>6, <1>8, <2>1, CallsGoOn
  <1> QED
    BY <1>6, <1>7, <1>8 DEF StepIsGood, IInv, CallsAreSafe

LEMMA BeginSteps ==
  ASSUME IInv, NEW t \in Threads, NEW d \in Slots, NEW s \in Slots,
         \/ BeginAssignConst(t, d, s) \/ BeginAssignRvalue(t, d, s)
         \/ BeginReset(t, d) \/ BeginResetTo(t, d)
  PROVE  StepIsGood
  <1>1. CASE BeginAssignConst(t, d, s) \/ BeginAssignRvalue(t, d, s)
    <2>1. /\ d # s /\ s \in Locals => Home[s] = t
          /\ s \in Objects => \E l \in Locals : Home[l] = t /\ l # d /\ ptr[l] = s
      BY <1>1, Disjoint DEF BeginAssignConst, BeginAssignRvalue, MayRead, Holders
    <2> QED
      BY <1>1, <2>1, BeginStep DEF BeginAssignConst, BeginAssignRvalue, Kinds
  <1>2. CASE BeginReset(t, d) \/ BeginResetTo(t, d)
    BY <1>2, BeginStep DEF BeginReset, BeginResetTo, Kinds
  <1> QED
    BY <1>1, <1>2

(* The calls that t has begun, and what it does in their second half.      *)
LEMMA InACall ==
  ASSUME IInv, NEW t \in Threads, call[t].kind # "none"
  PROVE  /\ call[t] # NoCall /\ call[t].dst \in Slots /\ refers[call[t].dst] = Null
         /\ call[t].src \in Slots \union {Null} /\ CallIsSafe(t)
         /\ call[t].dst \in Locals => Home[call[t].dst] = t
         /\ call[t].dst \in Objects => life[call[t].dst] = "alive"
         /\ \A u \in Threads \ {t} : call[u].dst # call[t].dst
  <1> DEFINE dst == call[t].dst
  <1>1. call[t] # NoCall /\ CallIsSafe(t)
    BY Disjoint DEF IInv, CallsAreSafe
  <1>2. dst \in Slots /\ call[t].src \in Slots \union {Null}
    BY <1>1 DEF IInv, RefTypeOK
  <1>3. refers[dst] = Null
    BY <1>2, RefersAt DEF Owning
  <1>4. dst \in Locals => Home[dst] = t
    BY <1>1 DEF CallIsSafe
  <1>5. ASSUME dst \in Objects
        PROVE  life[dst] = "alive"
    BY <1>1, <1>5 DEF CallIsSafe, IInv, CounterIsOwners
  <1>6. ASSUME NEW u \in Threads \ {t}, call[u].dst = dst
        PROVE  FALSE
    <2>1. CallIsSafe(u) /\ call[u] # NoCall
      BY <1>2, <1>6, Disjoint DEF IInv, CallsAreSafe
    <2>2. CASE dst \in Locals
      BY <1>4, <1>6, <2>1, <2>2 DEF CallIsSafe
    <2>3. CASE dst \in Objects
      <3>1. PICK l \in Locals : Home[l] = t /\ Owners(dst) = {l}
        BY <1>1, <2>3 DEF CallIsSafe
      <3>2. PICK k \in Locals : Home[k] = u /\ Owners(dst) = {k}
        BY <1>6, <2>1, <2>3 DEF CallIsSafe
      <3> QED
        BY <1>6, <3>1, <3>2
    <2> QED
      BY <1>2, <2>2, <2>3, Disjoint
  <1> QED
    BY <1>1, <1>2, <1>3, <1>4, <1>5, <1>6

LEMMA SourceIsReached ==
  ASSUME IInv, NEW t \in Threads, call[t].kind \in {"copy", "move"}
  PROVE  call[t].src \in Slots /\ Reaches(t, call[t].src)
  BY InACall DEF CallIsSafe, Reaches

(* When t returns, its Ptr is owning again.                                *)
LEMMA Returned ==
  ASSUME IInv, NEW t \in Threads, call[t].kind # "none", EndCall(t), UNCHANGED life
  PROVE  /\ CallIsSafe(t)'
         /\ \A u \in Threads \ {t} : call'[u] = call[u]
         /\ \A s \in Slots : Owning(s)' <=> s = call[t].dst \/ Owning(s)
  <1>1. call'[t] = NoCall /\ \A u \in Threads \ {t} : call'[u] = call[u]
    BY DEF EndCall, IInv, RefTypeOK
  <1>2. CallIsSafe(t)'
    BY <1>1 DEF CallIsSafe
  <1>3. ASSUME NEW s \in Slots, s = call[t].dst
        PROVE  Owning(s)'
    <2>1. \A u \in Threads : call'[u].dst # s
      BY <1>1, <1>3, InACall, Disjoint
    <2>2. s \in Objects => life'[s] = "alive"
      BY <1>3, InACall
    <2> QED
      BY <2>1, <2>2 DEF Owning
  <1>4. ASSUME NEW s \in Slots, s # call[t].dst
        PROVE  Owning(s)' <=> Owning(s)
    BY <1>1, <1>4, Disjoint DEF Owning
  <1> QED
    BY <1>1, <1>2, <1>3, <1>4

LEMMA AssignConstStep ==
  ASSUME IInv, NEW t \in Threads, AssignConst(t)
  PROVE  StepIsGood
  <1> DEFINE dst == call[t].dst
  <1> DEFINE src == call[t].src
  <1> DEFINE o == ptr[src]
  <1> USE DEF AssignConst
  <1>1. /\ dst \in Slots /\ refers[dst] = Null /\ dst \in References
        /\ dst \in Locals => Home[dst] = t
    BY InACall, Disjoint
  <1>2. /\ src \in Slots /\ src \in References /\ refers[src] = o /\ src # dst
        /\ src \in Locals => Home[src] = t
    BY SourceIsReached, ReachedIsOwning, Disjoint DEF Reaches
  <1>3. o # Null => o \in Objects /\ life[o] = "alive" /\ src \in Owners(o)
    BY <1>2, OwnedIsAlive
  <1>4. RefTypeOK'
    BY <1>1, <1>3 DEF IInv, RefTypeOK, EndCall, AddRef
  <1>5. refers' = [refers EXCEPT ![dst] = o]
    <2>1. refers'[dst] = o
      BY <1>1, Returned, RefersNext DEF IInv, RefTypeOK
    <2>2. ASSUME NEW q \in References, q # dst
          PROVE  refers'[q] = refers[q]
      BY <2>2, <1>1, Returned, Disjoint DEF refers, IInv, RefTypeOK
    <2> QED
      BY <2>1, <2>2, RefersIsAFunction
  <1>6. /\ CounterIsOwners' /\ [O!Next]_(O!vars)
        /\ \A x \in Objects \ {o} : Owners(x)' = Owners(x)
    <2>1. CASE o = Null
      <3>1. refers' = refers
        BY <2>1, <1>1, <1>5, RefersIsAFunction
      <3> QED
        BY <2>1, <3>1, Kept, Disjoint
    <2>2. CASE o # Null
      BY <2>2, <1>1, <1>3, <1>5, Shared, AbstractNext DEF AddRef
    <2> QED
      BY <2>1, <2>2
  <1>7. ASSUME NEW u \in Threads, u # t
        PROVE  CallIsSafe(u)'
    <2>1. \A k \in Locals : Owners(o) = {k} => Home[k] # u
      BY <1>2, <1>3, <1>7 DEF Owners
    <2>2. \A k \in Locals : Home[k] = u => ptr'[k] = ptr[k]
      BY <1>1, <1>7, Disjoint DEF IInv, RefTypeOK
    <2> QED
      BY <1>6, <1>7, <2>1, <2>2, Returned, CallsGoOn
  <1> QED
    BY <1>4, <1>6, <1>7, Returned DEF StepIsGood, IInv, CallsAreSafe

LEMMA AssignRvalueStep ==
  ASSUME IInv, NEW t \in Threads, AssignRvalue(t)
  PROVE  StepIsGood
  <1> DEFINE dst == call[t].dst
  <1> DEFINE src == call[t].src
  <1> DEFINE o == ptr[src]
  <1> USE DEF AssignRvalue
  <1>1. /\ dst \in Slots /\ refers[dst] = Null /\ dst \in References
        /\ dst \in Locals => Home[dst] = t
    BY InACall, Disjoint
  <1>2. /\ src \in Slots /\ src \in References /\ refers[src] = o /\ src # dst
        /\ src \in Locals => Home[src] = t
    BY SourceIsReached, ReachedIsOwning, Disjoint DEF Reaches
  <1>3. o # Null => o \in Objects /\ life[o] = "alive" /\ src \in Owners(o)
    BY <1>2, OwnedIsAlive
  <1>4. RefTypeOK'
    BY <1>1, <1>2 DEF IInv, RefTypeOK, EndCall
  <1>5. refers' = [refers EXCEPT ![dst] = o, ![src] = Null]
    <2>1. refers'[dst] = o /\ refers'[src] = Null
      BY <1>1, <1>2, Returned, RefersNext DEF IInv, RefTypeOK
    <2>2. ASSUME NEW q \in References, q # dst, q # src
          PROVE  refers'[q] = refers[q]
      BY <2>2, <1>1, Returned, Disjoint DEF refers, IInv, RefTypeOK
    <2> QED
      BY <2>1, <2>2, RefersIsAFunction
  <1>6. /\ CounterIsOwners' /\ [O!Next]_(O!vars)
        /\ \A x \in Objects \ {o} : Owners(x)' = Owners(x)
    <2>1. CASE o = Null
      <3>1. refers' = refers
        BY <2>1, <1>1, <1>2, <1>5, RefersIsAFunction
      <3> QED
        BY <2>1, <3>1, Kept, Disjoint
    <2>2. CASE o # Null
      BY <2>2, <1>1, <1>2, <1>3, <1>5, Passed, AbstractNext
    <2> QED
      BY <2>1, <2>2
  <1>7. ASSUME NEW u \in Threads, u # t
        PROVE  CallIsSafe(u)'
    <2>1. \A k \in Locals : Owners(o) = {k} => Home[k] # u
      BY <1>2, <1>3, <1>7 DEF Owners
    <2>2. \A k \in Locals : Home[k] = u => ptr'[k] = ptr[k]
      BY <1>1, <1>2, <1>7, Disjoint DEF IInv, RefTypeOK
    <2> QED
      BY <1>6, <1>7, <2>1, <2>2, Returned, CallsGoOn
  <1> QED
    BY <1>4, <1>6, <1>7, Returned DEF StepIsGood, IInv, CallsAreSafe

LEMMA ResetStep ==
  ASSUME IInv, NEW t \in Threads, Reset(t)
  PROVE  StepIsGood
  <1> DEFINE dst == call[t].dst
  <1> USE DEF Reset
  <1>1. /\ dst \in Slots /\ refers[dst] = Null
        /\ dst \in Locals => Home[dst] = t
    BY InACall
  <1>2. RefTypeOK'
    BY <1>1 DEF IInv, RefTypeOK, EndCall
  <1>3. refers' = refers
    <2>1. refers'[dst] = Null
      BY <1>1, Returned, RefersNext DEF IInv, RefTypeOK
    <2>2. ASSUME NEW q \in References, q # dst
          PROVE  refers'[q] = refers[q]
      BY <2>2, <1>1, Returned, Disjoint DEF refers, IInv, RefTypeOK
    <2> QED
      BY <1>1, <2>1, <2>2, RefersIsAFunction
  <1>4. /\ CounterIsOwners' /\ UNCHANGED O!vars
        /\ \A x \in Objects : Owners(x)' = Owners(x)
    BY <1>3, Kept
  <1>5. ASSUME NEW u \in Threads, u # t
        PROVE  CallIsSafe(u)'
    <2>1. \A k \in Locals : Home[k] = u => ptr'[k] = ptr[k]
      BY <1>1, <1>5, Disjoint DEF IInv, RefTypeOK
    <2>2. call'[u] = call[u] /\ raw'[u] = raw[u]
      BY <1>5, Returned
    <2> QED
      BY <1>4, <2>1, <2>2, CallStays
  <1> QED
    BY <1>2, <1>4, <1>5, Returned DEF StepIsGood, IInv, CallsAreSafe

LEMMA ResetToStep ==
  ASSUME IInv, NEW t \in Threads, ResetTo(t)
  PROVE  StepIsGood
  <1> DEFINE dst == call[t].dst
  <1> DEFINE o == raw[t]
  <1> USE DEF ResetTo
  <1>1. /\ dst \in Slots /\ refers[dst] = Null /\ dst \in References
        /\ dst \in Locals => Home[dst] = t
    BY InACall, Disjoint
  <1>2. t \in References /\ refers[t] = o /\ t # dst /\ o # Null
    BY <1>1, InACall, RefersAt, Disjoint DEF CallIsSafe
  <1>3. o \in Objects /\ t \in Owners(o)
    BY <1>2, OwnedIsAlive
  <1>4. RefTypeOK'
    BY <1>1, <1>3 DEF IInv, RefTypeOK, EndCall
  <1>5. refers' = [refers EXCEPT ![dst] = o, ![t] = Null]
    <2>1. refers'[dst] = o /\ refers'[t] = Null
      BY <1>1, Returned, RefersNext DEF IInv, RefTypeOK
    <2>2. ASSUME NEW q \in References, q # dst, q # t
          PROVE  refers'[q] = refers[q]
      BY <2>2, <1>1, Returned, Disjoint DEF refers, IInv, RefTypeOK
    <2> QED
      BY <2>1, <2>2, RefersIsAFunction
  <1>6. /\ CounterIsOwners' /\ O!Pass(dst, t)
        /\ \A x \in Objects \ {o} : Owners(x)' = Owners(x)
    BY <1>1, <1>2, <1>3, <1>5, Passed
  <1>7. ASSUME NEW u \in Threads, u # t
        PROVE  CallIsSafe(u)'
    <2>1. \A k \in Locals : Owners(o) = {k} => Home[k] # u
      BY <1>3, Disjoint
    <2>2. \A k \in Locals : Home[k] = u => ptr'[k] = ptr[k]
      BY <1>1, <1>7, Disjoint DEF IInv, RefTypeOK
    <2>3. raw'[u] = raw[u]
      BY <1>7 DEF IInv, RefTypeOK
    <2> QED
      BY <1>6, <1>7, <2>1, <2>2, <2>3, Returned, CallsGoOn
  <1> QED
    BY <1>1, <1>2, <1>3, <1>4, <1>6, <1>7, Returned, AbstractNext
    DEF StepIsGood, IInv, CallsAreSafe

(* The references that have no Ptr.                                        *)
LEMMA RawSteps ==
  ASSUME IInv, NEW t \in Threads, NEW s \in Slots,
         ReleasePtr(t, s) \/ QueryInterface(t, s)
  PROVE  StepIsGood
  <1> DEFINE o == ptr[s]
  <1>1. /\ Reaches(t, s) /\ refers[s] = o /\ Owning(s) /\ o # Null
        /\ s \in References /\ t \in References /\ Idle(t) /\ raw[t] = Null
    BY MayMeansReaches, ReachedIsOwning, Disjoint DEF ReleasePtr, QueryInterface
  <1>2. o \in Objects /\ life[o] = "alive" /\ s \in Owners(o) /\ refers[t] = Null
    BY <1>1, OwnedIsAlive, RefersAt
  <1>3. RefTypeOK' /\ UNCHANGED <<call, life>> /\ raw' = [raw EXCEPT ![t] = o]
    BY <1>1, <1>2, Disjoint DEF ReleasePtr, QueryInterface, AddRef, IInv, RefTypeOK
  <1>4. \A k \in Slots : Owning(k)' <=> Owning(k)
    BY <1>3 DEF Owning
  <1>5. /\ CounterIsOwners' /\ O!Next
        /\ \A x \in Objects \ {o} : Owners(x)' = Owners(x)
    <2>1. CASE ReleasePtr(t, s)
      <3>1. refers' = [refers EXCEPT ![t] = o, ![s] = Null]
        <4>1. refers'[t] = o /\ refers'[s] = Null
          BY <2>1, <1>3, RefersNext DEF ReleasePtr, IInv, RefTypeOK
        <4>2. ASSUME NEW q \in References, q # t, q # s
              PROVE  refers'[q] = refers[q]
          BY <4>2, <2>1, <1>3, <1>4, Disjoint DEF refers, ReleasePtr, IInv, RefTypeOK
        <4> QED
          BY <4>1, <4>2, RefersIsAFunction
      <3> QED
        BY <2>1, <3>1, <1>1, <1>2, Passed, AbstractNext DEF ReleasePtr
    <2>2. CASE QueryInterface(t, s)
      <3>1. refers' = [refers EXCEPT ![t] = o]
        <4>1. refers'[t] = o
          BY <1>3, RefersNext DEF IInv, RefTypeOK
        <4>2. ASSUME NEW q \in References, q # t
              PROVE  refers'[q] = refers[q]
          BY <4>2, <2>2, <1>3, <1>4, Disjoint DEF refers, QueryInterface, IInv, RefTypeOK
        <4> QED
          BY <4>1, <4>2, RefersIsAFunction
      <3> QED
        BY <2>2, <3>1, <1>1, <1>2, Shared, AbstractNext DEF QueryInterface, AddRef
    <2> QED
      BY <2>1, <2>2
  <1>6. ASSUME NEW u \in Threads
        PROVE  CallIsSafe(u)'
    <2>1. CASE u = t
      BY <2>1, <1>1, <1>3 DEF CallIsSafe, Idle
    <2>2. CASE u # t
      <3>1. \A k \in Locals : Owners(o) = {k} => Home[k] # u
        BY <1>1, <1>2, <2>2 DEF Reaches
      <3>2. \A k \in Locals : Home[k] = u => ptr'[k] = ptr[k]
        BY <1>1, <2>2, Disjoint DEF IInv, RefTypeOK, Reaches, ReleasePtr, QueryInterface
      <3>3. raw'[u] = raw[u] /\ call'[u] = call[u]
        BY <1>3, <2>2 DEF IInv, RefTypeOK
      <3> QED
        BY <1>5, <3>1, <3>2, <3>3, CallsGoOn
    <2> QED
      BY <2>1, <2>2
  <1> QED
    BY <1>3, <1>5, <1>6 DEF StepIsGood, IInv, CallsAreSafe

LEMMA ReleaseRawStep ==
  ASSUME IInv, NEW t \in Threads, ReleaseRaw(t)
  PROVE  StepIsGood
  <1> DEFINE o == raw[t]
  <1> USE DEF ReleaseRaw, ReleaseRef
  <1>1. t \in References /\ refers[t] = o /\ o # Null
    BY RefersAt, Disjoint
  <1>2. /\ o \in Objects /\ life[o] = "alive" /\ t \in Owners(o)
        /\ count[o] \in Nat \ {0}
    BY <1>1, OwnedIsAlive, OwnedIsCounted
  <1>3. RefTypeOK' /\ raw' = [raw EXCEPT ![t] = Null]
    BY <1>2 DEF IInv, RefTypeOK
  <1>4. /\ \A s \in Slots : Owning(s)' <=> Owning(s)
        /\ \A x \in Objects : life'[x] = "alive" <=>
                                life[x] = "alive" /\ ~(x = o /\ count[o] = 1)
    BY <1>2 DEF Owning, IInv, RefTypeOK
  <1>5. refers' = [refers EXCEPT ![t] = Null]
    <2>1. refers'[t] = Null
      BY <1>3, RefersNext DEF IInv, RefTypeOK
    <2>2. ASSUME NEW q \in References, q # t
          PROVE  refers'[q] = refers[q]
      BY <2>2, <1>3, <1>4, Disjoint DEF refers, IInv, RefTypeOK
    <2> QED
      BY <2>1, <2>2, RefersIsAFunction
  <1>6. /\ CounterIsOwners' /\ O!Drop(t)
        /\ \A x \in Objects \ {o} : Owners(x)' = Owners(x)
    BY <1>1, <1>2, <1>4, <1>5, Dropped
  <1>7. ASSUME NEW u \in Threads
        PROVE  CallIsSafe(u)'
    <2>1. CASE u = t
      BY <2>1 DEF CallIsSafe, Idle
    <2>2. CASE u # t
      <3>1. \A k \in Locals : Owners(o) = {k} => Home[k] # u
        BY <1>2, Disjoint
      <3>2. raw'[u] = raw[u]
        BY <1>3, <2>2 DEF IInv, RefTypeOK
      <3> QED
        BY <1>6, <3>1, <3>2, CallsGoOn
    <2> QED
      BY <2>1, <2>2
  <1> QED
    BY <1>1, <1>2, <1>3, <1>6, <1>7, AbstractNext DEF StepIsGood, IInv, CallsAreSafe

LEMMA HandOverStep ==
  ASSUME IInv, NEW t \in Threads, NEW u \in Threads, HandOver(t, u)
  PROVE  StepIsGood
  <1> DEFINE o == raw[t]
  <1> USE DEF HandOver
  <1>1. /\ t \in References /\ u \in References /\ refers[t] = o /\ o # Null
        /\ refers[u] = Null /\ t # u
    BY RefersAt, Disjoint
  <1>2. o \in Objects /\ t \in Owners(o)
    BY <1>1, OwnedIsAlive
  <1>3. RefTypeOK' /\ raw' = [raw EXCEPT ![u] = o, ![t] = Null]
    BY <1>2 DEF IInv, RefTypeOK
  <1>4. refers' = [refers EXCEPT ![u] = o, ![t] = Null]
    <2>1. refers'[u] = o /\ refers'[t] = Null
      BY <1>1, <1>3, RefersNext DEF IInv, RefTypeOK
    <2>2. ASSUME NEW q \in References, q # t, q # u
          PROVE  refers'[q] = refers[q]
      BY <2>2, <1>3, Disjoint DEF refers, Owning, IInv, RefTypeOK
    <2> QED
      BY <2>1, <2>2, RefersIsAFunction
  <1>5. /\ CounterIsOwners' /\ O!Pass(u, t)
        /\ \A x \in Objects \ {o} : Owners(x)' = Owners(x)
    BY <1>1, <1>2, <1>4, Passed
  <1>6. ASSUME NEW v \in Threads
        PROVE  CallIsSafe(v)'
    <2>1. CASE v = t \/ v = u
      BY <2>1 DEF CallIsSafe, Idle
    <2>2. CASE v # t /\ v # u
      <3>1. \A k \in Locals : Owners(o) = {k} => Home[k] # v
        BY <1>2, Disjoint
      <3>2. raw'[v] = raw[v]
        BY <1>3, <2>2 DEF IInv, RefTypeOK
      <3> QED
        BY <1>5, <3>1, <3>2, CallsGoOn
    <2> QED
      BY <2>1, <2>2
  <1> QED
    BY <1>1, <1>2, <1>3, <1>5, <1>6, AbstractNext DEF StepIsGood, IInv, CallsAreSafe

(* An object in its destructor is not being written to by anybody.         *)
LEMMA DestroyMemberStep ==
  ASSUME IInv, NEW t \in Threads, DestroyMember(t)
  PROVE  StepIsGood
  <1> DEFINE o == top[t]
  <1> DEFINE p == ptr[o]
  <1> USE DEF DestroyMember
  <1>1. o \in Objects /\ o \in References /\ life[o] = "members"
    BY Disjoint DEF IInv, RefTypeOK
  <1>2. \A u \in Threads : call[u].dst # o
    <2>1. ASSUME NEW u \in Threads, call[u].dst = o
          PROVE  FALSE
      BY <1>1, <2>1, InACall, Disjoint DEF IInv, CallsAreSafe, RefTypeOK, Kinds, NoCall
    <2> QED
      BY <2>1
  <1>3. refers[o] = p
    BY <1>1, <1>2, RefersAt, Disjoint DEF Owning
  <1>4. p # Null => /\ p \in Objects /\ life[p] = "alive" /\ o \in Owners(p)
                    /\ count[p] \in Nat \ {0}
    BY <1>1, <1>3, OwnedIsAlive, OwnedIsCounted
  <1>5. RefTypeOK'
    BY <1>1, <1>4 DEF IInv, RefTypeOK
  <1>6. /\ life'[o] = "base"
        /\ \A x \in Objects \ {o} : life'[x] \in {"alive", "members"} <=>
                                     life[x] \in {"alive", "members"}
        /\ \A x \in Objects : life'[x] = "alive" <=>
             life[x] = "alive" /\ ~(p # Null /\ x = p /\ count[p] = 1)
    BY <1>1, <1>4 DEF IInv, RefTypeOK
  <1>7. refers' = [refers EXCEPT ![o] = Null]
    <2>1. refers'[o] = Null
      BY <1>1, <1>6, RefersNext, Disjoint DEF Owning
    <2>2. ASSUME NEW q \in References, q # o
          PROVE  refers'[q] = refers[q]
      BY <2>2, <1>6, Disjoint DEF refers, Owning
    <2> QED
      BY <2>1, <2>2, RefersIsAFunction
  <1>8. /\ CounterIsOwners' /\ [O!Next]_(O!vars)
        /\ \A x \in Objects \ {p} : Owners(x)' = Owners(x)
    <2>1. CASE p = Null
      <3>1. refers' = refers /\ count' = count
        BY <2>1, <1>3, <1>7, RefersIsAFunction
      <3> QED
        BY <2>1, <3>1, <1>6, Kept, Disjoint
    <2>2. CASE p # Null
      <3>1. count' = [count EXCEPT ![p] = @ - 1]
        BY <2>2, <1>4 DEF IInv, RefTypeOK
      <3> QED
        BY <2>2, <3>1, <1>1, <1>3, <1>4, <1>6, <1>7, Dropped, AbstractNext
    <2> QED
      BY <2>1, <2>2
  <1>9. ASSUME NEW u \in Threads
        PROVE  CallIsSafe(u)'
    <2>1. \A x \in Objects : x = call[u].dst => Owners(x)' = Owners(x)
      <3>1. ASSUME NEW x \in Objects, x = call[u].dst, x = p
            PROVE  FALSE
        <4>1. CallIsSafe(u) /\ call[u] # NoCall
          BY <3>1, Disjoint DEF IInv, CallsAreSafe
        <4>2. PICK l \in Locals : Owners(x) = {l}
          BY <3>1, <4>1 DEF CallIsSafe
        <4> QED
          BY <1>1, <1>4, <3>1, <4>2, Disjoint
      <3> QED
        BY <3>1, <1>8
    <2> QED
      BY <2>1, CallStays
  <1> QED
    BY <1>5, <1>8, <1>9 DEF StepIsGood, IInv, CallsAreSafe

LEMMA DeallocateStep ==
  ASSUME IInv, NEW t \in Threads, Deallocate(t)
  PROVE  StepIsGood
  <1> DEFINE o == top[t]
  <1> USE DEF Deallocate
  <1>1. o \in Objects /\ life[o] = "base"
    BY DEF IInv, RefTypeOK
  <1>2. RefTypeOK'
    BY <1>1 DEF IInv, RefTypeOK
  <1>3. /\ \A s \in Slots : Owning(s)' <=> Owning(s)
        /\ \A x \in Objects : life'[x] = "alive" <=> life[x] = "alive"
    BY <1>1 DEF Owning, IInv, RefTypeOK
  <1>4. refers' = refers
    BY <1>3, Disjoint DEF refers
  <1>5. /\ CounterIsOwners' /\ UNCHANGED O!vars
        /\ \A x \in Objects : Owners(x)' = Owners(x)
    BY <1>3, <1>4, Kept
  <1>6. \A u \in Threads : CallIsSafe(u)'
    BY <1>5, CallStays
  <1> QED
    BY <1>2, <1>5, <1>6 DEF StepIsGood, IInv, CallsAreSafe

----------------------------------------------------------------------------
LEMMA Initially == RefInit => IInv /\ O!Init
  <1> SUFFICES ASSUME RefInit PROVE IInv /\ O!Init
    OBVIOUS
  <1>1. RefTypeOK
    BY Disjoint DEF RefInit, RefTypeOK
  <1>2. \A r \in References : refers[r] = Null
    BY RefersAt, Disjoint DEF RefInit
  <1>3. CounterIsOwners
    BY <1>2, Disjoint DEF RefInit, CounterIsOwners, Owners
  <1>4. CallsAreSafe
    BY DEF RefInit, CallsAreSafe, CallIsSafe
  <1>5. O!Init
    BY <1>2, RefersIsAFunction DEF O!Init, RefInit
  <1> QED
    BY <1>1, <1>3, <1>4, <1>5 DEF IInv

LEMMA Step == IInv /\ [RefNext]_refVars => StepIsGood
  <1> SUFFICES ASSUME IInv, [RefNext]_refVars PROVE StepIsGood
    OBVIOUS
  <1>1. CASE UNCHANGED refVars
    <2>1. refers' = refers
      BY <1>1 DEF refVars, refers, Owning
    <2>2. CounterIsOwners' /\ UNCHANGED O!vars
          /\ \A x \in Objects : Owners(x)' = Owners(x)
      BY <1>1, <2>1, Kept DEF refVars
    <2>3. \A u \in Threads : CallIsSafe(u)'
      BY <1>1, <2>2, CallStays DEF refVars
    <2>4. RefTypeOK'
      BY <1>1 DEF IInv, RefTypeOK, refVars
    <2> QED
      BY <2>2, <2>3, <2>4 DEF StepIsGood, IInv, CallsAreSafe
  <1>2. ASSUME NEW t \in Threads, ThreadStep(t)
        PROVE  StepIsGood
    BY <1>2, MakePtrStep, CopyConstructStep, MoveConstructStep, BeginSteps,
       RawSteps, ReleaseRawStep, HandOverStep
    DEF ThreadStep
  <1>3. ASSUME NEW t \in Threads, GoOn(t)
        PROVE  StepIsGood
    BY <1>3, AssignConstStep, AssignRvalueStep, ResetStep, ResetToStep,
       DestroyMemberStep, DeallocateStep
    DEF GoOn
  <1> QED
    BY <1>1, <1>2, <1>3 DEF RefNext

(* For any number of threads, objects and pointers: the counter of every   *)
(* object is the number of its owners, and calls find what they left.      *)
THEOREM Invariance == RefSpec => []IInv
  <1>1. IInv /\ [RefNext]_refVars => IInv'
    BY Step DEF StepIsGood
  <1> QED
    BY <1>1, Initially, PTL DEF RefSpec

(* Every variable keeps its type; no counter falls below zero.             *)
THEOREM TypesAreKept == RefSpec => []RefTypeOK
  BY Invariance, PTL DEF IInv

(* The counter of a living object is the number of its owners.             *)
THEOREM CountersAreRight == RefSpec => []CounterIsOwners
  BY Invariance, PTL DEF IInv

(* An assignment reads and writes members of living objects only, although *)
(* a destructor may run in the middle of it.                               *)
THEOREM AssignmentIsSafe == RefSpec => []NoUseAfterDelete
  <1>1. IInv => NoUseAfterDelete
    <2> SUFFICES ASSUME IInv, NEW t \in Threads,
                        NEW s \in {call[t].dst, call[t].src} \intersect Objects
                 PROVE  life[s] = "alive"
      BY DEF NoUseAfterDelete
    <2>1. call[t].kind # "none"
      BY Disjoint DEF IInv, RefTypeOK, Kinds, NoCall
    <2>2. CASE s = call[t].dst
      BY <2>1, <2>2, InACall
    <2>3. CASE s = call[t].src /\ call[t].kind \in {"copy", "move"}
      BY <2>3, SourceIsReached, ReachedIsOwning
    <2>4. CASE s = call[t].src /\ call[t].kind \in {"reset", "resetTo"}
      BY <2>1, <2>4, InACall, Disjoint DEF CallIsSafe
    <2>5. call[t].kind \in Kinds
      BY <2>1, Disjoint DEF IInv, RefTypeOK
    <2> QED
      BY <2>2, <2>3, <2>4, <2>5 DEF Kinds
  <1> QED
    BY <1>1, Invariance, PTL

(* Reference counting implements ownership: an object lives exactly as     *)
(* long as there is a reference to it.                                     *)
THEOREM CountingImplementsOwnership == RefSpec => ImplementsOwnership
  <1>1. IInv /\ [RefNext]_refVars => [O!Next]_(O!vars)
    BY Step DEF StepIsGood
  <1>2. RefInit => O!Init
    BY Initially
  <1> QED
    BY <1>1, <1>2, Invariance, PTL DEF RefSpec, ImplementsOwnership, O!Spec

=============================================================================
