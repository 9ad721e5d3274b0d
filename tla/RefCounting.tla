----------------------------- MODULE RefCounting -----------------------------
(***************************************************************************)
(* The reference counting of the SDK: RefCountableHolder and RefCountable  *)
(* (src/nx/sdk/helpers/ref_countable.h), Ptr (src/nx/sdk/ptr.h) and        *)
(* queryInterface() (src/nx/sdk/i_ref_countable.h), in several threads.    *)
(*                                                                         *)
(* The counter is atomic; everything else in between is not.  A Ptr is a   *)
(* local of one thread or a member of an object.  Every object has one     *)
(* member, named like the object itself: ptr[o] is the member of o.  The   *)
(* client code keeps the rules that the SDK's own classes keep: a thread   *)
(* uses its own locals and the objects they own, and writes the member of  *)
(* an object only before it shares the object.                             *)
(***************************************************************************)
EXTENDS Integers, FiniteSets

CONSTANTS
  Threads,
  Objects,      (* The addresses of objects; they are reused.              *)
  Locals,       (* Variables of type Ptr.                                  *)
  Home,         (* The thread of each local.                               *)
  Null

ASSUME RefAssumption ==
  /\ IsFiniteSet(Threads) /\ IsFiniteSet(Objects) /\ IsFiniteSet(Locals)
  /\ Threads \intersect Objects = {} /\ Threads \intersect Locals = {}
  /\ Objects \intersect Locals = {}
  /\ Null \notin Threads \union Objects \union Locals
  /\ Home \in [Locals -> Threads]

Slots == Locals \union Objects

VARIABLES
  count,        (* m_refCount of each object.                              *)
  life,         (* "alive"; in its destructor, before or after the         *)
                (* "members" are destroyed ("base"); or "free" memory.     *)
  ptr,          (* m_ptr of each Ptr.                                      *)
  raw,          (* The object each thread owns a reference to without a    *)
                (* Ptr, between two calls: a result of releasePtr() or of  *)
                (* the virtual queryInterface().                           *)
  call,         (* The assignment or reset() each thread is in.            *)
  top,          (* The object whose destructor each thread runs, or Null.  *)
  outer         (* The object whose destructor destroys this one, or Null. *)

refVars == <<count, life, ptr, raw, call, top, outer>>

Kinds == {"copy", "move", "reset", "resetTo"}
NoCall == [kind |-> "none", dst |-> Null, src |-> Null]

RefTypeOK ==
  /\ count \in [Objects -> Nat]
  /\ life \in [Objects -> {"free", "alive", "members", "base"}]
  /\ ptr \in [Slots -> Objects \union {Null}]
  /\ raw \in [Threads -> Objects \union {Null}]
  /\ call \in [Threads -> [kind : Kinds, dst : Slots, src : Slots \union {Null}]
                          \union {NoCall}]
  /\ top \in [Threads -> Objects \union {Null}]
  /\ outer \in [Objects -> Objects \union {Null}]

RefInit ==
  /\ count = [o \in Objects |-> 0]
  /\ life = [o \in Objects |-> "free"]
  /\ ptr = [s \in Slots |-> Null]
  /\ raw = [t \in Threads |-> Null]
  /\ call = [t \in Threads |-> NoCall]
  /\ top = [t \in Threads |-> Null]
  /\ outer = [o \in Objects |-> Null]

----------------------------------------------------------------------------
(* The client's rules. *)

Idle(t) == call[t] = NoCall /\ top[t] = Null

(* The locals of t that own o; a thread reaches o through one of them.     *)
Holders(t, o) == {l \in Locals : Home[l] = t /\ ptr[l] = o}

(* A Ptr that t may write: a local of its own, or the member of an object  *)
(* that it alone owns.                                                     *)
MayWrite(t, s) ==
  \/ s \in Locals /\ Home[s] = t
  \/ s \in Objects /\ Holders(t, s) # {} /\ count[s] = 1

(* A Ptr that t may read while it assigns to dst: if it is a member of an  *)
(* object, then t owns that object by something else than dst.  (With      *)
(* p = p->next, the object could be gone when its member is read.)         *)
MayRead(t, s, dst) ==
  \/ s \in Locals /\ Home[s] = t
  \/ s \in Objects /\ Holders(t, s) \ {dst} # {}

----------------------------------------------------------------------------
(* RefCountableHolder. *)

(* ++m_refCount                                                            *)
AddRef(o) == count' = [count EXCEPT ![o] = @ + 1]

(* if (--m_refCount == 0) delete m_refCountable: the destructor of o       *)
(* begins, inside that of up.  `ReleaseEarly` is a mutant, which deletes   *)
(* an object that still has an owner.                                      *)
ReleaseEarly(t, o, up) ==
  /\ count' = [count EXCEPT ![o] = @ - 1]
  /\ IF count[o] = 2 THEN /\ life' = [life EXCEPT ![o] = "members"]
                          /\ top' = [top EXCEPT ![t] = o]
                          /\ outer' = [outer EXCEPT ![o] = up]
                     ELSE UNCHANGED <<life, top, outer>>

ReleaseRef(t, o, up) ==
  /\ count' = [count EXCEPT ![o] = @ - 1]
  /\ IF count[o] = 1 THEN /\ life' = [life EXCEPT ![o] = "members"]
                          /\ top' = [top EXCEPT ![t] = o]
                          /\ outer' = [outer EXCEPT ![o] = up]
                     ELSE UNCHANGED <<life, top, outer>>

(* Ptr::releaseRef(): nothing for null.                                    *)
ReleaseIfAny(t, o, up) ==
  IF o = Null THEN UNCHANGED <<count, life, top, outer>>
              ELSE ReleaseRef(t, o, up)

----------------------------------------------------------------------------
(* Ptr. *)

(* makePtr(): `new`, with the counter 1, into a new Ptr, which does not    *)
(* increment it; in a mutant, `MakeAndAddRef`, it does.                    *)
MakeAndAddRef(t, l, o) ==
  /\ Idle(t) /\ Home[l] = t /\ ptr[l] = Null /\ life[o] = "free"
  /\ count' = [count EXCEPT ![o] = 2]
  /\ life' = [life EXCEPT ![o] = "alive"]
  /\ ptr' = [ptr EXCEPT ![l] = o, ![o] = Null]
  /\ outer' = [outer EXCEPT ![o] = Null]
  /\ UNCHANGED <<raw, call, top>>

MakePtr(t, l, o) ==
  /\ Idle(t) /\ Home[l] = t /\ ptr[l] = Null /\ life[o] = "free"
  /\ count' = [count EXCEPT ![o] = 1]
  /\ life' = [life EXCEPT ![o] = "alive"]
  /\ ptr' = [ptr EXCEPT ![l] = o, ![o] = Null]
  /\ outer' = [outer EXCEPT ![o] = Null]
  /\ UNCHANGED <<raw, call, top>>

(* The copy constructor; shareToPtr().                                     *)
CopyConstruct(t, l, src) ==
  /\ Idle(t) /\ Home[l] = t /\ ptr[l] = Null
  /\ MayRead(t, src, l) /\ ptr[src] # Null
  /\ ptr' = [ptr EXCEPT ![l] = ptr[src]]
  /\ AddRef(ptr[src])
  /\ UNCHANGED <<life, raw, call, top, outer>>

(* The move constructor.                                                   *)
MoveConstruct(t, l, src) ==
  /\ Idle(t) /\ Home[l] = t /\ ptr[l] = Null /\ src # l
  /\ MayWrite(t, src) /\ ptr[src] # Null
  /\ ptr' = [ptr EXCEPT ![l] = ptr[src], ![src] = Null]
  /\ UNCHANGED <<count, life, raw, call, top, outer>>

(* The first half of assignConst(), assignRvalue() and both reset(), which *)
(* is also all of ~Ptr(): the old object is released, and perhaps deleted, *)
(* while m_ptr still has its address.                                      *)
Begin(t, kind, dst, src) ==
  /\ Idle(t) /\ MayWrite(t, dst)
  /\ call' = [call EXCEPT ![t] = [kind |-> kind, dst |-> dst, src |-> src]]
  /\ ReleaseIfAny(t, ptr[dst], Null)
  /\ UNCHANGED <<ptr, raw>>

BeginAssignConst(t, dst, src) ==
  /\ dst # src /\ ptr[dst] # ptr[src] /\ MayRead(t, src, dst)
  /\ Begin(t, "copy", dst, src)

BeginAssignRvalue(t, dst, src) ==
  /\ dst # src /\ ptr[dst] # ptr[src]
  /\ MayRead(t, src, dst) /\ MayWrite(t, src)
  /\ Begin(t, "move", dst, src)

BeginReset(t, dst) == ptr[dst] # Null /\ Begin(t, "reset", dst, Null)

BeginResetTo(t, dst) == raw[t] # Null /\ Begin(t, "resetTo", dst, Null)

(* The second half, when the destructors have run.                         *)
EndCall(t) == call' = [call EXCEPT ![t] = NoCall]

(* m_ptr = other.get(); addRef();  In a mutant, `ForgetAddRef`, without    *)
(* the latter.                                                             *)
ForgetAddRef(t) ==
  /\ top[t] = Null /\ call[t].kind = "copy"
  /\ ptr' = [ptr EXCEPT ![call[t].dst] = ptr[call[t].src]]
  /\ UNCHANGED count
  /\ EndCall(t)
  /\ UNCHANGED <<life, raw, top, outer>>

AssignConst(t) ==
  /\ top[t] = Null /\ call[t].kind = "copy"
  /\ ptr' = [ptr EXCEPT ![call[t].dst] = ptr[call[t].src]]
  /\ IF ptr[call[t].src] = Null THEN UNCHANGED count
                                ELSE AddRef(ptr[call[t].src])
  /\ EndCall(t)
  /\ UNCHANGED <<life, raw, top, outer>>

(* m_ptr = other.releasePtr();                                             *)
AssignRvalue(t) ==
  /\ top[t] = Null /\ call[t].kind = "move"
  /\ ptr' = [ptr EXCEPT ![call[t].dst] = ptr[call[t].src],
                        ![call[t].src] = Null]
  /\ EndCall(t)
  /\ UNCHANGED <<count, life, raw, top, outer>>

(* m_ptr = nullptr;                                                        *)
Reset(t) ==
  /\ top[t] = Null /\ call[t].kind = "reset"
  /\ ptr' = [ptr EXCEPT ![call[t].dst] = Null]
  /\ EndCall(t)
  /\ UNCHANGED <<count, life, raw, top, outer>>

(* m_ptr = ptr;                                                            *)
ResetTo(t) ==
  /\ top[t] = Null /\ call[t].kind = "resetTo"
  /\ ptr' = [ptr EXCEPT ![call[t].dst] = raw[t]]
  /\ raw' = [raw EXCEPT ![t] = Null]
  /\ EndCall(t)
  /\ UNCHANGED <<count, life, top, outer>>

(* releasePtr(): the thread owns the object without a Ptr.                 *)
ReleasePtr(t, s) ==
  /\ Idle(t) /\ MayWrite(t, s) /\ ptr[s] # Null /\ raw[t] = Null
  /\ raw' = [raw EXCEPT ![t] = ptr[s]]
  /\ ptr' = [ptr EXCEPT ![s] = Null]
  /\ UNCHANGED <<count, life, call, top, outer>>

----------------------------------------------------------------------------
(* Across the boundary of a plugin. *)

(* The virtual queryInterface(): a new reference, and the object itself.   *)
QueryInterface(t, s) ==
  /\ Idle(t) /\ MayRead(t, s, Null) /\ ptr[s] # Null /\ raw[t] = Null
  /\ AddRef(ptr[s])
  /\ raw' = [raw EXCEPT ![t] = ptr[s]]
  /\ UNCHANGED <<life, ptr, call, top, outer>>

(* "the counter should be decremented by the caller": releaseRef().        *)
ReleaseRaw(t) ==
  /\ Idle(t) /\ raw[t] # Null
  /\ raw' = [raw EXCEPT ![t] = Null]
  /\ ReleaseRef(t, raw[t], Null)
  /\ UNCHANGED <<ptr, call>>

(* The result of a function is left to another thread.                     *)
HandOver(t, u) ==
  /\ Idle(t) /\ Idle(u) /\ raw[t] # Null /\ raw[u] = Null
  /\ raw' = [raw EXCEPT ![u] = raw[t], ![t] = Null]
  /\ UNCHANGED <<count, life, ptr, call, top, outer>>

----------------------------------------------------------------------------
(* The destructor of an object. *)

(* The member is destroyed: ~Ptr().                                        *)
DestroyMember(t) ==
  /\ top[t] # Null /\ life[top[t]] = "members"
  /\ LET o == top[t]  p == ptr[o]
     IN IF p # Null /\ count[p] = 1
          THEN /\ count' = [count EXCEPT ![p] = 0]
               /\ life' = [life EXCEPT ![o] = "base", ![p] = "members"]
               /\ top' = [top EXCEPT ![t] = p]
               /\ outer' = [outer EXCEPT ![p] = o]
          ELSE /\ count' = IF p = Null THEN count
                                       ELSE [count EXCEPT ![p] = @ - 1]
               /\ life' = [life EXCEPT ![o] = "base"]
               /\ UNCHANGED <<top, outer>>
  /\ UNCHANGED <<ptr, raw, call>>

(* ~RefCountable(), and the memory is freed; the destructor outside goes   *)
(* on.                                                                     *)
Deallocate(t) ==
  /\ top[t] # Null /\ life[top[t]] = "base"
  /\ life' = [life EXCEPT ![top[t]] = "free"]
  /\ top' = [top EXCEPT ![t] = outer[top[t]]]
  /\ UNCHANGED <<count, ptr, raw, call, outer>>

----------------------------------------------------------------------------
ThreadStep(t) ==
  \/ \E l \in Locals :
       \/ \E o \in Objects : MakePtr(t, l, o)
       \/ \E s \in Slots : CopyConstruct(t, l, s) \/ MoveConstruct(t, l, s)
  \/ \E d \in Slots :
       \/ \E s \in Slots : BeginAssignConst(t, d, s) \/ BeginAssignRvalue(t, d, s)
       \/ BeginReset(t, d) \/ BeginResetTo(t, d)
       \/ ReleasePtr(t, d) \/ QueryInterface(t, d)
  \/ ReleaseRaw(t) \/ \E u \in Threads : HandOver(t, u)

(* What a thread has begun, it goes on with.                               *)
GoOn(t) ==
  \/ AssignConst(t) \/ AssignRvalue(t) \/ Reset(t) \/ ResetTo(t)
  \/ DestroyMember(t) \/ Deallocate(t)

RefNext == \E t \in Threads : ThreadStep(t) \/ GoOn(t)

RefSpec == RefInit /\ [][RefNext]_refVars

RefFairSpec == RefSpec /\ \A t \in Threads : WF_refVars(GoOn(t))

----------------------------------------------------------------------------
(* A reference is owning, unless its Ptr is being assigned to or is the    *)
(* destroyed member of an object.                                          *)
Owning(s) ==
  /\ \A t \in Threads : call[t].dst # s
  /\ s \in Objects => life[s] \in {"alive", "members"}

References == Slots \union Threads

refers ==
  [r \in References |->
     IF r \in Threads THEN raw[r] ELSE IF Owning(r) THEN ptr[r] ELSE Null]

Owners(o) == {r \in References : refers[r] = o}

(* The counter of a living object is the number of its owners, which is    *)
(* never zero; nobody owns an object whose destructor has begun.           *)
CounterIsOwners ==
  \A o \in Objects :
    IF life[o] = "alive" THEN count[o] = Cardinality(Owners(o)) /\ Owners(o) # {}
                         ELSE Owners(o) = {}

(* In the middle of a call the thread still owns, by another reference,    *)
(* the objects whose members it reads and writes, and is the only owner of *)
(* the one it writes.                                                      *)
CallIsSafe(t) ==
  LET dst == call[t].dst  src == call[t].src
      Others == {l \in Locals : Home[l] = t /\ l # dst}
  IN call[t] # NoCall =>
       /\ dst \in Locals => Home[dst] = t
       /\ dst \in Objects => \E l \in Others : Owners(dst) = {l}
       /\ call[t].kind \in {"copy", "move"} =>
            /\ src \in Slots /\ src # dst
            /\ src \in Locals => Home[src] = t
            /\ src \in Objects => \E l \in Others : ptr[l] = src
       /\ call[t].kind \in {"reset", "resetTo"} => src = Null
       /\ call[t].kind = "resetTo" => raw[t] # Null

CallsAreSafe == \A t \in Threads : CallIsSafe(t)

(* An assignment finds both pointers where they were, although a           *)
(* destructor may have run since it began: what it reads and writes are    *)
(* not members of a deleted object.                                        *)
NoUseAfterDelete ==
  \A t \in Threads :
    \A s \in {call[t].dst, call[t].src} \intersect Objects : life[s] = "alive"

O == INSTANCE Ownership WITH alive <- {o \in Objects : life[o] = "alive"}

(* Counting implements ownership: an object dies with its last reference,  *)
(* not earlier and not later, and is never owned again.                    *)
ImplementsOwnership == O!Spec

(* An object that nobody owns is deleted, with whatever it alone owned.    *)
UnownedIsDeleted ==
  \A o \in Objects : (Owners(o) = {}) ~> (life[o] = "free" \/ Owners(o) # {})

=============================================================================
