--------------------------- MODULE PerlContainers ---------------------------
(***************************************************************************)
(* A Perl array and a Perl hash that native code uses as NSMutableArray    *)
(* and NSMutableDictionary (CBPerlArray.m, CBPerlHash.m), and the native   *)
(* objects in them.                                                        *)
(*                                                                         *)
(* What is stored of an object is a wrapper, a Perl object with the        *)
(* address; the wrapper itself retains nothing, so the methods do: they    *)
(* retain what they store and autorelease what they take out, and they see *)
(* from the Perl value that is there whether it is a wrapper.  A string is *)
(* stored as a Perl string and not retained.  Perl code that uses the same *)
(* array and hash knows nothing of this.                                   *)
(***************************************************************************)
EXTENDS Integers, Sequences, FiniteSets

CONSTANTS
  Objects,  \* native objects
  Shared,   \* those that Perl code also stores and takes out
  Keys,     \* the hash's keys
  Text,     \* a string
  None,     \* no entry
  MaxLen,   \* bound of the array's length
  MaxRefs   \* bound of the references other native code holds, of the pool's,
            \* and of those that get lost

ASSUME PerlContainersAssumption ==
  /\ Shared \subseteq Objects /\ Text \notin Objects /\ None \notin Objects \cup {Text}
  /\ IsFiniteSet(Keys) /\ MaxLen \in Nat /\ MaxRefs \in Nat \ {0}

VARIABLES
  array,   \* the array's elements: objects (as wrappers) and strings
  hash,    \* the hash's values
  refs,    \* the objects' retain counts; an object with none is dead
  owned,   \* how many of them are other native code's
  pool,    \* releases that wait in the autorelease pool
  state    \* "ok"; "dead used", "torn" (an element was freed), "hung"

vars == <<array, hash, refs, owned, pool, state>>

Elements == Objects \cup {Text}
Wrapped(e) == e \in Objects           \* sv_isobject, and NSObject derived
Alive(o) == refs[o] > 0

\* The number of wrappers of o in the array and in the hash.
Places(o) == Cardinality({i \in DOMAIN array : array[i] = o})
             + Cardinality({k \in Keys : hash[k] = o})

TypeOK ==
  /\ array \in Seq(Elements) /\ Len(array) <= MaxLen
  /\ hash \in [Keys -> Elements \cup {None}]
  /\ refs \in [Objects -> Int]
  /\ owned \in [Objects -> 0 .. MaxRefs] /\ pool \in [Objects -> Nat]
  /\ state \in {"ok", "dead used", "torn", "hung"}

Init ==
  /\ array = <<>> /\ hash = [k \in Keys |-> None]
  /\ refs = [o \in Objects |-> 1] /\ owned = [o \in Objects |-> 1]
  /\ pool = [o \in Objects |-> 0]
  /\ state = "ok"
----------------------------------------------------------------------------
\* retain e if it is stored as a wrapper.
Retained(r, e) == IF Wrapped(e) THEN [r EXCEPT ![e] = @ + 1] ELSE r

\* autorelease what was taken out, if it is a wrapper; a dead object must not
\* be sent a message.
Autorelease(e) ==
  /\ pool' = IF Wrapped(e) /\ Alive(e) THEN [pool EXCEPT ![e] = @ + 1] ELSE pool
  /\ state' = IF Wrapped(e) /\ ~Alive(e) THEN "dead used" ELSE "ok"

\* Native code has a pointer to e and may use it.
Usable(e) == Wrapped(e) => Alive(e)
PoolHasRoom(e) == Wrapped(e) => pool[e] < MaxRefs
----------------------------------------------------------------------------
(* Mistakes the methods could contain.                                      *)

\* The pool is left out: the old value is released at once.
SetObject_Releases(k, e) ==
  /\ state = "ok" /\ Usable(e) /\ PoolHasRoom(hash[k])
  /\ Wrapped(hash[k]) => Alive(hash[k])
  /\ hash' = [hash EXCEPT ![k] = e]
  /\ refs' = LET r == IF Wrapped(hash[k]) THEN [refs EXCEPT ![hash[k]] = @ - 1] ELSE refs
             IN Retained(r, e)
  /\ UNCHANGED <<array, owned, pool, state>>

\* The retain is left to the hash.
SetObject_NoRetain(k, e) ==
  /\ state = "ok" /\ Usable(e) /\ PoolHasRoom(hash[k])
  /\ hash' = [hash EXCEPT ![k] = e]
  /\ Autorelease(hash[k])
  /\ UNCHANGED <<array, refs, owned>>

\* Whether to release is seen from the new element.
ReplaceObject_LooksAtNew(i, e) ==
  /\ state = "ok" /\ i \in DOMAIN array /\ Usable(e) /\ PoolHasRoom(array[i])
  /\ array' = [array EXCEPT ![i] = e]
  /\ refs' = Retained(refs, e)
  /\ IF Wrapped(e) THEN Autorelease(array[i]) ELSE UNCHANGED <<pool, state>>
  /\ UNCHANGED <<hash, owned>>

\* A string is stored as undef.
AddObject_LosesText(e) ==
  /\ state = "ok" /\ Usable(e) /\ Len(array) < MaxLen
  /\ array' = Append(array, IF Wrapped(e) THEN e ELSE None)
  /\ refs' = Retained(refs, e)
  /\ UNCHANGED <<hash, owned, pool, state>>
----------------------------------------------------------------------------
(* CBPerlArray.                                                             *)

AddObject(e) ==
  /\ state = "ok" /\ Usable(e) /\ Len(array) < MaxLen
  /\ array' = Append(array, e)
  /\ refs' = Retained(refs, e)
  /\ UNCHANGED <<hash, owned, pool, state>>

\* av_pop gives undef if the array is empty.
RemoveLastObject ==
  /\ state = "ok" /\ array # <<>> /\ PoolHasRoom(array[Len(array)])
  /\ array' = SubSeq(array, 1, Len(array) - 1)
  /\ Autorelease(array[Len(array)])
  /\ UNCHANGED <<hash, refs, owned>>

\* The old object is autoreleased before the new one is retained.
ReplaceObject(i, e) ==
  /\ state = "ok" /\ i \in DOMAIN array /\ Usable(e) /\ PoolHasRoom(array[i])
  /\ array' = [array EXCEPT ![i] = e]
  /\ refs' = Retained(refs, e)
  /\ Autorelease(array[i])
  /\ UNCHANGED <<hash, owned>>

\* An insertion at the end moves nothing.  Before the end each element is
\* stored a second time without counting the reference, so that storing the
\* next one, or the new one, in its old place frees it; and at the front the
\* loop does not end, an unsigned i being always >= 0.  i counts from 1.
InsertObject(i, e) ==
  /\ state = "ok" /\ i \in 1 .. Len(array) + 1 /\ Usable(e) /\ Len(array) < MaxLen
  /\ CASE i = 1 -> state' = "hung" /\ UNCHANGED <<array, refs>>
       [] i = Len(array) + 1 /\ i > 1 -> /\ array' = Append(array, e)
                                         /\ refs' = Retained(refs, e)
                                         /\ UNCHANGED state
       [] OTHER -> /\ array' = SubSeq(array, 1, i - 1) \o <<e>>
                                 \o SubSeq(array, i, Len(array))
                   /\ refs' = Retained(refs, e)
                   /\ state' = "torn"
  /\ UNCHANGED <<hash, owned, pool>>

\* The object is autoreleased and the elements after it are moved down in the
\* same way; the array stays as long as it was.  The last element is thus
\* autoreleased and stays where it is.
RemoveObject(i) ==
  /\ state = "ok" /\ i \in DOMAIN array /\ PoolHasRoom(array[i])
  /\ IF i = Len(array)
     THEN UNCHANGED array /\ Autorelease(array[i])
     ELSE /\ array' = [j \in DOMAIN array |-> IF j >= i /\ j < Len(array)
                                              THEN array[j + 1] ELSE array[j]]
          /\ state' = "torn" /\ UNCHANGED pool
  /\ UNCHANGED <<hash, refs, owned>>
----------------------------------------------------------------------------
(* CBPerlHash.                                                              *)

RemoveObjectForKey(k) ==
  /\ state = "ok" /\ hash[k] # None /\ PoolHasRoom(hash[k])
  /\ hash' = [hash EXCEPT ![k] = None]
  /\ Autorelease(hash[k])
  /\ UNCHANGED <<array, refs, owned>>

\* setObject:forKey: removes what is there, which is only autoreleased and may
\* be the same object, and stores the new value.
SetObject(k, e) ==
  /\ state = "ok" /\ Usable(e) /\ PoolHasRoom(hash[k])
  /\ hash' = [hash EXCEPT ![k] = e]
  /\ refs' = Retained(refs, e)
  /\ Autorelease(hash[k])
  /\ UNCHANGED <<array, owned>>
----------------------------------------------------------------------------
(* The other users.                                                         *)

\* Native code that has, gets or gives up references of its own.
Retain(o) ==
  /\ state = "ok" /\ Alive(o) /\ owned[o] < MaxRefs
  /\ owned' = [owned EXCEPT ![o] = @ + 1] /\ refs' = [refs EXCEPT ![o] = @ + 1]
  /\ UNCHANGED <<array, hash, pool, state>>
Release(o) ==
  /\ state = "ok" /\ owned[o] > 0
  /\ owned' = [owned EXCEPT ![o] = @ - 1] /\ refs' = [refs EXCEPT ![o] = @ - 1]
  /\ UNCHANGED <<array, hash, pool, state>>

\* The autorelease pool is released.
Drain ==
  /\ state = "ok" /\ pool # [o \in Objects |-> 0]
  /\ refs' = [o \in Objects |-> refs[o] - pool[o]]
  /\ pool' = [o \in Objects |-> 0]
  /\ state' = IF \E o \in Objects : refs[o] < pool[o] THEN "dead used" ELSE "ok"
  /\ UNCHANGED <<array, hash, owned>>

\* Perl code stores and takes out what it shares.
PerlMayUse(e) == e \in Shared \cup {Text}
\* Bounds the retains that are lost when Perl code takes out what native code
\* has stored.
MayBeLost(e) == Wrapped(e) => refs[e] <= 2 * MaxRefs
PerlPush(e) ==
  /\ state = "ok" /\ PerlMayUse(e) /\ Len(array) < MaxLen
  /\ array' = Append(array, e)
  /\ UNCHANGED <<hash, refs, owned, pool, state>>
PerlPop ==
  /\ state = "ok" /\ array # <<>> /\ PerlMayUse(array[Len(array)])
  /\ MayBeLost(array[Len(array)])
  /\ array' = SubSeq(array, 1, Len(array) - 1)
  /\ UNCHANGED <<hash, refs, owned, pool, state>>
PerlAssign(k, e) ==
  /\ state = "ok" /\ {e, hash[k]} \subseteq Shared \cup {Text, None}
  /\ MayBeLost(hash[k])
  /\ hash' = [hash EXCEPT ![k] = e]
  /\ UNCHANGED <<array, refs, owned, pool, state>>
----------------------------------------------------------------------------
(* The methods that change the array at its end or in place, and the others.*)

EndsNext ==
  \/ \E e \in Elements : AddObject(e) \/ PerlPush(e)
  \/ \E e \in Elements : array # <<>> /\ InsertObject(Len(array) + 1, e)
  \/ \E i \in DOMAIN array, e \in Elements : ReplaceObject(i, e)
  \/ \E k \in Keys, e \in Elements : SetObject(k, e)
  \/ RemoveLastObject \/ PerlPop \/ Drain
  \/ \E k \in Keys : RemoveObjectForKey(k)
  \/ \E k \in Keys, e \in Elements \cup {None} : PerlAssign(k, e)
  \/ \E o \in Objects : Retain(o) \/ Release(o)

Next ==
  \/ EndsNext
  \/ \E i \in 1 .. Len(array) + 1, e \in Elements : InsertObject(i, e)
  \/ \E i \in DOMAIN array : RemoveObject(i)

EndsSpec == Init /\ [][EndsNext]_vars
Spec == Init /\ [][Next]_vars
----------------------------------------------------------------------------
Private == Objects \ Shared

\* Over both containers, whichever of their methods native code uses, an
\* object that Perl code does not store itself has exactly the retains it
\* should have: its owners', one for each place it is in, and those that wait
\* in the pool.  So it is neither released too often nor kept for ever.  Perl
\* code does not take these objects out either: what it removes is not released.
RetainsMatch ==
  \A o \in Private : refs[o] = owned[o] + Places(o) + pool[o]

\* No method kills an object, not even one that takes it out of its last
\* place: what native code got from objectAtIndex: or objectForKey: is
\* usable until the pool is drained, also in the method that puts it back.
RemovalIsDeferred ==
  [][\A o \in Private : Alive(o) /\ refs'[o] <= 0 =>
       \/ owned'[o] < owned[o]
       \/ pool[o] > 0 /\ pool'[o] = 0]_vars

\* What goes wrong goes wrong with objects that Perl code has stored.
OnlySharedDie ==
  state = "dead used" => \E o \in Shared : refs[o] <= 0

\* "Retain the original if a wrapper was stored" (CBPerlArray.m:63): while a
\* wrapper is in the array or the hash, its object lives.
StoredLive == \A o \in Private : Places(o) > 0 => Alive(o)
=============================================================================
