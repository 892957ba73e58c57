# CamelBones in TLA+

CamelBones lets Perl programs use Objective-C objects and lets Objective-C programs use Perl
classes. Most of its code converts values; what is hard about it is that the two languages call
each other to any depth, each with its own stack, its own errors, its own method dispatch and its
own idea of the class hierarchy. This directory models those parts, checks them with TLC on small
instances and proves the most important facts with TLAPS for all instances.

- [Inventory](#inventory): the parts of the system, their state, what makes them correct.
- [Modules](#modules): what is modelled, and how it corresponds to the code.
- [Runs](#runs): what TLC checks, with which bounds, and what the counterexamples show.
- [Proofs](#proofs): what TLAPS proves, and along which argument.
- [Not modelled](#not-modelled-and-why) and [Plan](#plan).

Paths are relative to `src/CamelBones/` unless they begin with `src/`; `CamelBones.pm` is
`CPAN/lib/CamelBones.pm`.

## Inventory

### How the parts interact

```
   Perl program                                          Cocoa frameworks, nibs
      |  $obj->foo(1)                                        |  [obj foo: x]
      v                                                      v
  NSObject::AUTOLOAD --- CBCallNativeMethod ----------->  native method
  (CamelBones.pm)        (NativeMethods.m, libffi)           |
      ^                                                      |
      |  call_method, G_EVAL                                 |
  Perl method <--------- CBPerlIMP (PerlMethods.m) <---------+
      ^                                                      |
      |  eval_pv                                             |
  any Perl code <------- -[CBPerl eval:] (CBPerl.m) <--------+
      |                        ^
      |  class()               |  class handler: "use Name"
      v                        |
  class registry (Runtime.m) --+--> objc runtime
```

Everything that crosses passes the object map (`Conversions.m`, `Wrappers.m`), which decides which
Perl object stands for which native one, and the marshalling of the type codes.

There is one interpreter. Every entry point sets it as the thread's Perl context
(`PERL_SET_CONTEXT`) and takes no lock, so the code is correct at best for one thread at a time;
what is concurrent in it is the nesting: callbacks, modules that load modules, handlers that call
back. All modules here therefore follow one thread and let any callee call back at any time.

### Components

| Component | State | Operations | Correct when | Hard because |
|---|---|---|---|---|
| **Call bridge**: `REAL_CBPerlIMP` (`PerlMethods.m`), `-[CBPerl eval:]` (`CBPerl.m`), `REAL_CBCallNativeMethod` (`NativeMethods.m`) | interpreter's scope stack, temporaries, argument stack, `$@`; C stack; NSException in flight | call Perl from native code, native code from Perl, raise, die, handle | an error in either language reaches the innermost handler of either, unwinds no foreign frame, and leaves the interpreter's stacks as the caller had them | two unwinding mechanisms (longjmp, NSException), five exits per gate, conversions outside of any handler, any nesting |
| **Method dispatch**: `AUTOLOAD`, `CBCreateAccessor`, `MODIFY_CODE_ATTRIBUTES` (`CamelBones.pm`), `CBGetMethodNameForSelector` (`PerlMethods.m`), super context (`NativeMethods.m`) | symbol table with cached stubs, export tables, method lists | call, SUPER call, message, create accessor | a call reaches the right method once; SUPER goes up | two dispatchers hand a call to each other; stale cache |
| **Class registry**: `class()` (`CamelBones.pm`), `Runtime.m` | runtime's classes and superclasses, `@ISA`, `%INC`, method lists | `class()`, class handler, registration of classes and methods, wrapping of native classes | runtime and `@ISA` agree on a tree, which is the one the modules name | `class()` asks the runtime, which loads a module, which calls `class()` |
| **Object map**: `Conversions.m`, `Wrappers.m` | `_sv` of native objects, `NATIVE_OBJ` of Perl objects, two reference counts | convert either way, create wrapper | one object on one side is one object on the other, while either lives | raw pointers in both directions, variables stored instead of values |
| **CBPerlArray**, **CBPerlHash** | the Perl container, retains of the native elements | the primitive methods of NSMutableArray and NSMutableDictionary | they behave as their Cocoa classes promise; retains and releases are paired | index arithmetic, element ownership in two systems |
| **Tied containers**: `TiedArray.pm`, `TiedDictionary.pm` | the native container | the tie interface | they behave as Perl arrays and hashes | iteration while the container changes, boundaries |
| **CBPerlObject** | handle on a Perl object | key-value coding, forwarding | will/did change notifications are paired | a die between them |
| **CBPerlScalar** | one SV | accessors | - | no state of its own |
| **Startup**: `CBPerl.m` `init`, `initXS`, `StubInit.m`, `DylibInit.m`, `CPAN/CamelBones.xs` | the shared instance, the interpreter, the function table, the class handler | `sharedPerl`, `sharedPerlXS`, `CBInit` | one interpreter whichever language starts | the two ways in do different things in different orders |
| **Marshalling**: `NativeMethods.m`, `PerlMethods.m`, `Structs.m`, `libffi-15` | the structures' ffi_types | type code and value to C and back | a value that fits its type survives | signedness, width, structures in memory, va_arg |
| **ShuX**, `src/ShuX`: documents with a cache of rendered PODs, renderer, windows | cache files, list and block stack of the renderer | open, parse, display, clear cache | what is shown is what the POD says | failure between opening and finishing a cache file |

Left aside: generated lists (Foundation and AppKit modules, globals), vendored code (`PAR`, and
`libffi-15` but for calls on i386), examples, templates, packaging.

### What a test would hardly reach

`PROJECT.json` lists every hazard with its line and the properties that watch it. The ones the
models so far are about:

- the exits of the gates: an error at each of them, under any nesting, with errors swallowed by
  native handlers in between, and exceptions in the conversions, which skip Perl code;
- the truth of `$@` as the test for an error;
- stubs left in the symbol table by `AUTOLOAD` that answer calls made later, from elsewhere in
  the hierarchy;
- the global `$_` that `class()` keeps its place in, while it runs code that calls `class()`;
- modules that use each other in circles, or fail, while their classes are being registered;
- objects that die while the other language has their address, and others that take it;
- the layout of arguments, decided in several places that have to agree: `libffi`'s size, its
  stack, the method that reads it, the messenger;
- retains that are decided from what is in a Perl container now;
- a start that another start overtakes, or that fails half way;
- a cache whose files are judged by their times.

## Modules

| Module | Models | Composes |
|---|---|---|
| `ErrorPropagation` | abstract: what the bridge promises about errors | |
| `CallBridge` | the gates, the interpreter's stacks, errors | `INSTANCE ErrorPropagation` |
| `Dispatch` | which method answers a call | |
| `ClassRegistry` | loading and registration of classes | |
| `ObjectMap` | which Perl object stands for which native object | |
| `ForeignCall` | arguments and results of one call on the C stack | gate, libffi and method |
| `PerlContainers` | Perl arrays and hashes as native collections | array, hash, pool and Perl code |
| `Startup` | how the bridge comes to be | constructors, bundles, early Perl code |
| `PodCache` | ShuX's rendered pages | cache and parser |
| `CallBridgeProofs`, `ClassRegistryProofs`, `DispatchProofs`, `ForeignCallProofs`, `ObjectMapProofs`, `PerlContainersProofs`, `PodCacheProofs`, `StartupProofs` | theorems about the module named | |
| `MCCallBridge`, `MCDispatch`, ... | constants for TLC | |

In every module the definitions with an underscore in their name (`ImpReturns_NoLEAVE`) are not
part of the specification, except for the few that carry the name of a C macro or function
(`STACK_ARG_SIZE`): they are mistakes the code could contain, each of them chosen to break
a property, and they show that the property depends on the code.

### CallBridge

`frames` is the C stack as a sequence of activations: Perl code, native code and the three gates
between them. `mode` says whether the program runs or an error of either kind unwinds it;
`errsv`, `scope` and `slots` are `$@`, the depth of Perl's scope stack and the height of its
argument stack. Each activation remembers the last two as they were when it began, as the gate's
`dSP` and `ENTER` do.

A gate is two or three actions, split where other code runs: `ImpEnters` (the lookup of the method
name, `ENTER; SAVETMPS`), `ImpCalls` (`call_method`), then `ImpReturns` or, if `$@` is true,
`ImpRaises`, which raises without `LEAVE`. `CallEnters`, `CallInvokes` and `CallReturns` do the
same for native methods, with `CallUnknownMethod`, `CallRefuses` and `CallHandlesException` as the
other exits. What Perl and native code do (open and close handlers, die, raise, return, call) is
free. The unwinding actions are the interpreter's and the runtime's: `DieReachesGate` is
`call_method` with `G_EVAL`, `RaiseReachesHandler` an `NS_DURING` block.

Only the message itself is inside `NS_DURING` (`NativeMethods.m:476-482`). What the gates do around
it and around `call_method` (`methodSignatureForSelector:`, the conversions of arguments, output
arguments and results) calls native code and, through overloading, Perl code, and is outside of any
handler. So each gate has a second kind of error exit:

- `ImpConversionRaises`: a native call of CBPerlIMP's own raises. There is no `LEAVE`, as in
  `ImpRaises`; nothing else is skipped, since the caller is native.
- `CallConversionRaises`: one of CBCallNativeMethod's own raises. The exception goes to the
  innermost native handler further out and passes over the gate, the Perl code that made the call
  with its eval blocks, and the gate (`call_method` or `eval_pv`) under that code: frames of the C
  stack that are gone while the interpreter still holds their contexts, its `PL_op` and its
  `PL_top_env`. Native code that handles the exception can go on, and call Perl again: a new
  `call_method` with `G_EVAL` has a context and a jump buffer of its own, and scopes and arguments
  only leak. But the next Perl code further out can no longer be resumed (`Buried`: its `pc`
  becomes `"lost"`): a return or a `croak` into it goes on in the contexts above it
  (`CallGoesAstray`), and the model stops there.
- `ImpConversionDies`: overloading runs Perl code for the conversion of a result, outside of any
  `G_EVAL`, and it dies. The interpreter jumps to Perl code further out, over native code whose
  handlers stay registered, or ends the program.

A death in CBCallNativeMethod's conversions of arguments is no more than a death of the Perl code
that made the call, which `PerlDies` stands for. The handler's own wrapping of the exception
(`NativeMethods.m:478-482`) and the conversion of `-eval:`'s result (`CBPerl.m:245-250`) send no
message that raises, and are taken not to.

Error values are abstract; a subset `FalseDies` is false when tested, since `NSObject` overloads
`bool`.

`ErrorPropagation` is the promise without gates: a stack of activations in two languages, an error
that leaves them one by one and stops at the first handler of either. The refinement maps `frames`
to its Perl and native activations; a gate that holds a true `$@` counts as failing. The promise
has to admit one weakness, an error that is false: it is lost at a native caller. And it says what
the bridge's own failures do, in terms of activations only: `FailOver` passes over the running Perl
activation, handler or not, to its native caller and makes the next Perl activation lost;
`FailUnder`, a death on a native activation's behalf, ends the program or its meaning; `GoAstray` is
what becomes of a program that gets back to an activation that is lost.

### Dispatch

The classes are a chain from `NSObject` down, native ones above and Perl ones below. The program
is chosen at random: which native classes implement `foo` and `foo:`, which Perl classes have a sub
`foo` and whether it calls SUPER, and which selectors are exported. One message is followed at a
time; `stack` shows how it was answered. `CallMethod` is Perl's lookup along `@ISA` with
`AUTOLOAD` at its end (also for the call CBPerlIMP makes), `CallSuper` the lookup that `SUPER::`
starts, `SendMessage` the runtime's lookup for CBCallNativeMethod or native code. `cache` holds the
subs `AUTOLOAD` has left in packages; it stays from one message to the next, so that any earlier
use of the program can have filled it. `CBCreateAccessor` adds accessors between messages.

`MaxDepth` is the size of the stack: the model's only way to show a loop is to overflow it, as the
program does. `crashed` means that. `DepthAssumption` asks that it is greater than the number of
classes and five more, which is what a call needs that goes through each class once.

### ClassRegistry

Each Perl class has a module, with the modules it uses, its parent in `@ISA` or given as `super`,
and perhaps an error. `stack` holds the modules being loaded and the `class()` calls being
executed; a call is cut where other code can run, which is wherever it asks the runtime for a
class: `objc_getClass` answers at once, or has the class handler load the class's module first.
`ClassSearches`, `ClassAsks`, `ClassSetsIsa`, `CBRegister` and `CBRegisterMethods` are its parts
in order.

The search keeps the name it asks for in the global `$_`, here `it`, together with the depth of
the call that wrote it. While a module is loaded, the `class()` call in it writes `$_` too. Two
things then happen to the outer call: it continues with the new `$_`, and the C string the runtime
holds belonged to the old one. The text the runtime reads the second time is therefore one of
three: the old name, the new name, or nothing that names a class. That is undefined behaviour of
the C code, and a free choice in `ClassAsks`.

### ObjectMap

`kind` and `sv` are the native objects by address: whether one lives there, whether its class was
registered from Perl ("bridged", it has the ivar `_sv`) or not ("plain"), and what is in `_sv`.
`nativeObj` is the entry `NATIVE_OBJ` of Perl's hashes, `var` what the program's variables refer
to. A stored value is nothing, a scalar of its own with a fixed value, or a cell: one of the
program's variables, whose value changes when the program assigns to it.

`WrapBridged`, `FindBridged` and `WrapPlain` are `REAL_CBDerefIDtoSV` for an object without and
with a Perl object and for one that cannot have one, each with the assignment of the result.
`REAL_CBDerefSVtoID` changes nothing if the hash has a `NATIVE_OBJ`; `Passed` and `PassedFor` say
what it returns. If it has none, `PassBlessed` makes the object. `NativeAlloc` and `Dealloc` are
the runtime's: an address is used again as soon as its object has died, and stale addresses stay
where they were.

`Careful` is the set of variables whose objects the program retains, which the wrappers do not do
for it. Other variables may be left with the address of an object that has died; the program is
assumed not to copy their values into careful ones (`MayCopy`).

### ForeignCall

One call from Perl at a time, from the method's type codes to the value Perl gets, on i386
Darwin. `CallNativeMethod` begins it with the receiver and the selector as the first two
arguments, `FillArgument` is one turn of the loop in `REAL_CBCallNativeMethod` that chooses an
ffi_type and stores a value, `PrepareTypes` and `PrepareCall` are `ffi_prep_cif` (the structures'
layout, the number of bytes, the return flag, then the choice of the messenger), `FfiCall` is
`ffi_prep_args` and the jump, `Returns` the method and the second `switch`, which makes a Perl
value of the result. `frame` is the stack in words of four bytes; of each the model keeps which
argument it belongs to, which part of it, and, of integers, the value.

The method reads the frame in one of two ways: as a compiler lays out a native method's parameters
(`NativeWords`), or, for a method registered from Perl, as `REAL_CBPerlIMP` steps through it with
`va_arg` (`PerlWords`). `Position` and `Reads` are written from these two readers, and are compared
with what the other side wrote. `REAL_CBCallNativeMethod` knows a structure also by the name with
an underscore (`Tagged`; `StructOf` is its test), `REAL_CBPerlIMP` does not and steps over nothing;
and it makes a signed number of every integer, with an IV of 32 bits, as a Perl for that machine
has. A Perl method whose parameters start where no argument does (`Readable`) reads anything.
`va_end` runs after every turn of the loop (`PerlMethods.m:328`), which on i386 does nothing.

The structures' ffi_types are global and laid out when first used; `OtherCall` is any other call
that gets there first, from an argument's conversion or from inside the method. Where the loop
leaves the array's bounds, leaves a type unset, or makes an object of an output argument nobody
wrote, the program has no meaning any more: phase `"wild"`, where the run stops.

### PerlContainers

An array and a hash that native code uses through `CBPerlArray` and `CBPerlHash` and Perl code
uses directly. `refs` counts an object's retains, `owned` those of other native code, `pool` the
autoreleases that wait. Each method is one action with its retains and autoreleases in the code's
order; `Autorelease` notices when a dead object would be sent a message (`"dead used"`).

Objects in `Shared` may be stored and taken out by Perl code, which retains nothing and releases
nothing; the others are only looked at by it. `EndsNext` has the methods that change the array at
its end or in place, and all of the hash's; `Next` adds insertion and removal elsewhere, which
free an element that is still in the array (`"torn"`) or do not end (`"hung"`): nothing is
followed after that. `EndsSpec` is what the passing run and the theorems are about, `Spec` what the
counterexample is.

### Startup

`stack` is what the one thread is doing: native code, Perl code, a constructor (`init`, `initXS`)
at one of its steps, or the notification of a bundle. The constructors' steps are `Parse`, `Share`,
`Evals`, `Wrap`, `Observe` and `RegisterHandler`, separate because exceptions or other code come
between: `EarlyPerl` is a module that Perl loads while `perl_parse` runs, and which may
`use CamelBones`, so that `initXS` overtakes `init`; `EvalFails` and `BundleFails` are exceptions
from `-[CBPerl eval:]`. `isa` is what each class's `@ISA` has, `observers` and `handler` what the
object has registered. No code runs between `Wrap` and `Observe`, so no class is loaded there.
`Skipped` are the classes whose name begins with `NSObject`: `Runtime.m:77` compares eight
characters and takes all of them for the root.

### PodCache

The files' clock, the PODs with their text and time, the pages with theirs, the windows, and the
one job of the main thread. `ReadFile` decides whether the page is trusted, `StartParsing` opens
both files or `StartFails` (`mkpath`, and the `or die` of each `open`), the parser then has one
action for each kind of paragraph, and `FinishParsing`, `SecondPass` or a death (`ItemOutside`,
`LinkDies`, `SecondPassFails`) ends the pass. Other programs write PODs (`Edit`), time passes
(`Tick`), and files come to be out of reach or back (`Deny`) between any two paragraphs. `denied`
has the PODs that cannot be opened and the pages that cannot be written; whether the directory or
the file is the reason makes no difference, as each is looked at before the page is touched. A page
remembers whose it is, which text it was made from, when its making began and ended, whether it is
whole, and whether it was cut because its POD could not be opened for the second pass. Editors are
taken to replace a file, so an open one keeps its text, and to give it the time of the writing.

The properties compare the parser's `lists`, a stack, with a reference definition on the whole
text (`Unclosed`, `ListOf`, `OpenLists`), which has no stack.

## Runs

The largest runs, `pod_cache` and `class_registry`, take two to three minutes, `dispatch` about one,
the others less.

| Run | Instance | Checks |
|---|---|---|
| `call_bridge` | 7 activations, 4 scopes, 3 argument slots, a true and a false error value | type, `WellNested`, `ScopesHeld`, `LeakNeedsSwallow`, `ArgStackIntact`, `ImpBalanced`, refinement `PropagatesErrors`, liveness `ErrorsSettle` |
| `dispatch` | 1 native class under NSObject, 2 Perl classes below, the last one's package nested; caching on; stack of 12 | type, `LoopsAreKnown` |
| `class_registry` | 3 Perl classes, every choice of used modules, parents and ways to name them; one may die; 2 calls of `class()` each | type, `Rooted`, `PerlSeesSuper`, `HierarchyAsUsed`, `MethodsFollow`, `SuperIsFinal`, liveness `LoadingEnds` |
| `object_map` | 2 addresses, 4 hashes, a careful variable and one that is not | type, `RoundTrip`, `PerlKeepsBody` |
| `foreign_call` | bytes of 4 values, 4 places for arguments, 10 return types, each of 12 kinds of parameter before and after a number; structures with both names | type, `LayoutsTrue`, `MethodFindsArguments`, `ReturnFound`, `ReturnKeepsBits` |
| `perl_containers` | 3 elements, 1 key, an object of native code's and one that Perl code shares, 2 references each | type, `RetainsMatch`, `OnlySharedDie`, `RemovalIsDeferred` |
| `startup` | native and Perl programs; 2 linked classes, one of them skipped, 2 bundles, 1 registered class, 3 objects | type, `ClassesWrapped`, `HalfStartIsKnown`, `BridgeStays`, `ParentsStay`, liveness `StartEnds` |
| `pod_cache` | 2 PODs, one in an encoding of its own, with one page or two; 5 texts; 2 seconds; 1 window; all files in reach, or neither a POD nor the other one's page | type, `TrustedIsKnown`, `TagsMatch`, `DeathsAreKnown`, liveness `DisplayEnds` |

**Why the bounds are enough.** Seven activations allow a native handler over a gate over Perl code
over a gate over native code and once more, so that an error crosses the border in both directions
and a leaked scope has a gate above and below it; a mistake in a gate shows with three. At most
three of the seven can be gates with an open scope (imp, call, imp), so four scopes leave room for
a leaked one while all gates are open; leaks add up to the bound, and then `MaxScope`, like
`MaxSlots`, only keeps the program from entering another gate, never from leaving one. A loop in
`Dispatch` repeats after at most four activations for each class that takes part, so twelve are
enough for every loop of three classes to show; a longer stack adds no message that was not sent.
Three classes are what it takes for a module to be loaded in the middle of a search that was itself
caused by a search, and for a cycle that does not contain the class that is asked for. In
`ObjectMap` two addresses are enough for two objects to live together and for one to take the
other's place; two variables and two objects hold at most four hashes.

In `ForeignCall` a byte of four values has all that the real one has: a sign bit, a bit below it,
and wrap-around; what is before a parameter only shifts it, so two parameters, in both orders,
show every shift, and one method with three has more than the places. In `PerlContainers` the same
object can be in three places of the array and in the hash at once, which is where a count could
go wrong; two references of each kind tell "one more" from "some". `Startup` makes at most two
objects (`StartupProofs`), so three leave room for a mistake. In `PodCache` one window has one job
at a time anyway; the texts contain nested lists, lists in hidden blocks, an item that has lost its
list, a bad link, and each kind of `=encoding`; two seconds tell "the same second" from "later";
with one POD and one page out of reach, each `open` can fail and each can succeed, for the POD that
could have a second pass and for the one with an encoding of its own. The theorems
do not depend on any of these numbers; those about `Dispatch` only need the stack to be as deep as
`DepthAssumption` says.

**Fairness.** `CallBridge!FairSpec` assumes that unwinding goes on once it has begun and that a
gate that finds an error raises it: straight-line code, without a call that could wait. Nothing is
assumed about Perl code and native methods, which may run forever. `ClassRegistry!FairSpec` assumes
that loading modules and executing `class()` goes on: also one thread's straight-line code, as long
as the modules' own statements end. Nobody has to ask for a class. `Startup!FairSpec` assumes that
a constructor that can go on does; Perl code that runs in the middle of it may never end, and
`StartEnds` therefore speaks of a shared object only, above which no such code can be.
`PodCache!FairSpec` assumes that the main thread goes on with a page once it has begun: a loop over
the paragraphs of a file.

**Deadlock** is checked except in `foreign_call`, where the program has no meaning once a call went
wrong, and in the two runs of `PerlContainers`, where nothing is followed after a freed element or
a message to a dead object.

What the properties of the passing runs say is in the comments above them. The central ones:

- `PropagatesErrors`: with all gates in between, errors of Perl code and of native methods behave
  as if the two languages were one, and errors of the gates' own conversions do what
  `ErrorPropagation` says of them and no more.
- `WellNested`: the languages' unwinding never crosses the border, except by those conversions; and
  after them Perl code that cannot be resumed never runs, nor does an error stop in it.
- `ScopesHeld`: although `ImpRaises` leaves a scope open, no `LEAVE` ever closes another
  activation's scope. `LeakNeedsSwallow` says where leaked scopes can survive: only under native
  code that has handled the exception itself. A Perl eval block above repairs everything.
- `LoopsAreKnown`: a call enters the same method twice only if a SUPER call was answered by a stub
  that is not a super stub, or was sent from above the receiver's class, or CBPerlIMP found a stub
  where the Perl method should be. There is no fourth way.
- `HierarchyAsUsed`: a class whose module uses its parent's, and so on up to NSObject, has in the
  runtime the superclass its module names, whatever else is loaded, fails, or is interrupted by
  what. Excepted are classes with an ancestor whose parent needs it in turn (`ParentIsLate`).
- `LoadingEnds`: no set of modules makes the class handler and `class()` call each other forever,
  even though `$_` changes under the search.
- `RoundTrip`, `PerlKeepsBody`: although addresses are reused and Perl is not told about deaths, a
  native object comes back as itself, and a variable whose object the program retains never has a
  second Perl object for it, or another object's.
- `MethodFindsArguments`: what four pieces of code do with a signature (the loop's types, libffi's
  sizes, libffi's stack, the method's own idea of its parameters) agrees, for native methods always
  and for Perl methods up to the first parameter that is a float or a structure with an underscore,
  and unless they return a structure in memory. A number's bits always arrive; a Perl method gets
  the number itself only below 2^31.
- `RetainsMatch`: whichever way an object goes in and out of the containers, its retains are those
  it should have, even while Perl code works on the same containers with other objects.
- `ClassesWrapped`, `HalfStartIsKnown`: the start is complete in every order of events, but for the
  failures they name.
- `TrustedIsKnown`: a page that is shown without parsing is whole and current unless the POD shares
  its page, has one of the flaws listed in `Flawed`, could not be opened for its second pass, or was
  written in the seconds in which it was parsed.
- `DeathsAreKnown`: `displayPod` leaves its spinner turning only for a cause that can be named: at
  its beginning a file that is out of reach, and then the page is as before; later a flaw of the
  text, or a POD that names an encoding and is out of reach by then.

### Counterexamples

Each of these runs checks one statement of a comment, a test or a change log, and TLC finds a
behaviour of the code that breaks it.

| Run | Statement | What happens |
|---|---|---|
| `dispatch_cached` | subclasses override methods and call SUPER (`CPAN/t/15-Subclassing.t:9`) | with caching, which is on by default, the parent's cached stub answers SUPER and sends the message to the object again |
| `class_registry_search` | "look for first registered class in @ISA" (`CamelBones.pm:180`) | the parent's module, loaded by the search, overwrites `$_`: the class gets its grandparent, or NSObject, as superclass |
| `foreign_call_sign` | "case 'C': // unsigned char" (`NativeMethods.m:188`) | the members of the union for char and short have the other sign (511): a method that returns the char -1 gives Perl 255 |
| `perl_containers_remove` | "Retain the original if a wrapper was stored" (`CBPerlArray.m:63`) | `removeObjectAtIndex:` of the last element releases the object and leaves its wrapper in the array (119) |

Other behaviours that the models contain, and that the properties name as their exceptions instead
of having a run of their own:

- a Perl method that dies with an object whose `bool` is false returns normally
  (`PerlMethods.m:340`);
- an NSException in `methodSignatureForSelector:` or in a conversion of CBCallNativeMethod skips the
  Perl code that made the call, evals and all (`NativeMethods.m:135`);
- SUPER starts at the receiver's superclass, so in a Perl class with a Perl subclass it comes back
  to the caller (`NativeMethods.m:283`), and in a class named `A::B` it is not recognised
  (`CamelBones.pm:283`);
- `class()` leaves `@ISA` without the runtime's superclass if another class in it has a name that
  contains the superclass's (`CamelBones.pm:203`);
- a cached stub keeps the selector of its first call, with or without its colon
  (`CamelBones.pm:313`);
- an object made with `bless` stores the reference to its hash as its native object's address
  (`Conversions.m:81`);
- a Perl method with a float parameter, or one that returns a structure in memory, reads the stack
  at the wrong places (`PerlMethods.m:217`), and so does one with a parameter like
  `{_NSRange=II}`, which `NativeMethods.m:417` accepts and `PerlMethods.m:295-310` skips; an
  unsigned argument of 2^31 or more is negative in a Perl method (`PerlMethods.m:235-242`);
- `NSObjectController` and its like have an empty `@ISA` (`Runtime.m:77`); a bundle whose path
  has an apostrophe stays unwrapped (`CBPerl.m:343`); an object whose start has failed is shared
  nevertheless (`CBPerl.m:86`);
- a page that a death has left half written is trusted when its POD is opened again; `=encoding
  utf8`, the encoding in use, ends the page where it stands (`src/ShuX/ShuXParser.pm:130`); an
  item outside of a list is a death (97).

## Proofs

Every state invariant and every action property of the passing runs is proved, in the generality
given below, and so is the refinement of `ErrorPropagation` by `CallBridge`; only the four liveness
properties are not. Each inductive invariant was checked by TLC on the instance of the run before
it was proved; hardly any of the properties is inductive by itself. The assumptions are those that
the modules make about their constants (`CallBridgeAssumption` and its like), which TLC evaluates
for the constants of each run; `LoadingAdvances` alone has one more, that the classes are finitely
many.

Induction over numbers is used in one form only, because the library's induction theorems need an
operator as a parameter: the set of the numbers for which a fact fails, if it is not empty, has a
least member (`LeastExists`, from `WFMin`), and that one is refuted (`AllSteps`). Folds of the
community modules are opened the same way: `FoldLeft` is a `CHOOSE` of a recursive function, and
`Iterates` shows what the chosen function does from one place to the next.

### CallBridgeProofs

For any set of error values, false ones included, and any bounds:

- `TypeCorrect`: `Spec => []TypeOK`. Not trivial: `scope` stays a natural number only because every
  `LEAVE` has its `ENTER`.
- `NestingIsSafe`, `ScopesAreHeld`, `LeaksAreSwallowed`, `ArgStackIsIntact`: the four invariants of
  the run. `ImpIsBalanced`: the action property.
- `ErrorsPropagate`: `Spec => PropagatesErrors`, the refinement, conversions that fail included.

None of the invariants is inductive alone: what a gate may do when its callee ends depends on what
its neighbours have recorded. `IInv` strengthens them to a condition on each activation and on each
pair of neighbours on the stack (who calls whom, which of the two recorded scope and slots is
larger, and what a difference between them implies about swallowed exceptions), together with one
on the top activation and the current state, and `CallerLives`: a native call that is still being
prepared, or that has died, has a caller that can go on. The proof has lemmas about how a step changes the
stack (`PushFacts`, `BecomeFacts`, `PopFacts`, `PopToFacts`, ...), from which it follows that a
step only has to show the condition for the top activation and its caller; then one step per
action. `CallConversionRaises` removes three activations and changes one further down:
`BuriedFacts` shows that its neighbours see no difference. `Invariance` is the theorem; the others follow from it. The only assumptions are the
module's own on its constants.

The refinement maps the stack to its activations of code (`CodeOf`, a recursion along the stack),
each with its language and whether it has a handler (`Activated`), and the mode to the promise's
status (`Status`), which counts a gate that holds a true `$@` as failing (`Failing`). `CodeOfAppend` says how an activation on top changes the mapped
stack: gates leave it as it is, code adds one place. Every step of the code pushes, changes or
removes at most the two upper activations (`BuriedCode` is about the one that does more), so each
action has one step lemma that maps it to a step
of the promise or to a stutter; `IInv` tells it that the neighbours are who they must be, for
example that a gate whose callee has ended stands on code that waits for it.

### ClassRegistryProofs

For any set of classes, any modules (`Texts`), any names that contain each other:

- `HierarchyIsATree`: `Spec => []Rooted`, stated as: every non-empty set of classes has a member
  whose superclass is outside of it, which excludes cycles and is usable in a proof without
  induction.
- `SuperclassIsFinal`: `Spec => SuperIsFinal`.

The inductive invariant `Tree` adds to `Rooted` that `superOf` maps registered classes to
registered classes. `StepAdds` shows that all actions leave the hierarchy alone except
`CBRegister`, which adds one class that was not there below one that was; `AddsKeepsTree` shows
that this cannot close a cycle, since no old class has the new one as its superclass.

- `RegistryTypeCorrect`: `Spec => []TypeOK`.
- `PerlFindsSuper`: `Spec => []PerlSeesSuper`.
- `NoClassWithoutMethods`: `Spec => []MethodsFollow`.

`RegistryTypeCorrect`, `PerlFindsSuper` and `NoClassWithoutMethods` need to know what is on the
stack. `Caught`: a module that is being loaded is there once, and an eval of the class handler or of
Perl code is at or below it, so that a death of the module ends somewhere. `Called`: `class()` runs
for modules only that have been loaded, and when it has come to the registration the superclass it
has chosen is one that its `@ISA` shows. `Settled`: a registered class has such a superclass and has
its methods, or `class()` is on top of the stack and about to register them. `PerlSeesSuper` would
not be inductive without `Called`, since `$_` may have become another call's by the time the
superclass is chosen; that `class()` adds the superclass to `@ISA` unless `@ISA` shows it already
(`ClassSetsIsa`), and that nobody takes it away while the runtime is asked once more, is what keeps
the theorem true.

- `ParentsAsNamed`: `Spec => []HierarchyAsUsed`.

A second invariant, `NamedInv`, follows `$_` through all searches that are under way. Call a class
punctual if neither it nor an ancestor of it is late (`ParentIsLate`). `Ordered`: each module on
the stack is needed by those below it, and the modules it has used are loaded, or on the stack
below it or right above it. From it follows the key lemma `ParentIsThere`: when the module of a
punctual class calls `class()`, its parent's module is loaded and the parent registered, since
otherwise it would be on the stack below and need its own child. `Straight`: so the search of a
punctual class gets the parent as its first answer, with nothing loaded in between, and `$_` is its
own. All other searches may pick up any `$_`; `IsaNeeded` and `AllFindNeeded` bound what they pick
up by what their class needs, so `Ordered` holds when they load it. `AsNamed` is the property, with
a place for the `class()` call that is about to register.

Proving this found a gap in the property. It was stated with a definition of need that left out
parents given to `class()` as `'super'`; but `class()` puts these into `@ISA` as well
(`ClassSetsIsa`), where a later search of another class finds them and loads their modules. With
four classes the old statement is false: p uses x, x has y in its `@ISA`, y names c as `'super'`,
and c uses p, its parent, which is therefore not there when c calls `class()`. Three classes
do not show it. `Needs` now includes every parent. In turn `ParentIsLate` no longer has to except
parents whose modules have died: the module that uses such a parent dies as well.

- `LoadingAdvances`: every step of `Loads` and `Class` leaves less to do (`Remaining`), in an order
  that is well-founded (`NearerEnds`), if the classes are finitely many.

This is the part of `LoadingEnds` that a proof can reach: loading cannot go on for ever, however
many modules there are. Less is, in this order: fewer modules that nobody has begun to load, a
lower stack, a later phase of its top, fewer names to ask for, a shorter queue. A search whose `$_`
has been set by another call can mark a name as checked that it had checked before, and append its
`@ISA` once more; it then counts as a phase behind (`Behind`), which it can be only if a module has
been loaded meanwhile. What remains for TLC is that such a step is always possible.

### DispatchProofs

For any chain of classes, any methods and exports, with and without caching:

- `DispatchType`: `Spec => []TypeOK`.
- `OnlyStrayCallsLoop`: `Spec => []LoopsAreKnown`.

The invariant gives each activation a rank (`Rank`), which goes down from caller to callee unless
the call strays, in one of the ways that `LoopsAreKnown` names: the program's call ranks highest,
then a stub, then a Perl method that the runtime has called, then subs, the receiver's class first
and those above it after it, and native methods last. The rank of a stub that sends the message to
the superclass is the last but one, although the superclass can be a Perl class: such a stub is made
only if Perl finds nothing above (`Fresh`), and what the runtime finds in a Perl class has been
exported, so Perl finds it (`Exports`). Two activations with the same code have the same rank, so
between them a call has strayed (`Descent`), and a stack without a stray call is no longer than
there are ranks, so it does not overflow.

### ForeignCallProofs

For any signatures, a byte of any even number of values, any samples:

- `ForeignCallType`: `Spec => []TypeOK`; `StructuresLaidOutOnce`: `Spec => []LayoutsTrue`.
- `ArgumentsArrive`: `Spec => []MethodFindsArguments`.
- `ResultsAreFound`: `Spec => []ReturnFound`; `ReturnedBits`: `Spec => []ReturnKeepsBits`.

The heart is that three loops agree. `Words` counts how many words of the stack the first
arguments take, by cardinalities; `BytesAre` shows that `ffi_prep_cif` reserves at least as many,
`FrameIs` that `ffi_prep_args` puts each argument behind so many, `PositionIs` that a method looks
for it there. `InitFlatIs` and `LayoutFold` show that a structure, whatever it is nested in, is laid
out with its true size when it is first used. The lemmas about values (`ModUnique`, `UnsignedIs`,
`SignedExact`, `Arrives`, `Returned`) show that what is cut to its size, extended and cut again is
what it was. In the invariant `Filling`, `LaidOut`, `Reserved`, `Framed` and `Answered` say what
holds from each phase of the call on. `SignaturesAssumption` says no more than that signatures
consist of type codes.

### ObjectMapProofs

For memory of any size, any number of variables and any choice of the careful ones:

- `ObjectMapType`: `Spec => []TypeOK`.
- `NativeObjectsReturn`: `Spec => []RoundTrip`.
- `RetainedObjectsStay`: `Spec => []PerlKeepsBody`.

`Linked` (the body in a bridged object's `_sv` has that object's address) is inductive with the
types: a hash is taken for a new object only if nothing refers to it, and a new object has no old
`_sv`. It gives the round trip. `PerlKeepsBody` follows from `Held`, which follows a careful
variable to the address and back; its step for `Dealloc` is where retaining is needed, its steps
for `FindBridged` and `Assign` where `MayCopy` and `Linked` are.

### PerlContainersProofs

For any objects, any finite set of keys, any lengths and bounds, about `EndsSpec`:

- `ContainersTypeCorrect`: `[]TypeOK`.
- `RetainsBalance`: `[]RetainsMatch`; `StoredObjectsLive`: `[]StoredLive`, the property that
  `perl_containers_remove` refutes for `Spec`.
- `OnlySharedObjectsDie`: `[]OnlySharedDie`. `RemovalsAreDeferred`: the action property.

`RetainsMatch` counts places, so the first part of the module is about counting: `OccAdd` and
`OccPut` say how the cardinality of `{i \in D : f[i] = o}` changes with one more argument or
another value, `ArrayPushed`, `ArrayPopped`, `ArrayReplaced` and `HashStored` what that means for
the containers' steps. `Inv`, the conjunction of the three invariants, is then inductive: an
autorelease adds to `pool` what the step takes from the places only if the object lives, and it
does because it was in a place. That is where the two invariants need each other.

### PodCacheProofs

For any PODs, pages, names, texts and times:

- `PodCacheType`: `Spec => []TypeOK`.
- `ListsAreTheTexts`: `Spec => []TagsMatch`.
- `TrustIsFounded`: `Spec => []TrustedIsKnown`.
- `DeathsHaveCauses`: the action property `DeathsAreKnown`.

The parser's stack of lists is related to the text by `Nested`: it has one entry for each `=over`
that is not closed, in their order, and the entry says whether that list is open in the page. What
makes this hard is that `Unclosed` knows no stack. Its lemmas count the `=over` and the `=back`
paragraphs behind an `=over` (`Net`): a `=back` closes the last `=over` behind which there is one
more `=over`, itself included, than there are `=back`s (`LastNet`). `Coded` says what the first pass
knows of the encoding, so that a second pass fails only of a POD that is flawed or out of reach. `Kept` says what is
true of each page, open or closed, and `Current` that the page which is written is the one of the
text which is read. `NothingAssumption` says that the value for "no page" and "no job" is neither.

### StartupProofs

For any classes, bundles and number of objects, without any fairness:

- `StartupType`: `Spec => []TypeOK`.
- `OneBridge` (from `OneInterpreter` and `OneSharedObject`) and `ParentsAreKept`: the action
  properties `BridgeStays` and `ParentsStay`.
- `HalfStartsAreFailures`: `Spec => []HalfStartIsKnown`.
- `ClassesAreWrapped`: `Spec => []ClassesWrapped`.

The invariant `Inv` describes the stack: native code is only at its bottom, `init` only directly
above, nothing is above `initXS`, and only Perl code that `perl_parse` runs is above an `init`, one
that has not shared its object yet (`Placed`, `Due`). So while there is an interpreter and no
shared object, `init` is on the stack (`Pending`), native code is not on top, and `sharedPerl` is
not called a second time. `Younger` and `Parents` give the two other action properties. Lemmas for
the four ways to change the stack (`PopStep`, `BecomeStep`, `PushStep`, `SameStep`) leave little to
each action. `ClassesAreWrapped` needs a second invariant, `Wraps`: a class that ought to be wrapped
and is not exists, once somebody listens for bundles, only while the notice of its bundle is on top
of the stack (`Covered`), which is why the order of wrapping and listening in `init` matters.

### Only model-checked

- `ErrorsSettle`, `LoadingEnds`, `StartEnds`, `DisplayEnds`: liveness under fairness needs ENABLED,
  which the installed provers do not handle. Of `LoadingEnds`, `LoadingAdvances` proves that
  loading cannot go on for ever.
- The four runs that expect a violation show counterexamples, which need no proof.

## Not modelled, and why

- Several threads in one interpreter: Perl gives it no meaning. The checks of `$@` after a call
  are the place where it would first go wrong.
- The contents of arguments and results that are not integers; how structures are copied field by
  field (`Structs.m`); processors other than i386. That an argument conversion can itself load a
  class's module or make a call is in `ForeignCall` (`OtherCall`) only as far as the structures'
  types are concerned.
- In `Dispatch`: class methods, `poseAs`, exports whose Perl name is not derived from the selector.
- The tests with `sv_derived_from` before a Perl object is taken for a native one
  (`ObjectMap`, `PerlContainers`): every class of the models passes them. One below
  `NSObjectController`, whose `@ISA` is empty (`Runtime.m:77`), would not.
- In `ClassRegistry`: classes whose package is not the one that calls `class()`, modules that
  change `$_` themselves.
- In `ObjectMap`: the conversions of values that are not objects, the reference counts of hashes
  and scalars (the hash of a wrapper is never freed; one that nothing refers to is taken as free),
  Perl code that assigns to `$_[0]` while it is `_sv` itself, and what becomes of a native object
  whose `_sv` was the variable of a scope that has ended.
- In `PerlContainers`: the constructors, the lookup methods, the enumerator, and what a program
  does after an element was freed twice.
- In `Startup`: the loading of the versioned library (`StubInit.m`, `DylibInit.m`), which either
  succeeds or leaves a table of null pointers; the globals; native threads that race to
  `sharedPerl`.
- In `PodCache`: the text of a page, in particular what a shorter second pass leaves of a longer
  first one and that text ignores `hide_block`; `=begin html`; the window's asynchronous loading of
  a page. `Edit` gives a POD the current time: an installer that keeps the times of its files is one
  more way to a stale page. A POD that is gone when `readFromFile:` asks for its time (`-M` gives
  nothing then, which compares like the time ShuX was started) keeps its old time in the model. A
  full disk shows in no statement of the code, since nothing looks at what `print` returns.
- The components without a module in `PROJECT.json`: planned below, or without state of their own,
  or not part of the program. Nearly all of the repository's C lines are headers of databases and
  libffi's other processors.

## Plan

Done: `CallBridge` with `ErrorPropagation`, `Dispatch`, `ClassRegistry`, `ObjectMap`,
`ForeignCall`, `PerlContainers`, `Startup`, `PodCache`, and the proofs listed above. Left, in this
order:

1. `Iteration` (`TiedArray.pm`, `TiedDictionary.pm`, `CBPerlHash.m:254`): iteration over a
   container that changes, in both directions, against a plain sequence as its abstract
   specification.
2. `KeyValueCoding` (`CBPerlObject.m`) composed with `CallBridge`: pairing of notifications when an
   accessor dies.
