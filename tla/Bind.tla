-------------------------------- MODULE Bind --------------------------------
(***************************************************************************)
(* Bindings: static storage that is initialised at startup, in an order    *)
(* the configuration computes, and borrowed by the initialisers of other   *)
(* bindings and by executable objects (tasks, handlers, timers).  A        *)
(* configuration function defines bindings one after another; finalize     *)
(* refuses it or registers the initialisers as startup hooks; then the     *)
(* system boots and executables run.                                       *)
(*                                                                         *)
(* A binding is a number, the order of definition.  Its storage has two    *)
(* cells, so that it can be divided.                                       *)
(***************************************************************************)
EXTENDS Naturals, Sequences, FiniteSets, SequencesExt

CONSTANTS MaxDefined,      \* bound: bindings defined or divided
          MaxExecutables,  \* bound: executable objects
          MaxUses          \* bound: binders consumed by all functions

VARIABLES
    bdBinds,   \* the registry: cells, users, and whether there is an initializer
    bdFuncs,   \* what each function consumes, of an initialiser by its binding,
               \* of an executable by its name: a binding, a binder, and a
               \* number that tells two binders of one kind apart
    bdPhase,   \* "configure", "panicked", "refused", "startup", "running"
    bdOrder,   \* bind_init_order
    bdHook,    \* how many of the startup hooks have begun
    bdActive,  \* the functions that are executing
    bdValid,   \* the cells that hold a value
    bdStatic   \* the references and values given for ever

bdVars == <<bdBinds, bdFuncs, bdPhase, bdOrder, bdHook, bdActive, bdValid, bdStatic>>

Executable == 0
Executables == 101 .. 100 + MaxExecutables
Binders == {"Borrow", "BorrowMut", "Take", "TakeRef", "TakeMut", "Ref"}

Binds == 1 .. Len(bdBinds)
Users(b) == bdBinds[b].users

BindInit ==
    /\ bdBinds = <<>> /\ bdFuncs = << >> /\ bdPhase = "configure" /\ bdOrder = <<>>
    /\ bdHook = 0 /\ bdActive = {} /\ bdValid = {} /\ bdStatic = {}

-----------------------------------------------------------------------------
(* The configuration function.                                             *)

\* What register_dependency registers: an executable borrows for ever.
BorrowType(binder, usage) ==
    CASE binder = "Borrow" /\ usage = Executable -> "TakeRef"
      [] binder = "BorrowMut" /\ usage = Executable -> "TakeMut"
      [] binder = "Ref" -> "TakeRef"
      [] OTHER -> binder

\* ... and where it panics.
Consumable(binder, usage) == IF usage = Executable THEN binder \notin {"Take", "TakeMut"}
                             ELSE binder # "Ref"

UsesSoFar == FoldFunction(LAMBDA uses, n : Cardinality(uses) + n, 0, bdFuncs)

\* The tuples of binders a function may consume (bound: an initialiser two, an
\* executable one).  Any tuple is a binder: nothing checks that a binding does
\* not occur in it twice, in whatever ways.
Consumptions(usage) ==
    LET left == MaxUses - UsesSoFar
        binders == {b \in Binds : bdBinds[b].cells # {}} \X Binders \X {1}
    IN UNION {IF usage # Executable THEN {{}} ELSE {},
              IF left > 0 THEN {{x} : x \in binders} ELSE {},
              IF left > 1 /\ usage # Executable
              THEN {{x, y} : x, y \in binders} \cup {{x, <<x[1], x[2], 2>>} : x \in binders}
              ELSE {}}

\* FnBind::bind, for each binder of the tuple.
Registered(binds, uses, usage) ==
    [b \in DOMAIN binds |->
        [binds[b] EXCEPT !.users = @ \o
            SetToSeq({<<usage, BorrowType(u[2], usage), u[2], u[3]>> :
                        u \in {x \in uses : x[1] = b}})]]

Panics(uses, usage) == \E u \in uses : ~Consumable(u[2], usage)

\* How many bindings were defined or divided.  Executables are defined last, and
\* what they consume is independent of their order.
Defined == Cardinality({b \in Binds : Cardinality(bdBinds[b].cells) # 1})
Defining == bdPhase = "configure" /\ Defined < MaxDefined /\ Executables \cap DOMAIN bdFuncs = {}

\* BindDefiner::finish, with an initialiser.
DefineBind(uses) ==
    /\ Defining
    /\ LET b == Len(bdBinds) + 1
       IN IF Panics(uses, b) THEN bdPhase' = "panicked" /\ UNCHANGED <<bdBinds, bdFuncs>>
          ELSE /\ bdBinds' = Append(Registered(bdBinds, uses, b),
                                    [cells |-> {<<b, 1>>, <<b, 2>>}, users |-> <<>>, init |-> TRUE])
               /\ bdFuncs' = [f \in DOMAIN bdFuncs \cup {b} |-> IF f = b THEN uses ELSE bdFuncs[f]]
               /\ UNCHANGED bdPhase
    /\ UNCHANGED <<bdOrder, bdHook, bdActive, bdValid, bdStatic>>

\* The data of a mutex: a dummy initialiser takes its binding for ever.
TakeBindSource(b) ==
    /\ bdBinds[b].cells # {} /\ UsesSoFar < MaxUses
    /\ DefineBind({<<b, "TakeMut", 1>>})

\* zeroed: the storage is valid from the beginning.
DefineZeroed ==
    /\ Defining
    /\ LET b == Len(bdBinds) + 1 IN
        /\ bdBinds' = Append(bdBinds, [cells |-> {<<b, 1>>, <<b, 2>>}, users |-> <<>>, init |-> FALSE])
        /\ bdValid' = bdValid \cup {<<b, 1>>, <<b, 2>>}
    /\ UNCHANGED <<bdFuncs, bdPhase, bdOrder, bdHook, bdActive, bdStatic>>

\* DivideBind::new: a collector takes the binding.
Divided(binds, b) ==
    Append([binds EXCEPT ![b].users = Append(@, <<Len(binds) + 1, "TakeMut", "divide">>)],
           [cells |-> {}, users |-> <<>>, init |-> FALSE])

\* slice: an emitter stands for a part of it.
Sliced(binds, collector, cell) ==
    Append([binds EXCEPT ![collector].users = Append(@, <<Len(binds) + 1, "TakeRef", "divide">>)],
           [cells |-> {cell}, users |-> <<>>, init |-> FALSE])

\* unzip: a binding for each part.
Unzip(b) ==
    /\ Defining /\ Cardinality(bdBinds[b].cells) = 2
    /\ LET divided == Divided(bdBinds, b)
       IN bdBinds' = FoldLeft(LAMBDA binds, cell : Sliced(binds, Len(divided), cell),
                              divided, SetToSeq(bdBinds[b].cells))
    /\ UNCHANGED <<bdFuncs, bdPhase, bdOrder, bdHook, bdActive, bdValid, bdStatic>>

\* start_with_bind.  (A BindRef has been registered when it was created.)
DefineExecutable(e, uses) ==
    /\ bdPhase = "configure" /\ Binds # {}
    /\ e = 101 + Cardinality(Executables \cap DOMAIN bdFuncs)
    /\ IF Panics(uses, Executable) THEN bdPhase' = "panicked" /\ UNCHANGED <<bdBinds, bdFuncs>>
       ELSE /\ bdBinds' = Registered(bdBinds, uses, Executable)
            /\ bdFuncs' = [f \in DOMAIN bdFuncs \cup {e} |-> IF f = e THEN uses ELSE bdFuncs[f]]
            /\ UNCHANGED bdPhase
    /\ UNCHANGED <<bdOrder, bdHook, bdActive, bdValid, bdStatic>>

-----------------------------------------------------------------------------
(* sort_bindings.                                                          *)

CountUsers(b, kinds) == Len(SelectSeq(Users(b), LAMBDA u : u[2] \in kinds))

BorrowedIndefinitely(b) ==
    LET shared == CountUsers(b, {"TakeRef"})
        exclusive == CountUsers(b, {"Take", "TakeMut"})
    IN CASE shared = 0 /\ exclusive = 0 -> "none"
         [] shared > 0 /\ exclusive = 0 -> "shared"
         [] shared = 0 /\ exclusive = 1 -> "exclusive"
         [] OTHER -> "conflict"

\* Vertices, in their order: <<0, b>> the initialisation of b, <<1, b>> the
\* beginning of its indefinite borrow, <<2, 0>> all executables.
VertexInit(b) == <<0, b>>
VertexDisown(b) == <<1, b>>
VertexExecutable == <<2, 0>>
VertexOf(usage) == IF usage = Executable THEN VertexExecutable ELSE VertexInit(usage)
VertexLt(v, w) == v[1] < w[1] \/ (v[1] = w[1] /\ v[2] < w[2])

Indefinite == [b \in Binds |-> BorrowedIndefinitely(b)]

Vertices(indefinite) ==
    {VertexInit(b) : b \in Binds} \cup {VertexExecutable}
    \cup {VertexDisown(b) : b \in {x \in Binds : indefinite[x] # "none"}}

\* The i-th use of each binding.
UseIndices == UNION {{<<b, i>> : i \in DOMAIN Users(b)} : b \in Binds}
UseOf(x) == Users(x[1])[x[2]]

\* Mutant: a shared indefinite borrow is not preceded by mutable ones.
BorrowBeforeExclusive(kind, indefinite) ==
    kind \in {"Borrow", "BorrowMut"} /\ indefinite = "exclusive"

\* Which borrows must have ended before the binding is given away.
BorrowBefore(kind, indefinite) ==
    \/ kind \in {"Borrow", "BorrowMut"} /\ indefinite = "exclusive"
    \/ kind = "BorrowMut" /\ indefinite = "shared"

\* SuccessorIter, for all vertices: an edge is its ends and the use it is for.
Edges(indefinite) ==
    LET borrows == {x \in UseIndices : UseOf(x)[2] \in {"Borrow", "BorrowMut"}}
    IN {<<VertexInit(x[1]), VertexOf(UseOf(x)[1]), x>> : x \in borrows}
       \cup {<<VertexInit(b), VertexDisown(b), <<b, 0>>>> : b \in {d \in Binds : indefinite[d] # "none"}}
       \cup {<<VertexOf(UseOf(x)[1]), VertexDisown(x[1]), x>> :
                x \in {y \in borrows : BorrowBefore(UseOf(y)[2], indefinite[y[1]])}}
       \cup {<<VertexDisown(x[1]), VertexOf(UseOf(x)[1]), x>> : x \in UseIndices \ borrows}

\* Kahn's algorithm.  The heap of ready vertices is the set of its elements, of
\* which the least is popped; num_predecessors counts the edges that are left.
RECURSIVE TopologicalSort(_, _, _)
TopologicalSort(edges, ready, out) ==
    IF ready = {} THEN out
    ELSE LET v == CHOOSE x \in ready : \A y \in ready \ {x} : VertexLt(x, y)
             left == {e \in edges : e[1] # v}
             released == {e[2] : e \in edges \ left} \ {e[2] : e \in left}
         IN TopologicalSort(left, (ready \ {v}) \cup released, Append(out, v))

\* The vertices in order; some are missing if there is a cycle.
SortBindings(vertices, edges) == TopologicalSort(edges, vertices \ {e[2] : e \in edges}, <<>>)

\* CfgBindRegistry::finalize: a conflict or a cycle aborts the compilation.
Finalize ==
    /\ bdPhase = "configure" /\ Binds # {}
    /\ LET indefinite == Indefinite
           vertices == Vertices(indefinite)
           out == SortBindings(vertices, Edges(indefinite))
           conflict == \E b \in Binds : indefinite[b] = "conflict"
           inits == SelectSeq(out, LAMBDA v : v[1] = 0)
       IN IF conflict \/ Len(out) # Cardinality(vertices)
          THEN bdPhase' = "refused" /\ UNCHANGED bdOrder
          ELSE /\ bdPhase' = "startup"
               /\ bdOrder' = SelectSeq([i \in 1 .. Len(inits) |-> inits[i][2]],
                                       LAMBDA b : bdBinds[b].init)
    /\ UNCHANGED <<bdBinds, bdFuncs, bdHook, bdActive, bdValid, bdStatic>>

-----------------------------------------------------------------------------
(* At run time.  A function materialises its binders when it is called.    *)

Reference(f, u) == [cells |-> bdBinds[u[1]].cells, by |-> f, binder |-> u[2], nth |-> u[3],
                    mut |-> u[2] \in {"BorrowMut", "Take", "TakeMut"}]

\* The references a function has while it runs.
CallReferences(f) == {Reference(f, u) : u \in {x \in bdFuncs[f] : x[2] \in {"Borrow", "BorrowMut"}}}

Materialize(f) ==
    /\ bdActive' = bdActive \cup {f}
    /\ bdStatic' = bdStatic \cup
                   {Reference(f, u) : u \in {x \in bdFuncs[f] : x[2] \notin {"Borrow", "BorrowMut"}}}

\* The next startup hook: an initialiser.
InitializerBegins ==
    /\ bdPhase = "startup" /\ bdActive = {} /\ bdHook < Len(bdOrder)
    /\ bdHook' = bdHook + 1
    /\ Materialize(bdOrder[bdHook + 1])
    /\ UNCHANGED <<bdBinds, bdFuncs, bdPhase, bdOrder, bdValid>>

\* Its output is written to the storage.
InitializerEnds(b) ==
    /\ bdPhase = "startup" /\ b \in bdActive
    /\ bdActive' = {} /\ bdValid' = bdValid \cup bdBinds[b].cells
    /\ UNCHANGED <<bdBinds, bdFuncs, bdPhase, bdOrder, bdHook, bdStatic>>

\* is_boot_complete.
BootComplete ==
    /\ bdPhase = "startup" /\ bdActive = {} /\ bdHook = Len(bdOrder)
    /\ bdPhase' = "running"
    /\ UNCHANGED <<bdBinds, bdFuncs, bdOrder, bdHook, bdActive, bdValid, bdStatic>>

ExecutableBegins(e) ==
    /\ bdPhase = "running" /\ e \in DOMAIN bdFuncs \ bdActive
    /\ Materialize(e)
    /\ UNCHANGED <<bdBinds, bdFuncs, bdPhase, bdOrder, bdHook, bdValid>>

ExecutableEnds(e) ==
    /\ bdPhase = "running" /\ e \in bdActive
    /\ bdActive' = bdActive \ {e}
    /\ UNCHANGED <<bdBinds, bdFuncs, bdPhase, bdOrder, bdHook, bdValid, bdStatic>>

BindNext ==
    \/ \E uses \in Consumptions(1) : DefineBind(uses)
    \/ DefineZeroed
    \/ \E b \in Binds : Unzip(b) \/ TakeBindSource(b)
    \/ \E e \in Executables : \E uses \in Consumptions(Executable) : DefineExecutable(e, uses)
    \/ Finalize
    \/ InitializerBegins \/ BootComplete
    \/ \E b \in Binds : InitializerEnds(b)
    \/ \E e \in Executables : ExecutableBegins(e) \/ ExecutableEnds(e)

-----------------------------------------------------------------------------
(* Properties.                                                             *)

LiveReferences == bdStatic \cup UNION {CallReferences(f) : f \in bdActive}

\* References that may not live together
Alias(r, s) == r # s /\ r.cells \cap s.cells # {} /\ (r.mut \/ s.mut)

\* References of one initialiser that borrows a binding twice: the sorter's
\* precondition [bind_conflicting_borrows] excludes that they alias.
OfOneInitialiser(r, s) ==
    /\ r.by = s.by /\ r.by \in Binds
    /\ r.cells = s.cells /\ {r.binder, s.binder} \subseteq {"Borrow", "BorrowMut"}

\* "Static checks to ensure that the borrowing rules are followed by the users of
\* the bindings" (the module documentation of bind.rs).  No mutable reference is
\* given out to storage that another reference leads to.
BorrowRules == \A r, s \in LiveReferences : ~Alias(r, s)

\* An order of the initialisers gives each its place; a pair of uses of a
\* binding is in order.
Place(order, usage) == IF usage = Executable THEN Len(bdBinds) + 1 ELSE order[usage]

InOrder(order, b, i, j) ==
    LET u == Users(b)[i]
        w == Users(b)[j]
    IN /\ u[1] # Executable => Place(order, b) < Place(order, u[1])
       /\ i # j /\ u[2] \in {"Take", "TakeMut"} =>
            w[2] \in {"Borrow", "BorrowMut"} /\ Place(order, w[1]) < Place(order, u[1])
       /\ u[2] = "TakeRef" /\ w[2] = "BorrowMut" => Place(order, w[1]) < Place(order, u[1])

Orderable ==
    \E order \in Permutations(Binds) :
        \A b \in Binds : \A i, j \in DOMAIN Users(b) : InOrder(order, b, i, j)

\* The borrow check is exact up to its precondition.  No reference is given out
\* to storage without a value, or to storage that is being initialised; no
\* mutable reference to storage that another one refers to, in initialisers and
\* concurrent executables and through the parts of a divided binding, except by
\* an initialiser that itself borrows a binding twice, which BorrowRules is about;
\* and a configuration is only refused when the initialisers cannot be ordered so.
BorrowCheckExact ==
    /\ \A r \in LiveReferences : r.cells \subseteq bdValid
    /\ \A r, s \in LiveReferences : Alias(r, s) => OfOneInitialiser(r, s)
    /\ bdPhase = "startup" => \A b \in bdActive, r \in LiveReferences : r.cells \cap bdBinds[b].cells = {}
    /\ bdPhase = "refused" => ~Orderable
=============================================================================
