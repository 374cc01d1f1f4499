--------------------------------- MODULE Loader ---------------------------------
(***************************************************************************)
(* vm/js/loader.js: a core imports modules, which are fetched and compiled *)
(* once each, wait for the modules they import, and are then loaded into   *)
(* quad ROM.  The IR of a module is abstracted to its nodes and what they  *)
(* refer to; an instruction has an immediate and a continuation.           *)
(***************************************************************************)
EXTENDS Integers, Sequences, FiniteSets, SequencesExt

CONSTANTS
    Modules,
    Worlds          \* what the sources of the modules may be: a set of functions

VARIABLES
    world,          \* the sources; one that cannot be compiled has ok = FALSE
    promise,        \* import_promises: "none", "fetching", "waiting", "loaded", "failed"
    exports,        \* what the promise of a loaded module holds
    rom,            \* the quads of ROM
    wanted          \* what h_import was called with

vars == <<world, promise, exports, rom, wanted>>

(* Nodes of the IR.  A reference without a module has module "".           *)
Fix(n) == [kind |-> "fix", n |-> n]
Nil == [kind |-> "nil"]
Ref(module, name) == [kind |-> "ref", module |-> module, name |-> name]
Type(arity) == [kind |-> "type", arity |-> arity]
Pair(head, tail) == [kind |-> "pair", head |-> head, tail |-> tail]
Dict(value, next) == [kind |-> "dict", head |-> value, tail |-> next]
Quad(type, x) == [kind |-> "quad", head |-> type, tail |-> x]
Instr(imm, k) == [kind |-> "instr", head |-> imm, tail |-> k]
End == [kind |-> "end"]         \* an instruction without a continuation

IsQuad(node) == node.kind \in {"pair", "dict", "quad", "instr", "end"}
IsInstr(kind) == kind \in {"instr", "end"}
Local(node) == node.kind = "ref" /\ node.module = ""

-----------------------------------------------------------------------------
(* load_module.  Raws are values, or pointers to a quad; a quad in ROM     *)
(* holds the kind it was written as, and raws.                             *)
RawFix(n) == [is |-> "fix", v |-> n]
RawNil == [is |-> "nil", v |-> 0]
Ptr(at) == [is |-> "ptr", v |-> at]
Missing == [is |-> "undefined", v |-> 0]
Placeholder == [t |-> "undefined", x |-> Missing, y |-> Missing]

(* What is passed along: ROM, the checks to be made, and whether a check   *)
(* has failed.                                                             *)
Alloc(s) == [s EXCEPT !.rom = Append(@, Placeholder)]
Write(s, at, quad) == [s EXCEPT !.rom[at] = quad]
Fails(s) == [s EXCEPT !.failed = TRUE]

RECURSIVE Value(_, _, _, _), Populate(_, _, _, _, _)

Lookup(ref, defs, imports, s) ==
    IF ref.module = ""
    THEN IF ref.name \in DOMAIN defs THEN [s |-> s, raw |-> defs[ref.name]]
         ELSE [s |-> Fails(s), raw |-> Missing]
    ELSE IF ref.module \in DOMAIN imports /\ ref.name \in DOMAIN imports[ref.module]
         THEN [s |-> s, raw |-> imports[ref.module][ref.name]]
         ELSE [s |-> Fails(s), raw |-> Missing]

Value(node, defs, imports, s) ==
    CASE node.kind = "fix" -> [s |-> s, raw |-> RawFix(node.n)]
      [] node.kind = "nil" -> [s |-> s, raw |-> RawNil]
      [] node.kind = "ref" -> Lookup(node, defs, imports, s)
      [] OTHER -> LET at == Len(s.rom) + 1
                  IN  [s |-> Populate(at, node, defs, imports, Alloc(s)), raw |-> Ptr(at)]

(* populate: the fields of a quad, and the checks they are due.            *)
Populate(at, node, defs, imports, s) ==
    IF node.kind = "end" THEN Write(s, at, [Placeholder EXCEPT !.t = "end"])
    ELSE IF node.kind = "type"
    THEN Write(s, at, [Placeholder EXCEPT !.t = "type", !.x = RawFix(node.arity)])
    ELSE
    LET head == Value(node.head, defs, imports, s)
        tail == Value(node.tail, defs, imports, head.s)
        done == Write(tail.s, at, [t |-> node.kind, x |-> head.raw, y |-> tail.raw])
        cyclic == IF node.kind \in {"pair", "dict"} /\ Local(node.tail)
                  THEN {<<tail.raw, node.kind>>} ELSE {}
    IN  [done EXCEPT !.cyclic = @ \cup cyclic,
            !.types = @ \cup (CASE node.kind = "instr" -> {<<tail.raw, {"instr", "end"}>>}
                                [] node.kind = "dict" /\ tail.raw # RawNil -> {<<tail.raw, {"dict"}>>}
                                [] node.kind = "quad" -> {<<head.raw, {"type"}>>}
                                [] OTHER -> {}),
            !.arity = @ \cup (IF node.kind = "quad" THEN {head.raw} ELSE {})]

(* Definitions that are quads get a placeholder, references to definitions *)
(* wait, and anything else has its value at once.                          *)
Define(acc, entry, imports) ==
    LET name == entry[1]
        node == entry[2]
        v == Value(node, acc.defs, imports, acc.s)
        Bound(raw) == [n \in DOMAIN acc.defs \cup {name} |-> IF n = name THEN raw ELSE acc.defs[n]]
    IN  IF IsQuad(node) THEN [s |-> Alloc(acc.s), defs |-> Bound(Ptr(Len(acc.s.rom) + 1))]
        ELSE IF Local(node) THEN acc
        ELSE [s |-> v.s, defs |-> Bound(v.raw)]

(* ref_depth: how many references there are on the way to a definition.    *)
RECURSIVE RefDepth(_, _, _)
RefDepth(name, deps, seen) ==
    IF name \in seen THEN -1
    ELSE IF deps[name] \notin DOMAIN deps THEN 0
    ELSE LET d == RefDepth(deps[name], deps, seen \cup {name})
         IN  IF d < 0 THEN -1 ELSE 1 + d

(* Mutant of InOrder: the references are resolved as they are listed.      *)
AsListed(refs, depth) == refs
(* The references in order of their depth, and as listed within it.        *)
InOrder(refs, depth) ==
    FlattenSeq([d \in 1..Len(refs) |-> SelectSeq(refs, LAMBDA e : depth[e[1]] = d - 1)])

Resolve(acc, entry, imports) ==
    LET v == Lookup(entry[2], acc.defs, imports, acc.s) IN
    [s |-> v.s,
     defs |-> [n \in DOMAIN acc.defs \cup {entry[1]} |->
                  IF n = entry[1] THEN v.raw ELSE acc.defs[n]]]

RECURSIVE Circles(_, _, _, _)
Circles(raw, kind, quads, seen) ==
    /\ raw.is = "ptr"
    /\ raw \in seen \/ (quads[raw.v].t = kind /\ Circles(quads[raw.v].y, kind, quads, seen \cup {raw}))

ChecksFail(s) ==
    \/ \E check \in s.types : check[1].is # "ptr" \/ s.rom[check[1].v].t \notin check[2]
    \/ \E check \in s.cyclic : Circles(check[1], check[2], s.rom, {})
    \/ \E raw \in s.arity : s.rom[raw.v].x # RawFix(1)

(* The first failure ends the loading of the module: what had been written *)
(* to ROM by then stays there (and is abstracted to all of it).            *)
LoadModule(ir, imports) ==
    LET start == [rom |-> rom, types |-> {}, cyclic |-> {}, arity |-> {}, failed |-> FALSE]
        placed == FoldLeft(LAMBDA acc, e : Define(acc, e, imports),
                           [s |-> start, defs |-> [n \in {} |-> Missing]], ir.define)
        refs == SelectSeq(ir.define, LAMBDA e : Local(e[2]))
        names == {refs[i][1] : i \in DOMAIN refs}
        deps == [n \in names |-> (CHOOSE e \in ToSet(refs) : e[1] = n)[2].name]
        depth == [n \in names |-> RefDepth(n, deps, {})]
        resolved == FoldLeft(LAMBDA acc, e : Resolve(acc, e, imports), placed, InOrder(refs, depth))
        quads == SelectSeq(ir.define, LAMBDA e : IsQuad(e[2]))
        loaded == FoldLeft(LAMBDA s, e : Populate(resolved.defs[e[1]].v, e[2], resolved.defs, imports, s),
                           resolved.s, quads)
        failed == \/ \E n \in names : depth[n] < 0
                  \/ loaded.failed \/ ChecksFail(loaded)
                  \/ ~(ir.export \subseteq DOMAIN resolved.defs)
    IN  [ok |-> ~failed, rom |-> loaded.rom,
         exports |-> IF failed THEN [n \in {} |-> Missing]
                     ELSE [n \in ir.export |-> resolved.defs[n]]]

-----------------------------------------------------------------------------
Init ==
    /\ world \in Worlds
    /\ promise = [m \in Modules |-> "none"] /\ exports = [m \in Modules |-> [n \in {} |-> Missing]]
    /\ rom = <<>> /\ wanted = {}

Imports(m) == world[m].import       \* from names to modules
Imported(m) == {Imports(m)[n] : n \in DOMAIN Imports(m)}

(* import_promise: a module is fetched unless it has been already, even if *)
(* that has failed.                                                        *)
Promised(new, p) ==
    [m \in Modules |-> IF m \in new /\ p[m] = "none" THEN "fetching" ELSE p[m]]

Import(m) ==        \* h_import
    /\ wanted' = wanted \cup {m}
    /\ promise' = Promised({m}, promise)
    /\ UNCHANGED <<world, exports, rom>>

Fetched(m) ==       \* and compiled
    /\ promise[m] = "fetching"
    /\ promise' = IF world[m].ok
                  THEN Promised(Imported(m), [promise EXCEPT ![m] = "waiting"])
                  ELSE [promise EXCEPT ![m] = "failed"]
    /\ UNCHANGED <<world, exports, rom, wanted>>

CanLoad(m) == promise[m] = "waiting" /\ \A i \in Imported(m) : promise[i] = "loaded"

Load(m) ==          \* Promise.all has what the imports export
    /\ CanLoad(m)
    /\ LET result == LoadModule(world[m], [n \in DOMAIN Imports(m) |-> exports[Imports(m)[n]]])
       IN  /\ promise' = [promise EXCEPT ![m] = IF result.ok THEN "loaded" ELSE "failed"]
           /\ exports' = [exports EXCEPT ![m] = result.exports]
           /\ rom' = result.rom
    /\ UNCHANGED <<world, wanted>>

(* Mutant of Reject: the failures of imports are waited for all the same.  *)
RejectWhenAll(m) ==
    /\ promise[m] = "waiting" /\ Imported(m) # {} /\ \A i \in Imported(m) : promise[i] = "failed"
    /\ promise' = [promise EXCEPT ![m] = "failed"]
    /\ UNCHANGED <<world, exports, rom, wanted>>

Reject(m) ==
    /\ promise[m] = "waiting" /\ \E i \in Imported(m) : promise[i] = "failed"
    /\ promise' = [promise EXCEPT ![m] = "failed"]
    /\ UNCHANGED <<world, exports, rom, wanted>>

Settles(m) == Fetched(m) \/ Load(m) \/ Reject(m)
Next == \E m \in Modules : (m \notin wanted /\ Import(m)) \/ Settles(m)
Spec == Init /\ [][Next]_vars

(* Fetches end, and promises are settled when they can be.  Load(m) stays  *)
(* possible until it happens, so that the last line says what              *)
(* WF_vars(Load(m)) does, in a form TLC need not load a module for.        *)
FairSpec ==
    /\ Spec
    /\ \A m \in Modules : WF_vars(Fetched(m)) /\ WF_vars(Reject(m)) /\ []<>~CanLoad(m)

-----------------------------------------------------------------------------
(* What a module means, taken from its source alone: where a node leads in *)
(* at most `fuel` references, to a node that is no reference, or nowhere.  *)
Nowhere == [at |-> "", node |-> [kind |-> "nowhere"]]
RECURSIVE Leads(_, _, _)
Leads(m, node, fuel) ==
    IF node.kind # "ref" THEN [at |-> m, node |-> node]
    ELSE LET foreign == node.module # ""
             to == IF ~foreign THEN m
                   ELSE IF node.module \in DOMAIN Imports(m) THEN Imports(m)[node.module] ELSE ""
             found == IF to = "" THEN {}
                      ELSE {e \in ToSet(world[to].define) : e[1] = node.name
                                /\ (foreign => node.name \in world[to].export)}
         IN  IF fuel = 0 \/ found = {} THEN Nowhere
             ELSE Leads(to, (CHOOSE e \in found : TRUE)[2], fuel - 1)

Fuel == 8
Goes(m, node) == Leads(m, node, Fuel)

(* The tree of a node, and the one ROM holds, down to some depth.          *)
RECURSIVE Tree(_, _, _), TreeInRom(_, _)
Tree(m, node, deep) ==
    LET to == Goes(m, node)
        kind == to.node.kind
    IN  IF deep = 0 THEN <<>>
        ELSE IF kind = "fix" THEN <<kind, to.node.n>>
        ELSE IF kind = "type" THEN <<kind, <<"fix", to.node.arity>>>>
        ELSE IF kind \in {"nil", "end", "nowhere"} THEN <<kind>>
        ELSE <<kind, Tree(to.at, to.node.head, deep - 1), Tree(to.at, to.node.tail, deep - 1)>>
TreeInRom(raw, deep) ==
    IF deep = 0 THEN <<>>
    ELSE IF raw.is = "fix" THEN <<"fix", raw.v>>
    ELSE IF raw.is # "ptr" THEN <<raw.is>>
    ELSE LET quad == rom[raw.v]
         IN  IF quad.t = "end" THEN <<"end">>
             ELSE IF quad.t = "type" THEN <<"type", <<"fix", quad.x.v>>>>
             ELSE <<quad.t, TreeInRom(quad.x, deep - 1), TreeInRom(quad.y, deep - 1)>>

(* A node is sound if it leads somewhere, instructions go on with          *)
(* instructions, entries of dictionaries with entries, types fit, and      *)
(* neither lists nor dictionaries are circular.                            *)
RECURSIVE Ends(_, _, _, _)
Ends(m, node, kind, fuel) ==
    LET to == Goes(m, node)
    IN  to.node.kind # kind \/ (fuel > 0 /\ Ends(to.at, to.node.tail, kind, fuel - 1))
RECURSIVE Sound(_, _)
Sound(m, node) ==
    LET head == Goes(m, node.head).node
        tail == Goes(m, node.tail).node
    IN  CASE node.kind = "ref" -> Goes(m, node) # Nowhere
          [] node.kind \in {"fix", "nil", "end", "type"} -> TRUE
          [] OTHER ->
             /\ Sound(m, node.head) /\ Sound(m, node.tail)
             /\ node.kind = "instr" => IsInstr(tail.kind)
             /\ node.kind = "dict" => tail.kind \in {"dict", "nil"}
             /\ node.kind = "quad" => head.kind = "type" /\ head.arity = 1
             /\ node.kind \in {"pair", "dict"} => Ends(m, node, node.kind, Fuel)
SoundModule(m) ==
    /\ \A i \in DOMAIN world[m].define : Sound(m, world[m].define[i][2])
    /\ \A n \in world[m].export : Goes(m, Ref("", n)) # Nowhere

(* ROM holds what the modules say: a module whose imports have loaded is   *)
(* loaded if it is sound and fails if not, whatever the order of its       *)
(* definitions and the references among them, and what it exports is in    *)
(* ROM as written, across modules, and stays.                              *)
LoadedRight ==
    \A m \in Modules :
        /\ promise[m] = "loaded" =>
              /\ SoundModule(m)
              /\ \A n \in world[m].export :
                    TreeInRom(exports[m][n], 4) = Tree(m, Ref("", n), 4)
        /\ (/\ promise[m] = "failed" /\ world[m].ok
            /\ \A i \in Imported(m) : promise[i] = "loaded") => ~SoundModule(m)

(* Every import settles, if the modules do not import each other in a      *)
(* circle: what fails is told to everybody who waits for it.               *)
RECURSIVE Reach(_, _)
Reach(ms, fuel) ==
    IF fuel = 0 THEN ms ELSE Reach(ms \cup UNION {Imported(m) : m \in ms}, fuel - 1)
Circular(m) ==
    \E i \in Reach({m}, Cardinality(Modules)) :
        world[i].ok /\ i \in Reach(Imported(i), Cardinality(Modules))
Settled(m) == promise[m] \in {"loaded", "failed"}
ImportsSettle == \A m \in Modules : m \in wanted /\ ~Circular(m) ~> Settled(m)

(* Violated: loader.js:478, "cyclic module dependencies cause a deadlock,  *)
(* but they should instead fail with an error".                            *)
CyclesFail == \A m \in Modules : m \in wanted ~> Settled(m)
=============================================================================
