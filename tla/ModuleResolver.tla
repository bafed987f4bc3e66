--------------------------- MODULE ModuleResolver ---------------------------
(***************************************************************************)
(* ast::resolve (src/src/compiler/module_resolver.cpp): the depth-first     *)
(* walk that loads every module the root module reaches, then the modules   *)
(* forced with '--load'.  The recursion of visit is a stack of frames.      *)
(* Parsing a directory yields its import strings in file order and whether  *)
(* it reported an error; a file that fails to lex contributes no imports.   *)
(***************************************************************************)
EXTENDS ModuleSearch

CONSTANTS
    MaxImports,  \* bound: import strings per module
    MaxForced,   \* bound: forced modules
    MaxBroken    \* bound: directories whose files report an error

ASSUME BoundsAssumption == {MaxImports, MaxForced, MaxBroken} \subseteq Nat

VARIABLES
    \* inputs
    exists,          \* the directories that exist
    imports,         \* the import strings each directory's files yield
    broken,          \* the directories whose files report an error
    root,            \* root_module_path, canonicalized
    forced,          \* ResolveOptions::forced_modules
    stdBad,          \* '--std=' names no directory
    \* the program being built
    modules, module_order, module_imports, ok,
    loaded,          \* how many of the forced modules have been handled
    hasErrors,       \* the diagnostic engine holds an error
    stack,           \* the active calls of visit
    phase            \* "start", "walk", "done"

inputs == <<exists, imports, broken, root, stdBad, forced>>
vars == <<inputs, loaded, modules, module_order, module_imports, ok, hasErrors, stack, phase>>

ImportLists == UNION {[1 .. k -> Names] : k \in 0 .. MaxImports}
ForcedLists == UNION {[1 .. k -> Names] : k \in 0 .. MaxForced}

Init ==
    /\ exists \in SUBSET Dirs
    /\ \A d \in exists : {e \in Dirs : d \in Within[e]} \subseteq exists   \* with the directories above
    /\ broken \in {b \in SUBSET Dirs : Cardinality(b) <= MaxBroken}
    /\ imports \in [Dirs -> ImportLists]
    /\ root \in Dirs /\ stdBad \in BOOLEAN
    /\ forced \in ForcedLists /\ loaded = 0
    /\ modules = {} /\ module_order = <<>> /\ module_imports = [d \in Dirs |-> {}]
    /\ ok = FALSE /\ hasErrors = FALSE /\ stack = <<>> /\ phase = "start"

MutPresentNested(d, frames) == d \in modules \/ Len(frames) > 1
\* try_emplace found the module already loaded
present(d, frames) == d \in modules

MutFirstImport(d) == IF imports[d] = <<>> THEN <<>> ELSE <<imports[d][1]>>
find_import_strings(d) == imports[d]

MutRecord(d) == <<d>> \o module_order
\* module_order.push_back, before the module is parsed
Record(d) == Append(module_order, d)

\* a module already present is tried again and again
MutVisit(d, frames, errors) ==
    IF present(d, frames)
    THEN stack' = stack /\ hasErrors' = errors /\ UNCHANGED <<modules, module_order>>
    ELSE /\ modules' = modules \cup {d}
         /\ module_order' = Record(d)
         /\ stack' = <<[dir |-> d, todo |-> find_import_strings(d)]>> \o frames
         /\ hasErrors' = (errors \/ d \in broken)
\* visit: a module already present is left alone; a new one is recorded and parsed,
\* and its imports become the work of a new frame
visit(d, frames, errors) ==
    IF present(d, frames)
    THEN stack' = frames /\ hasErrors' = errors /\ UNCHANGED <<modules, module_order>>
    ELSE /\ modules' = modules \cup {d}
         /\ module_order' = Record(d)
         /\ stack' = <<[dir |-> d, todo |-> find_import_strings(d)]>> \o frames
         /\ hasErrors' = (errors \/ d \in broken)

MutUnresolved == UNCHANGED hasErrors
\* "cannot resolve import path": reported, and the loop goes on
Unresolved == hasErrors' = TRUE

\* the checks of resolve before the walk
Start ==
    /\ phase = "start"
    /\ IF root \notin exists \/ stdBad
       THEN /\ hasErrors' = TRUE /\ phase' = "done"
            /\ UNCHANGED <<modules, module_order, stack>>
       ELSE phase' = "walk" /\ visit(root, <<>>, FALSE)
    /\ UNCHANGED <<inputs, loaded, module_imports, ok>>

\* the loop of visit over the import strings of the module on top of the stack
Import ==
    /\ phase = "walk" /\ stack # <<>> /\ Head(stack).todo # <<>>
    /\ LET d == Head(stack).dir
           n == Head(Head(stack).todo)
           t == resolve_import_path(exists, d, n, root)
           rest == <<[dir |-> d, todo |-> Tail(Head(stack).todo)]>> \o Tail(stack)
       IN IF t = NoDir
          THEN /\ Unresolved /\ stack' = rest
               /\ UNCHANGED <<modules, module_order, module_imports>>
          ELSE /\ module_imports' = [module_imports EXCEPT ![d] = @ \cup {<<n, t>>}]
               /\ visit(t, rest, hasErrors)
    /\ UNCHANGED <<inputs, loaded, ok, phase>>

\* visit returns to its caller
Return ==
    /\ phase = "walk" /\ stack # <<>> /\ Head(stack).todo = <<>>
    /\ stack' = Tail(stack)
    /\ UNCHANGED <<inputs, loaded, modules, module_order, module_imports, ok, hasErrors, phase>>

\* a forced module, searched from the root module and bound to no name
ForceLoad ==
    /\ phase = "walk" /\ stack = <<>> /\ loaded < Len(forced)
    /\ loaded' = loaded + 1
    /\ LET t == resolve_import_path(exists, root, forced[loaded'], root)
       IN IF t = NoDir
          THEN Unresolved /\ UNCHANGED <<modules, module_order, stack>>
          ELSE visit(t, <<>>, hasErrors)
    /\ UNCHANGED <<inputs, module_imports, ok, phase>>

Finish ==
    /\ phase = "walk" /\ stack = <<>> /\ loaded = Len(forced)
    /\ ok' = ~hasErrors /\ phase' = "done"
    /\ UNCHANGED <<inputs, loaded, modules, module_order, module_imports, hasErrors, stack>>

Done == phase = "done" /\ UNCHANGED vars

Next == Start \/ Import \/ Return \/ ForceLoad \/ Finish \/ Done
Spec == Init /\ [][Next]_vars
FairSpec == Spec /\ WF_vars(Next)

-----------------------------------------------------------------------------
(* Properties. *)

Elems(s) == {s[i] : i \in 1 .. Len(s)}

\* What a forced module resolves to, the first k of them.
ForcedDirs(k) == {resolve_import_path(exists, root, forced[i], root) : i \in 1 .. k} \ {NoDir}

\* The order is first-reached: every module but the root and the forced ones comes
\* after a module that imports it.
ImportersComeFirst ==
    \A i \in 1 .. Len(module_order) :
        \/ module_order[i] \in {root} \cup ForcedDirs(loaded)
        \/ \E j \in 1 .. i - 1, n \in Names : <<n, module_order[i]>> \in module_imports[module_order[j]]

\* Every recorded import leads to a loaded module, so looking an import's target up
\* in 'modules' cannot miss; and one import string has one target per importer.
ImportsLeadToModules ==
    \A d \in Dirs : \A e, f \in module_imports[d] :
        /\ d \in modules /\ e[2] \in modules
        /\ e[1] = f[1] => e[2] = f[2]

\* The walk loads exactly what is reachable, whatever cycles the imports form.
LoadsTheClosure ==
    phase = "done" /\ root \in exists /\ ~stdBad =>
        modules = Closure(exists, [d \in Dirs |-> Elems(imports[d])], {root} \cup ForcedDirs(Len(forced)), root)

\* ok promises sema a complete program: every import string of every module resolved.
OkMeansComplete ==
    ok => /\ root \in modules
          /\ \A d \in modules : /\ d \notin broken
                                /\ {e[1] : e \in module_imports[d]} = Elems(imports[d])

\* Import cycles do not keep the walk from ending.
Terminates == <>(phase = "done")
=============================================================================
