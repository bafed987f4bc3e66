---------------------------- MODULE ModuleSearch ----------------------------
(***************************************************************************)
(* How an import string finds a directory                                   *)
(* (src/src/compiler/module_resolver.cpp, resolve_import_path).  A          *)
(* directory is a number, so that the ordering of std::set over paths is    *)
(* the ordering of numbers; an import string is a name.                     *)
(***************************************************************************)
EXTENDS Integers, Sequences, FiniteSets

CONSTANTS
    Dirs,    \* directories of the file system
    Names,   \* import strings
    NoDir,   \* the empty path
    Join,    \* Join[d][n]: the directory the path d/n names, NoDir if absolute
    Within,  \* Within[d]: the directories whose canonical path starts with d's
    Roots    \* the usable search roots 3 to 5, in order: cwd, compiler, lib, std

ASSUME DirsAssumption == Dirs \subseteq Nat \ {0} /\ IsFiniteSet(Dirs) /\ NoDir \notin Dirs
ASSUME JoinAssumption == Join \in [Dirs -> [Names -> Dirs \cup {NoDir}]]
ASSUME WithinAssumption == Within \in [Dirs -> SUBSET Dirs]
ASSUME RootsAssumption == Roots \in Seq(Dirs)

\* What d/n names, unless it leads out of d.
Contained(d, n) == IF Join[d][n] \in Within[d] THEN Join[d][n] ELSE NoDir

\* The directories tried, in order: the importing module's own, which an import may lead
\* out of, then the root module's and the fixed roots, which it may not.
Candidates(importer, n, root) ==
    <<Join[importer][n], Contained(root, n)>> \o [i \in 1 .. Len(Roots) |-> Contained(Roots[i], n)]

\* The first candidate that is a directory, or NoDir.
resolve_import_path(exists, importer, n, root) ==
    LET c == Candidates(importer, n, root)
        hits == {i \in 1 .. Len(c) : c[i] \in exists}
    IN IF hits = {} THEN NoDir ELSE c[CHOOSE i \in hits : \A j \in hits : i <= j]

\* What a module imports, once resolved: the edges of the module graph.
Targets(exists, imports, d, root) ==
    {resolve_import_path(exists, d, n, root) : n \in imports[d]} \ {NoDir}

\* Everything reachable from a set of directories (the meaning of visit): the least set
\* that contains them and the targets of its members.
Closure(exists, imports, from, root) ==
    {d \in Dirs : \A S \in SUBSET Dirs :
        from \subseteq S /\ (\A e \in S : Targets(exists, imports, e, root) \subseteq S) => d \in S}
=============================================================================
