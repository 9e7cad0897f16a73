---------------------------- MODULE SemanticDiff ----------------------------
(***************************************************************************)
(* The comparison of two versions of a configuration (canonical.py:        *)
(* semantic_diff) as a walk over both, and what it should find.            *)
(*                                                                         *)
(* Abstractions.  A value is a tree: a function from the paths at which it *)
(* has something (sequences of keys and indices) to what is there, a dict, *)
(* a list or a scalar.  The code joins a path to one text, which two paths *)
(* can share when keys contain dots (canonical.py:416); here they differ.  *)
(* The recursive calls that are still to be made are a set of paths, of    *)
(* which any is the next: the code makes them in the order of keys and     *)
(* indices.  Old and new values of a change, redacted, follow from its     *)
(* path and are left out.                                                  *)
(***************************************************************************)
EXTENDS Naturals, Sequences, FiniteSets, SequencesExt

CONSTANTS Steps,     \* keys and indices
          Sensitive, \* steps that make a change relevant for security
          Scalars,
          Values,    \* what is compared
          DiffLimits \* 256 in the code

Containers == {"dict", "list"}

\* Whatever has something below it is a container.
Tree(v) ==
  /\ DOMAIN v \subseteq Seq(Steps) /\ IsFiniteSet(DOMAIN v)
  /\ v \in [DOMAIN v -> Containers \cup Scalars]
  /\ <<>> \in DOMAIN v
  /\ \A path \in DOMAIN v :
       path # <<>> => Front(path) \in DOMAIN v /\ v[Front(path)] \in Containers

ASSUME DiffAssumption ==
  /\ DiffLimits \subseteq Nat \ {0}
  /\ "missing" \notin Scalars
  /\ \A v \in Values : Tree(v)

VARIABLES old, new, limit,
          diff,     \* none, walking, or returned
          todo,     \* paths of the calls still to be made
          changes

diffVars == <<old, new, limit, diff, todo, changes>>

DiffInit ==
  /\ old = <<>> /\ new = <<>> /\ limit = 0
  /\ diff = "none"
  /\ todo = {}
  /\ changes = <<>>

Compare ==
  /\ diff = "none"
  /\ old' \in Values /\ new' \in Values /\ limit' \in DiffLimits
  /\ diff' = "walking"
  /\ todo' = {<<>>}
  /\ UNCHANGED changes
-----------------------------------------------------------------------------
(* The walk *)

There(v, path) == IF path \in DOMAIN v THEN v[path] ELSE "missing"

SameContainer(path) ==
  There(old, path) = There(new, path) /\ There(old, path) \in Containers

\* Where only the old value is looked into.
OldBelow(path) == {p \in DOMAIN old : p # <<>> /\ Front(p) = path}

\* Every key and index of either of two containers.
Below(path) == {p \in DOMAIN old \cup DOMAIN new : p # <<>> /\ Front(p) = path}

Difference(path) ==
  [path |-> path,
   severity |-> IF \E i \in DOMAIN path : path[i] \in Sensitive THEN "HIGH" ELSE "MEDIUM",
   operation |-> IF There(old, path) = "missing" THEN "add"
                 ELSE IF There(new, path) = "missing" THEN "remove" ELSE "replace"]

Truncated == [path |-> <<>>, severity |-> "HIGH", operation |-> "truncated"]

\* At the limit nothing is looked at or added any more.
Visit(path) ==
  /\ diff = "walking" /\ path \in todo
  /\ IF Len(changes) >= limit
     THEN todo' = todo \ {path} /\ UNCHANGED changes
     ELSE IF SameContainer(path)
     THEN todo' = (todo \ {path}) \cup Below(path) /\ UNCHANGED changes
     ELSE /\ todo' = todo \ {path}
          /\ changes' = IF There(old, path) = There(new, path) THEN changes
                        ELSE Append(changes, Difference(path))
  /\ UNCHANGED <<old, new, limit, diff>>

WalkReturns ==
  /\ diff = "walking" /\ todo = {}
  /\ diff' = "returned"
  /\ changes' = IF Len(changes) = limit THEN Append(changes, Truncated) ELSE changes
  /\ UNCHANGED <<old, new, limit, todo>>

Diff ==
  \/ Compare
  \/ \E path \in todo : Visit(path)
  \/ WalkReturns

DiffSpec == DiffInit /\ [][Diff]_diffVars
-----------------------------------------------------------------------------
(* What it should find *)

\* The paths at which the values differ although both are the same container
\* everywhere on the way.
Changed ==
  {path \in DOMAIN old \cup DOMAIN new :
     /\ There(old, path) # There(new, path)
     /\ \A n \in 0..(Len(path) - 1) : SameContainer(SubSeq(path, 1, n))}

IsTruncated == changes # <<>> /\ Last(changes) = Truncated
Named == IF IsTruncated THEN Front(changes) ELSE changes
Paths(named) == {named[i].path : i \in DOMAIN named}

\* A diff names every path that changed, once, as what happened there, and
\* nothing else: an empty one means that nothing changed.  At the limit it names
\* as many as fit and ends with a record that says so, never silently
\* (canonical.py:432).
DiffNamesEveryChange ==
  diff = "returned" =>
    /\ Paths(Named) \subseteq Changed /\ Cardinality(Paths(Named)) = Len(Named)
    /\ IsTruncated <=> Cardinality(Changed) >= limit
    /\ ~IsTruncated => Paths(Named) = Changed
    /\ changes = <<>> <=> old = new
    /\ \A i \in DOMAIN Named : Named[i] = Difference(Named[i].path)
=============================================================================
