------------------------- MODULE ComponentRegistry -------------------------
(***************************************************************************)
(* packages/rp/component-runtime: resolve() walks the components asked for *)
(* depth first and returns them with what they depend on, dependencies     *)
(* first.  "known" is the registry, a function from id to component; a     *)
(* dependency is [id, version, optional].                                  *)
(***************************************************************************)
EXTENDS Naturals, SequencesExt

CONSTANT None

(* The first check that fails, or "none".                                  *)
FirstRefusal(checks) ==
  LET failing == SelectSeq(checks, LAMBDA c : c[2]) IN IF failing = <<>> THEN "none" ELSE failing[1][1]

ComponentRefusal(request, walk, c, dep) ==
  FirstRefusal(<<
    <<"VERSION", dep.version \notin {None, c.version}>>,
    <<"CYCLE", c.id \in walk.visiting>>,
    <<"SCOPE", request.scope \notin c.scopes>>,
    <<"CAPABILITY", ~(c.requires \subseteq request.granted)>> >>)

(* A component that was resolved before is not looked at again.             *)
RECURSIVE VisitComponent(_, _, _, _)
VisitComponent(known, request, walk, dep) ==
  IF walk.code # "none" \/ dep.id \in ToSet(walk.resolved) THEN walk
  ELSE IF dep.id \notin DOMAIN known
  THEN IF dep.optional THEN walk ELSE [walk EXCEPT !.code = "MISSING"]
  ELSE LET c == known[dep.id]
           code == ComponentRefusal(request, walk, c, dep)
           below == FoldLeft(LAMBDA w, next : VisitComponent(known, request, w, next),
                             [walk EXCEPT !.visiting = @ \cup {c.id}], c.deps)
       IN  IF code # "none" THEN [walk EXCEPT !.code = code]
           ELSE [below EXCEPT !.visiting = @ \ {c.id},
                              !.resolved = IF below.code = "none" THEN Append(@, c.id) ELSE @]

Asked(id) == [id |-> id, version |-> None, optional |-> FALSE]
Resolve(known, request) ==
  LET walk == FoldLeft(LAMBDA w, id : VisitComponent(known, request, w, Asked(id)),
                       [code |-> IF request.components = <<>> THEN "INVALID" ELSE "none",
                        visiting |-> {}, resolved |-> <<>>], request.components)
  IN  [request |-> request, code |-> walk.code,
       components |-> IF walk.code = "none"
                      THEN [i \in DOMAIN walk.resolved |-> known[walk.resolved[i]]] ELSE <<>>]

-----------------------------------------------------------------------------
Place(composition, id) ==
  {i \in DOMAIN composition.components : composition.components[i].id = id}
Closed(composition) ==
  \A i \in DOMAIN composition.components :
    LET c == composition.components[i]
    IN  /\ Place(composition, c.id) = {i}
        /\ composition.request.scope \in c.scopes /\ c.requires \subseteq composition.request.granted
        /\ \A dep \in ToSet(c.deps) : ~dep.optional => \E k \in Place(composition, dep.id) : k < i
=============================================================================
