\* Three clients, one project, one alias.
SPECIFICATION Spec
CONSTANTS
  r1 = r1
  r2 = r2
  r3 = r3
  Requests = {r1, r2, r3}
  Projects = {p1}
  Aliases = {a}
  NoAlias = NoAlias
  NoProject = NoProject
  Nobody = Nobody
  MaxCalls = 4
\* Once the bounded calls are answered nothing is left to do.
CHECK_DEADLOCK FALSE
SYMMETRY Symmetry
INVARIANTS
  TypeOK
  NumbersAreFresh
  AliasNamesOne
  ProjectsNotReplaced
  OneAtTheCounter
PROPERTY NeverSetBack
