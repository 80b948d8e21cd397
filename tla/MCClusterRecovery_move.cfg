\* A client that moves between three nodes, in the largest mixes of mishaps under
\* which one of the properties says something: a step that a mix allows is allowed
\* by every larger one.
CONSTANTS
  Node = {n1, n2, n3}
  Bcast = {b1, b2}
  MaxAttempts = 3
  MaxSkew = 0
  Modes = {{"abandon"}, {"abandon", "split", "expire"}, {"abandon", "loss", "expire"}}
SPECIFICATION Spec
SYMMETRY Symmetry
INVARIANTS SessionConserved 
CHECK_DEADLOCK FALSE
