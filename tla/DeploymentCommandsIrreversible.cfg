CONSTANTS
  Clients = {x1, x2}
  Commands = {k1, k2, k3}
  Required = {k1, k2, k3}
  Reversible = {k1, k3}
  MaxVersion = 9
SPECIFICATION Spec
INVARIANT IrreversibleRequiresNewRecovery
