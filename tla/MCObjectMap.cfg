SPECIFICATION Spec
CONSTANTS
  Addresses = {o1, o2}
  Bodies = {h1, h2, h3, h4}
  Vars = {kept, loose}
  Careful = {kept}
SYMMETRY Symmetric
INVARIANTS TypeOK RoundTrip PerlKeepsBody
