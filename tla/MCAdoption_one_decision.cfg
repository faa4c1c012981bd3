SPECIFICATION Spec
CONSTANTS
  Agents = {a1, a2}
  Handshakes = {h1}
  Requests = {r1}
  Decisions = {yes1, yes2, no1}
  Accepting = {yes1, yes2}
  NoName = NoName
  MaxCrashes = 0
INVARIANT OneDecision
SYMMETRY Symmetry
