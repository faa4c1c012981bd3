SPECIFICATION Spec
CHECK_DEADLOCK FALSE
SYMMETRY Processes
CONSTANTS
  research = research  lab = lab  w1 = w1  w2 = w2
  Home = {1, 2, 3}
  Packet = {1, 2}
  Constitution = {research, lab}
  Under <- MCUnder
  Public = {2}
  Perishable = {2}
  Writes <- MCWrites
  Chosen <- MCChosen
  Installs <- MCInstalls
  Follows <- MCFollows
  Serves = {3}
  Worker = {w1, w2}
  NoWorker = NoWorker
  MaxCommands = 4
  MaxCrashes = 1
INVARIANTS
  TypeOK
  
  
  FollowsExplained
  OneServerUnlessRaced
 
