CONSTANTS
  Pipes = {p1, p2, p3}
  NSlots = 2
  Kinds = {"fq", "fq_inproc", "lb"}
SPECIFICATION FairSpec
INVARIANTS Sound
PROPERTIES StreamPipesServed
