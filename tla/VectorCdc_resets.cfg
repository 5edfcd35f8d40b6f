SPECIFICATION WordFairSpec
CONSTANTS
  Data = {0, 1, 2}
  Zero = 0
  DResets = 2
  QResets = 2
INVARIANTS NeverStuck
PROPERTIES WordsArrive
