SPECIFICATION Spec
CONSTANTS
  Samples <- MCSamples
  DpSize = 2
  SpSize = 2
  MiniBatch = 4
  CriticMiniBatch = 0
  Epochs = 1
  Shuffle = TRUE
  MaxTokenLen = 7
  Modes = {"token-mean", "seq-mean-token-sum", "seq-mean-token-mean"}
  NumWorkers = 3
INVARIANTS OutputsAligned GradientInvariant SameForwards
