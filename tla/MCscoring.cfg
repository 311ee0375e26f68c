SPECIFICATION Spec
CONSTANT Batches <- MCBatches
INVARIANTS RewardOrder MaskedHasNoGradient VectorizedAgrees
INVARIANTS ObservationsInvisible SessionsCountOnce
CHECK_DEADLOCK FALSE
