SPECIFICATION LiveSpec
CONSTANTS
  Models <- MCModels
  Bucket = 2
  Receivers = 2
  Updates = 2
  Engines = {"nixl", "nccl", "hccl", "mooncake"}
  Adapters = {"vllm", "sglang"}
CHECK_DEADLOCK FALSE
INVARIANTS LoadedWhole UpdateComplete
 
