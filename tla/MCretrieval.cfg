SPECIFICATION RetrievalSpec
CONSTANTS
  a = a
  b = b
  Queries = {a, b}
  Blank = Blank
  Hits <- MCHits
  LastDoc = 3
  Topks = {0, 1}
  DefaultTopk = 2
  Chars = {1200}
  Capacity = 2
  BatchSize = 2
  MaxAsked = 8
PROPERTY ToolUnaffected
