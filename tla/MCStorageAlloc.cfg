SPECIFICATION Spec
CONSTANTS
  PageSize = 512
  HeaderSize = 8
  Grain = 8
  BitsPerByte = 8
  init_page_map_size = 8
  block_size <- BlockSize512
  block_chain <- BlockChain512
  Sizes = {160, 248, 504}
  MaxSize = 2048
  MaxObjects = 2
INVARIANTS
  CurrOnChain
PROPERTIES
  ImplementsObjectHeap
