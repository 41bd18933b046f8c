SPECIFICATION HeapSpec
CONSTANTS
  PageSize = 8
  HeaderSize = 1
  Grain = 1
  BitsPerByte = 1
  init_page_map_size = 1
  block_size <- BlockSize
  block_chain <- BlockChain
  Sizes = {2, 8, 16}
  MaxSize = 96
  MaxObjects = 4
INVARIANTS
  SegmentsTile
  BlocksSound
  PageMapCovers
  PagesApart
  HeaderFound
PROPERTIES
  ImplementsObjectHeap
