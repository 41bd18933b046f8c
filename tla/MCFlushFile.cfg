SPECIFICATION Spec
CONSTANTS
  MaxPages = 3
  Quantum = 2
  Value = {1, 2}
  Zero = 0
  Mode = {"copy_on_write_map", "load_in_memory"}
PROPERTIES
  ImplementsAtomicFile
