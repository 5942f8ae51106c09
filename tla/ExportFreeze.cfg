SPECIFICATION Spec
CONSTANTS
  Trees = {t1, t2}
  Names = {1, 2, 3}
  Elfs = {{}, {2}, {1, 2}, {2, 3}}
INVARIANTS FrozenReadable DllServesFrozen ImportsMatchTable
PROPERTIES ImplementsRegistry
