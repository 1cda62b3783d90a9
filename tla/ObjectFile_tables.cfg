SPECIFICATION Spec
CONSTANTS
  Words = {f, g}
  MAXKEY = 2
  elf_hash <- TwoChains
  MaxEvents = 5
  MaxBlocks = 2
INVARIANTS
  HashChains
  SymbolsIndexed
  RelocsNamed
  EntriesCurrent
PROPERTY EntriesStay
SYMMETRY WordSymmetry
