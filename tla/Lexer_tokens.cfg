SPECIFICATION Spec
CONSTANTS
  Sources <- MCSources
  Keywords <- MCKeywords
  elf_hash <- MCHash
INVARIANTS
  TokensOfText
  WordsCoded
  ChainsExact
PROPERTY EndReached
