SPECIFICATION Spec
CONSTANTS
  Sources <- MCSources
  Keywords <- MCKeywords
  elf_hash <- MCHash
PROPERTY FindEnds
