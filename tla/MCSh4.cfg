SPECIFICATION BenchSpec
CONSTANTS
  W = 4
  Operands = {7, 8, 9}
INVARIANTS MapsAreSearches InstructionsTrue TranslationTrue
