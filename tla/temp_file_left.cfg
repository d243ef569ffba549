SPECIFICATION Spec
CONSTANTS
  good = good
  wrong = wrong
  bare = bare
  odd = odd
  noisy = noisy
  Runs = {r1, r2}
  Programs = {good, wrong, odd, noisy, bare}
  Translatable = {good, wrong, noisy, bare}
  Decodable = {good, wrong, noisy}
  Compilable = {good}
  Messages <- MCMessages
  PipeSize = 2
  Chunks = 2
  None = None
PROPERTIES
  TempFileIsDeleted
