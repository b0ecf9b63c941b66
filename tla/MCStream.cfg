SPECIFICATION Spec
CONSTANTS
  Char = {x, nl}
  Newline = nl
  Zero = zero
  Junk = junk
  EOF = eof
  BufSize = 2
  MaxFile = 4
  Modes <- MCModes
  Careful = TRUE
INVARIANTS EofIsTheEnd NoJunk
PROPERTIES ImplementsByteFile
VIEW Unobserved
