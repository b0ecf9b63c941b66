SPECIFICATION Spec
CONSTANTS
  Char = {x, nl}
  Newline = nl
  Zero = zero
  Junk = junk
  EOF = eof
  BufSize = 2
  MaxFile = 3
  Modes <- MCModes
  Careful = FALSE
INVARIANT NoJunk
