\* Does every request get exactly one status line?
SPECIFICATION Spec
CONSTANTS
    MaxReqs = 1
    IntMax = 2
INVARIANT StatusExactlyOnce
