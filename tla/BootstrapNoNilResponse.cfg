CONSTANT MaxSlash = 1

SPECIFICATION Spec

\* TestConnection stops being callable once the process has died.
CHECK_DEADLOCK FALSE
INVARIANT NoNilResponse
