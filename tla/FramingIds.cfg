CONSTANT Ids = {0, 1, 4660, 32767, 32768, 65535}

SPECIFICATION Spec

\* A scan error ends the session: nothing more is read.
CHECK_DEADLOCK FALSE
INVARIANT IdRoundTrip
