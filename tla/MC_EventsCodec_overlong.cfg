\* Tags the wire format does not allow, decoded by the generated code.
SPECIFICATION Spec
\* A behaviour is one encode and decode; it stops when the decode returns.
CHECK_DEADLOCK FALSE
INVARIANT RejectsOverlongTags
