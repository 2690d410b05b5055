\* The seven generated codecs over the cases of MC_EventsCodec.
SPECIFICATION Spec
\* A behaviour is one encode and decode; it stops when the decode returns.
CHECK_DEADLOCK FALSE
INVARIANT RoundTrip
INVARIANT DecodesWellFormed
INVARIANT RejectsMalformed
INVARIANT NeverPanics
