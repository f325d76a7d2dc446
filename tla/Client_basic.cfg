\* Every client event and the server's ordering, up to five frames sent and
\* two groups created in turn.
CONSTANTS
    MaxSends = 5
    MaxIncarnations = 2
SPECIFICATION Spec
INVARIANT TypeOK
INVARIANT CodecRoundTrip
