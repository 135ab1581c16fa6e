\* A full block is 2 bytes; packets of up to 6 bytes span three of them.
CONSTANTS
    MaxCode = 3
    MaxLen = 6
    Packets <- MCPackets
    Frames <- MCPackets
SPECIFICATION CodecSpec
INVARIANTS FrameDelimited FrameBound DecodedFits StripsOnlyPadding RoundTrip
\* the machine stops once the packet is decoded
CHECK_DEADLOCK FALSE
