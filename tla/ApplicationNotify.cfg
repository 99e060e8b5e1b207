SPECIFICATION SafeSpec
INVARIANT SignalledEndsCorrectly
