SPECIFICATION SafeSpec
INVARIANT AwaitAssertHolds
