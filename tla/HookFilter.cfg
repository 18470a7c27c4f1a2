SPECIFICATION Spec
INVARIANT PassthroughAsSpecified
