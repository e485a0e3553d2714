CONSTANT Programs <- Streams
SPECIFICATION Spec
CHECK_DEADLOCK FALSE
INVARIANT EmitsWhatIsAsked
