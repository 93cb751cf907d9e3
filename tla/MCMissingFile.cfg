CONSTANT Extensions = {"wav", "flac", "mp3"}
SPECIFICATION Spec
INVARIANT FailureIsReported
