SPECIFICATION Spec
CONSTANT WaitErrors = {"lost", "memory"}
INVARIANTS NothingOutlivesCall DestroysLiveObjectsOnce OnlyAFailedWaitUncovers PixelsAreFinished
CHECK_DEADLOCK FALSE
