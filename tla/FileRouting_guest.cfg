SPECIFICATION FilesSpec
INVARIANT SandboxedIsTaken
CHECK_DEADLOCK FALSE
