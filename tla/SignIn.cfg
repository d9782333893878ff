\* Two sign-ins at a time beside the periodic check.
CONSTANTS
    Max = 1
    Window = 2
    Lead = 1
    Requests = {r1, r2}
SPECIFICATION SysFairSpec
INVARIANTS LatchEarned OncePerWindow MutedOnlyByMail
PROPERTIES NoNeedlessRejection OutageReported RefusalsReported
