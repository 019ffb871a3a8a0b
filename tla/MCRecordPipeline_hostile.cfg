\* Everything GStreamer, uMediaServer and the service can do, for every kind of pipeline.
CONSTANT Kinds = {"Video", "Audio", "Snapshot", "nothing"}
SPECIFICATION FairSpec
INVARIANTS TypeOK SingleUnload DrawsLive EndIsTold GivenBackOnce
PROPERTIES Finalised ImplementsContract ImplementsFairness
\* The process ends.
CHECK_DEADLOCK FALSE
