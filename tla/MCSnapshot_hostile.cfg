\* Five snapshots, and all that can happen to them.
CONSTANT MaxSnapshots = 5
SPECIFICATION Spec
INVARIANTS TypeOK PollSound NeverGivenUp SubscriptionsCancelled MapUnshared HandlersAlive
\* The recorder is closed, or hangs in wait() after a refused subscription.
CHECK_DEADLOCK FALSE
