SPECIFICATION Spec
CONSTANT Instances = {"asks", "sessions", "rivals", "child", "http", "calls", "posts"}
INVARIANT AsksAreClosedOnce
INVARIANT ServersAreOwned
PROPERTY WaitsEnd
CHECK_DEADLOCK FALSE
