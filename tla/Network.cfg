SPECIFICATION Spec
INVARIANTS OperationsOnce PairingRight
PROPERTIES SocketsOwned CallsEnd
CHECK_DEADLOCK FALSE
