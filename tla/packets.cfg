SPECIFICATION Spec
CONSTANTS
    Outgoing <- Sent
    MaxTransactionID <- LargestInt
    MaxSendSize = 13
    MaxReceiveSize = 12
    QueueSize = 2
INVARIANTS SizesTruthful
PROPERTIES ImplementsLink
