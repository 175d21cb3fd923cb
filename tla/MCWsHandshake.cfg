CONSTANTS
  Request <- MCRequest
  Target <- MCTarget
SPECIFICATION HandshakeSpec
INVARIANTS ProperIsServed DialLeavesNothing NegotiationAgrees
CHECK_DEADLOCK FALSE
