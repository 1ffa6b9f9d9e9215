\* addPeer / rmPeer calls one after another.
CONSTANTS
    self = self
    q1 = q1
    q2 = q2
    h1 = h1
    h2 = h2
    Self = self
    Others <- MCOthers
    Handlers <- MCOneHandler
    MaxCalls = 4
SPECIFICATION Spec
INVARIANT MembershipConsistent
\* Once the calls are used up the peer manager is idle for good.
CHECK_DEADLOCK FALSE
