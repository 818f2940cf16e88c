----------------------------- MODULE MCLifecycle -----------------------------
EXTENDS Lifecycle, TLC

CONSTANTS o1, o2, q1, q2

OwnQuota == (o1 :> q1) @@ (o2 :> q2)
AllOrNone == {{}, Orgs}
Q1OrAll == {{q1}, Quotas}

\* With a Cluster Agent (with and without its token, and without anything to stream
\* from) and with the Cloud Controller (with and without access control).
SomeConfigs == {c \in Config :
    \/ /\ c.DCAEnabled /\ ~c.CloudControllerEndpoint /\ ~c.DisableAccessControl
       /\ c.DCAToken = c.RLPGatewayURL
    \/ ~c.DCAEnabled /\ ~c.DCAToken /\ c.CloudControllerEndpoint /\ ~c.RLPGatewayURL}
=============================================================================
