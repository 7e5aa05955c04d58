----------------------------- MODULE MCBrokerQueue -----------------------------
EXTENDS BrokerQueue

Retries == [j \in Job |-> 1]

=============================================================================
