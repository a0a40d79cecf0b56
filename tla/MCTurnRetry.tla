---------------------------- MODULE MCTurnRetry ----------------------------
\* Small instances of TurnRetry for TLC.
EXTENDS TurnRetry

MCDelays == <<1>>

\* A retried capacity failure, a retried policy failure and a success.
Overloaded == <<"failed", "serverOverloaded">>
CyberFlag  == <<"failed", "cyberPolicy">>
Completed  == <<"completed", "none">>

MCOutcomes == {Overloaded, CyberFlag, Completed}

\* Nothing has been sent, and nobody is at work on the record.
Start ==
    /\ mem = disk /\ pc = "free" /\ op = "none"
    /\ obs = NoObservation /\ dec = NoDecision
    /\ incarnation = 1
    /\ latest = NoObservation
    /\ ledger = [i \in Ids |-> "absent"]
    /\ turnOf = [i \in Ids |-> 0]
    /\ nextId = 1 /\ moves = 0
    /\ sent = <<>> /\ receipts = {} /\ barred = {} /\ old = {}

\* A managed thread just created (StartThread) in a session whose policy has
\* been bootstrapped (BootstrapPolicy) and that the worker has opened once.
ManagedInit ==
    /\ disk = Enroll([New EXCEPT !.Boundary = 1], NoObservation)
    /\ Start /\ nextTurn = 1
    /\ policy = PreparePolicy(NoPolicy, disk, TRUE, TRUE, TRUE)

\* An unmanaged thread without a policy, Init but for the number of its first
\* turn: it has one turn less to come.
UnmanagedInit == disk = New /\ Start /\ nextTurn = 2 /\ policy = NoPolicy

MCSpec == (UnmanagedInit \/ ManagedInit) /\ [][Next]_vars
=============================================================================
