---------------------------- MODULE OrderedInbox ----------------------------
(***************************************************************************)
(* What the mailbox of a session promises to the channels that feed it and *)
(* to the readers of its event log, without leases, workers or wake-ups:   *)
(* messages are accepted once, and the oldest unresolved one is either     *)
(* committed, which appends its turn to the log, or given up.              *)
(***************************************************************************)
EXTENDS Naturals, Sequences

CONSTANT Msg

VARIABLES
    inbox,     \* every accepted message, in the order of acceptance
    resolved,  \* how many of them are committed or given up
    log        \* the committed messages

vars == <<inbox, resolved, log>>

Init == inbox = <<>> /\ resolved = 0 /\ log = <<>>

Accept(m) ==
    /\ \A i \in 1 .. Len(inbox) : inbox[i] # m
    /\ inbox' = Append(inbox, m)
    /\ UNCHANGED <<resolved, log>>

Commit ==
    /\ resolved < Len(inbox)
    /\ resolved' = resolved + 1
    /\ log' = Append(log, inbox[resolved + 1])
    /\ UNCHANGED inbox

GiveUp ==
    /\ resolved < Len(inbox)
    /\ resolved' = resolved + 1
    /\ UNCHANGED <<inbox, log>>

Next == (\E m \in Msg : Accept(m)) \/ Commit \/ GiveUp

Spec == Init /\ [][Next]_vars
=============================================================================
