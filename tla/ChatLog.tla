------------------------------- MODULE ChatLog -------------------------------
(***************************************************************************)
(* What a thread promises its users: a durable log of completed chats.     *)
(* Chats are numbered; at most one is in progress; it ends by committing   *)
(* its number to the log, durably and in order, or by leaving no trace.    *)
(***************************************************************************)
EXTENDS Integers, Sequences

CONSTANT MaxChats

VARIABLES count,    \* chats begun
          current,  \* the chat in progress, or 0
          log,      \* completed chats
          saved     \* the log as it would be found after a restart

chatVars == <<count, current, log, saved>>

Init == count = 0 /\ current = 0 /\ log = <<>> /\ saved = <<>>

Begin ==
    /\ current = 0
    /\ count < MaxChats
    /\ count' = count + 1
    /\ current' = count'
    /\ UNCHANGED <<log, saved>>

Commit ==
    /\ current # 0
    /\ log' = Append(log, current)
    /\ saved' = log'
    /\ current' = 0
    /\ UNCHANGED count

Fail ==
    /\ current # 0
    /\ current' = 0
    /\ UNCHANGED <<count, log, saved>>

Next == Begin \/ Commit \/ Fail

Spec == Init /\ [][Next]_chatVars
=============================================================================
