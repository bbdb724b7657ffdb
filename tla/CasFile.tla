------------------------------- MODULE CasFile --------------------------------
(***************************************************************************)
(* What fsatomic.AtomicFS promises of one file: every call that returns    *)
(* took effect in one step between its call and its return; a              *)
(* compare-and-swap only when the file still had the version it was given; *)
(* an acknowledged write survives the loss of power.  A call that returns  *)
(* an error, and one whose process died, took effect or did not.           *)
(***************************************************************************)
CONSTANTS Callers, Data, Mtimes

NoFile   == [data |-> "none", mtime |-> 0]
Contents == [data : Data, mtime : Mtimes]

VARIABLES file,   \* the file, as every caller sees it
          safe,   \* what the loss of power may bring back in its place
          phase,  \* where every caller's call is
          call    \* its arguments and its result

vars == <<file, safe, phase, call>>

Idle(known) == [kind |-> "none", data |-> "none", known |-> known,
                result |-> "none", seen |-> NoFile]

Init == /\ file \in Contents \cup {NoFile} /\ safe = file
        /\ phase = [c \in Callers |-> "idle"]
        /\ \E known \in [Callers -> {file, NoFile}] : call = [c \in Callers |-> Idle(known[c])]

Step(c, from, to) == phase[c] = from /\ phase' = [phase EXCEPT ![c] = to]

Result(c, result, ver) ==
    call' = [call EXCEPT ![c].result = result, ![c].seen = ver]

Call(c) ==
    /\ Step(c, "idle", "pending")
    /\ \E kind \in {"read", "write", "cas"}, d \in Data \cup {"none"} :
           call' = [call EXCEPT ![c].kind = kind, ![c].data = d]
    /\ UNCHANGED <<file, safe>>

Read(c) ==
    /\ call[c].kind = "read"
    /\ Step(c, "pending", "done")
    /\ Result(c, IF file = NoFile THEN "notFound" ELSE "ok", file)
    /\ UNCHANGED <<file, safe>>

Commit(c) ==
    /\ call[c].kind = "write" \/ (call[c].kind = "cas" /\ file = call[c].known)
    /\ Step(c, "pending", "committed")
    /\ \E m \in Mtimes : file' = [data |-> call[c].data, mtime |-> m]
    /\ UNCHANGED <<safe, call>>

Refuse(c) ==
    /\ call[c].kind = "cas" /\ file # call[c].known
    /\ Step(c, "pending", "done")
    /\ Result(c, "conflict", NoFile)
    /\ UNCHANGED <<file, safe>>

Flush == safe' = file /\ UNCHANGED <<file, phase, call>>

Acknowledge(c) ==
    /\ safe = file
    /\ Step(c, "committed", "done")
    /\ Result(c, "ok", file)
    /\ UNCHANGED <<file, safe>>

Fail(c) ==
    /\ Step(c, "pending", "done") \/ Step(c, "committed", "done")
    /\ Result(c, "error", NoFile)
    /\ UNCHANGED <<file, safe>>

Return(c) ==
    /\ Step(c, "done", "idle")
    /\ call' = [call EXCEPT ![c] = Idle(IF @.result = "ok" THEN @.seen ELSE @.known)]
    /\ UNCHANGED <<file, safe>>

Gone(S) ==
    /\ phase' = [c \in Callers |-> IF c \in S THEN "idle" ELSE phase[c]]
    /\ call' = [c \in Callers |-> IF c \in S THEN Idle(NoFile) ELSE call[c]]

Die == /\ UNCHANGED <<file, safe>>
       /\ \E S \in SUBSET Callers : Gone(S)

PowerLoss == /\ file' \in {file, safe} /\ safe' = file'
             /\ Gone(Callers)

Next == \/ \E c \in Callers : \/ Call(c) \/ Read(c) \/ Commit(c) \/ Refuse(c)
                              \/ Acknowledge(c) \/ Fail(c) \/ Return(c)
        \/ Flush \/ Die \/ PowerLoss

Spec == Init /\ [][Next]_vars
=============================================================================
