------------------------------ MODULE ThreadRun ------------------------------
(***************************************************************************)
(* One conversation thread of noctium while it is being used: the thread   *)
(* object guarded by thread.mu, the worker goroutine of every chat request *)
(* (ChatOnceAsync / runChatOnceAsync), the tool calls that ask for         *)
(* approval through the thread's AsyncApprover, and the single UI          *)
(* goroutine that starts runs, serves approvals and consumes results.      *)
(*                                                                         *)
(* A run is named by the InvocationCount it was given.  A dialogue is the  *)
(* sequence of the runs whose prompt and reply it holds; disk is the       *)
(* dialogue of the last save of thread.json that succeeded.  A thread of   *)
(* an old release may still hold the system message in front.              *)
(***************************************************************************)
EXTENDS Integers, Sequences, FiniteSets, Functions

CONSTANTS MaxRuns,        \* bound on InvocationCount
          Tools,          \* tool calls one run may put to the user
          SaveMayFail,    \* may thread.save() return an error?
          OldThread,      \* is the thread one that an old release saved?
          ToolsMayLinger  \* may a run fail while its tool calls still execute?

ASSUME RunAssumption == /\ MaxRuns \in Nat \ {0}
                        /\ SaveMayFail \in BOOLEAN
                        /\ OldThread \in BOOLEAN
                        /\ ToolsMayLinger \in BOOLEAN

Runs     == 1 .. MaxRuns
System   == 0             \* the system message that old releases persisted
Messages == Runs \cup {System}
Calls    == Runs \X Tools

VARIABLES
    \* fields of thread, guarded by thread.mu
    state, runState, dialogue, invocationCount, needLLMReinit, approver,
    disk,
    \* AsyncApprovers, one per generation; a generation is named by the run
    \* whose setRunning created it
    closed, requests,
    \* worker goroutines: control point, dialogue copied at the start, the
    \* approver generation of the LLM client in use, the result channel and
    \* whether the run's context was cancelled
    worker, prior, client, result, cancelled,
    \* tool calls inside AskApproval, and the replies sent to them
    call, answered,
    \* the UI goroutine and its threadViewAsyncChatState
    ui, uiRun, uiChan, uiReq

threadVars == <<state, runState, dialogue, invocationCount, needLLMReinit, approver, disk>>
workerVars == <<worker, prior, client, result, cancelled>>
callVars   == <<closed, requests, call, answered>>
uiVars     == <<ui, uiRun, uiChan, uiReq>>
vars       == <<threadVars, workerVars, callVars, uiVars>>

None == 0                 \* nil: no run, no approver
Nobody == <<0, 0>>        \* no approval request

ThreadStates == {"idle", "running", "blocked"}
WorkerSteps  == {"none", "started", "copied", "streaming", "saveFailed",
                 "aborted", "finalized", "sent", "done"}
CallSteps    == {"off", "asked", "sending", "waiting", "leaving", "done"}
UISteps      == {"menu", "poll", "key", "launch", "prompt", "failed", "ended"}

InFlight(r)  == worker[r] \in {"started", "copied", "streaming"}
Asking(c)    == call[c] \in {"sending", "waiting", "leaving"}
Alive        == ui # "ended"
Quiescent(r) == \A t \in Tools : call[<<r, t>>] \in {"off", "done"}

Init ==
    /\ state = "idle" /\ runState = None
    /\ dialogue = IF OldThread THEN <<System>> ELSE <<>>
    /\ disk = dialogue
    /\ invocationCount = 0 /\ needLLMReinit = FALSE /\ approver = None
    /\ closed = {}
    /\ requests = [g \in Runs |-> <<>>]
    /\ worker = [r \in Runs |-> "none"]
    /\ prior = [r \in Runs |-> <<>>]
    /\ client = [r \in Runs |-> None]
    /\ result = [r \in Runs |-> "none"]
    /\ cancelled = [r \in Runs |-> FALSE]
    /\ call = [c \in Calls |-> "off"]
    /\ answered = {}
    /\ ui = "menu" /\ uiRun = None /\ uiChan = None /\ uiReq = Nobody

-----------------------------------------------------------------------------
(* The thread object.                                                      *)

\* Faulty variant: setRunning without its idle check.
SetRunning_AnyState ==
    /\ invocationCount < MaxRuns
    /\ invocationCount' = invocationCount + 1
    /\ state' = "running"
    /\ approver' = IF approver = None THEN invocationCount' ELSE approver
    /\ needLLMReinit' = FALSE
    /\ UNCHANGED closed

\* setRunning: only an idle thread may start a run; a pending reset replaces
\* the approver (closing the old one) together with the LLM client.
SetRunning ==
    /\ state = "idle"
    /\ invocationCount < MaxRuns
    /\ invocationCount' = invocationCount + 1
    /\ state' = "running"
    /\ LET fresh == needLLMReinit \/ approver = None
       IN  /\ approver' = IF fresh THEN invocationCount' ELSE approver
           /\ closed' = IF needLLMReinit THEN closed \cup {approver} ELSE closed
    /\ needLLMReinit' = FALSE

\* Faulty variant: setting the state whatever it was.
SetStateIfEqual_Always(old, new) == state' = new

\* setStateIfEqual
SetStateIfEqual(old, new) == state' = IF state = old THEN new ELSE state

\* thread.save() from an idle thread; save refuses any other state.
SaveOk    == disk' = dialogue
SaveError == SaveMayFail /\ UNCHANGED disk
Save      == SaveOk \/ SaveError

\* Access: refresh the access time and save, but only when idle.
Access == IF state = "idle" THEN Save ELSE UNCHANGED disk

-----------------------------------------------------------------------------
(* The worker goroutine of run r (runChatOnceAsync).                       *)

\* A dialogue without a persisted system message in front.
Strip(d) == IF d # <<>> /\ Head(d) = System THEN Tail(d) ELSE d

\* Faulty variant: the first message is dropped although it is no system message.
WorkerCopy_DropFirst(r) ==
    /\ worker[r] = "started"
    /\ prior' = [prior EXCEPT ![r] = IF dialogue = <<>> THEN <<>> ELSE Tail(dialogue)]
    /\ worker' = [worker EXCEPT ![r] = "copied"]
    /\ UNCHANGED <<threadVars, callVars, uiVars, client, result, cancelled>>

\* Copy the dialogue under the read lock, drop the system message an old
\* release may have persisted, and build the request from the rest.
WorkerCopy(r) ==
    /\ worker[r] = "started"
    /\ prior' = [prior EXCEPT ![r] = Strip(dialogue)]
    /\ worker' = [worker EXCEPT ![r] = "copied"]
    /\ UNCHANGED <<threadVars, callVars, uiVars, client, result, cancelled>>

\* Hand the dialogue to the thread's LLM client (summarising it first when
\* asked to); from here on tools run and the reply streams in.
WorkerStream(r) ==
    /\ worker[r] = "copied"
    /\ client' = [client EXCEPT ![r] = approver]
    /\ worker' = [worker EXCEPT ![r] = "streaming"]
    /\ UNCHANGED <<threadVars, callVars, uiVars, prior, result, cancelled>>

\* Faulty variant: finalizeChatOnce that never saves.
WorkerFinalize_NoSave(r) ==
    /\ worker[r] = "streaming"
    /\ Quiescent(r)
    /\ dialogue' = Append(prior[r], r)
    /\ state' = "idle"
    /\ runState' = None
    /\ worker' = [worker EXCEPT ![r] = "finalized"]
    /\ UNCHANGED <<disk, invocationCount, needLLMReinit, approver, prior, client,
                   result, cancelled, callVars, uiVars>>

\* End of stream: finalizeChatOnce installs the dialogue, makes the thread
\* idle and saves it, all under thread.mu.
WorkerFinalize(r) ==
    /\ worker[r] = "streaming"
    /\ Quiescent(r)
    /\ dialogue' = Append(prior[r], r)
    /\ state' = "idle"
    /\ runState' = None
    /\ \/ /\ disk' = dialogue'
          /\ worker' = [worker EXCEPT ![r] = "finalized"]
       \/ /\ SaveMayFail
          /\ UNCHANGED disk
          /\ worker' = [worker EXCEPT ![r] = "saveFailed"]
    /\ UNCHANGED <<invocationCount, needLLMReinit, approver, prior, client,
                   result, cancelled, callVars, uiVars>>

\* A summary, stream or receive error, or the failed save above: abortChatOnce.
WorkerAbort(r) ==
    /\ \/ worker[r] = "streaming" /\ (Quiescent(r) \/ ToolsMayLinger)
       \/ worker[r] = "saveFailed"
    /\ state' = "idle"
    /\ runState' = None
    /\ worker' = [worker EXCEPT ![r] = "aborted"]
    /\ UNCHANGED <<dialogue, disk, invocationCount, needLLMReinit, approver,
                   prior, client, result, cancelled, callVars, uiVars>>

\* Faulty variant: an aborting worker returns without sending its error.
WorkerSend_OkOnly(r) ==
    /\ worker[r] \in {"aborted", "finalized"}
    /\ result' = [result EXCEPT ![r] = IF worker[r] = "finalized" THEN "ok" ELSE @]
    /\ worker' = [worker EXCEPT ![r] = "sent"]
    /\ UNCHANGED <<threadVars, callVars, uiVars, prior, client, cancelled>>

\* Send the terminal result; the channel has room for exactly one.
WorkerSend(r) ==
    /\ worker[r] \in {"aborted", "finalized"}
    /\ result' = [result EXCEPT ![r] = IF worker[r] = "finalized" THEN "ok" ELSE "err"]
    /\ worker' = [worker EXCEPT ![r] = "sent"]
    /\ UNCHANGED <<threadVars, callVars, uiVars, prior, client, cancelled>>

\* The deferred calls: unsubscribe from progress, close Result, close Done.
WorkerExit(r) ==
    /\ worker[r] = "sent"
    /\ worker' = [worker EXCEPT ![r] = "done"]
    /\ UNCHANGED <<threadVars, callVars, uiVars, prior, client, result, cancelled>>

Worker(r) == \/ WorkerCopy(r) \/ WorkerStream(r) \/ WorkerFinalize(r)
             \/ WorkerAbort(r) \/ WorkerSend(r) \/ WorkerExit(r)

-----------------------------------------------------------------------------
(* A tool call c of run c[1] inside AsyncApprover.AskApproval.  The tools   *)
(* of one model turn execute in parallel.                                  *)

Step(c, to) == call' = [call EXCEPT ![c] = to]

\* Entry: a closed approver refuses.
CallAsk(c) ==
    /\ worker[c[1]] = "streaming"
    /\ call[c] = "off"
    /\ Step(c, IF client[c[1]] \in closed THEN "done" ELSE "asked")
    /\ UNCHANGED <<threadVars, workerVars, uiVars, closed, requests, answered>>

\* setThreadState(Running, Blocked)
CallBlock(c) ==
    /\ call[c] = "asked"
    /\ SetStateIfEqual("running", "blocked")
    /\ Step(c, "sending")
    /\ UNCHANGED <<runState, dialogue, disk, invocationCount, needLLMReinit, approver,
                   workerVars, uiVars, closed, requests, answered>>

\* Requests <- wrapped, when the one-slot channel has room.
CallSend(c) ==
    /\ call[c] = "sending"
    /\ requests[client[c[1]]] = <<>>
    /\ requests' = [requests EXCEPT ![client[c[1]]] = <<c>>]
    /\ Step(c, "waiting")
    /\ UNCHANGED <<threadVars, workerVars, uiVars, closed, answered>>

\* Faulty variants: only the first select honours the context; a select that
\* gives up without waiting for it.
CallCancel_SendOnly(c) ==
    /\ call[c] = "sending"
    /\ cancelled[c[1]]
    /\ Step(c, "leaving")
    /\ UNCHANGED <<threadVars, workerVars, uiVars, closed, requests, answered>>
CallCancel_NoWait(c) ==
    /\ call[c] \in {"sending", "waiting"}
    /\ Step(c, "leaving")
    /\ UNCHANGED <<threadVars, workerVars, uiVars, closed, requests, answered>>

\* Either select takes ctx.Done().
CallCancel(c) ==
    /\ call[c] \in {"sending", "waiting"}
    /\ cancelled[c[1]]
    /\ Step(c, "leaving")
    /\ UNCHANGED <<threadVars, workerVars, uiVars, closed, requests, answered>>

CallReply(c) ==
    /\ call[c] = "waiting"
    /\ c \in answered
    /\ Step(c, "leaving")
    /\ UNCHANGED <<threadVars, workerVars, uiVars, closed, requests, answered>>

\* Faulty variant: the deferred state reset is missing.
CallLeave_StayBlocked(c) ==
    /\ call[c] = "leaving"
    /\ Step(c, "done")
    /\ UNCHANGED <<threadVars, workerVars, uiVars, closed, requests, answered>>

\* The deferred setThreadState(Blocked, Running).
CallLeave(c) ==
    /\ call[c] = "leaving"
    /\ SetStateIfEqual("blocked", "running")
    /\ Step(c, "done")
    /\ UNCHANGED <<runState, dialogue, disk, invocationCount, needLLMReinit, approver,
                   workerVars, uiVars, closed, requests, answered>>

Call(c) == \/ CallAsk(c) \/ CallBlock(c) \/ CallSend(c)
           \/ CallCancel(c) \/ CallReply(c) \/ CallLeave(c)

-----------------------------------------------------------------------------
(* The UI goroutine: the menu, the thread view's loop (poll the running    *)
(* state's channels, then read a key) and the two modals.                  *)

Goto(s) == ui' = s

\* Enter on the menu: Access, then runThreadView; an error of Access ends the
\* program, in which goroutines may still take steps while it exits.
Attach ==
    /\ ui = "menu"
    /\ \/ state = "idle" /\ SaveOk /\ Goto("poll")
       \/ state = "idle" /\ SaveError /\ Goto("ended")
       \/ state # "idle" /\ UNCHANGED disk /\ Goto("poll")
    /\ UNCHANGED <<state, runState, dialogue, invocationCount, needLLMReinit, approver,
                   workerVars, callVars, uiRun, uiChan, uiReq>>

\* Leaving the thread view, whatever Access returns; a run continues in the
\* background.
Detach ==
    /\ ui = "key"
    /\ Access
    /\ Goto("menu")
    /\ UNCHANGED <<state, runState, dialogue, invocationCount, needLLMReinit, approver,
                   workerVars, callVars, uiRun, uiChan, uiReq>>

\* The configuration menu: ResetLLMClients.
ResetLLMClients ==
    /\ ui = "menu"
    /\ needLLMReinit' = TRUE
    /\ UNCHANGED <<state, runState, dialogue, disk, invocationCount, approver,
                   workerVars, callVars, uiVars>>

\* 'n' in the history pane: Rename refuses a non-idle thread.
Rename ==
    /\ ui = "key"
    /\ state = "idle"
    /\ Save
    /\ Goto("poll")
    /\ UNCHANGED <<state, runState, dialogue, invocationCount, needLLMReinit, approver,
                   workerVars, callVars, uiRun, uiChan, uiReq>>

\* Ctrl-D: ChatOnceAsync, up to and including setRunning.
BeginChat ==
    /\ ui = "key"
    /\ SetRunning
    /\ Goto("launch")
    /\ UNCHANGED <<runState, dialogue, disk, workerVars, requests, call, answered,
                   uiRun, uiChan, uiReq>>

\* The rest of ChatOnceAsync and setRunningState: publish the run state,
\* start the worker and point the view at the new run's channels.
Launch ==
    LET r == invocationCount IN
    /\ ui = "launch"
    /\ runState' = r
    /\ worker' = [worker EXCEPT ![r] = "started"]
    /\ uiRun' = r
    /\ uiChan' = approver
    /\ Goto("poll")
    /\ UNCHANGED <<state, dialogue, disk, invocationCount, needLLMReinit, approver,
                   prior, client, result, cancelled, callVars, uiReq>>

\* Any other key, a timeout, or a ChatOnceAsync that was refused.
KeyIdle ==
    /\ ui = "key"
    /\ Goto("poll")
    /\ UNCHANGED <<threadVars, workerVars, callVars, uiRun, uiChan, uiReq>>

\* processAsyncChatEvents takes an approval request and shows the prompt.
PollApproval ==
    /\ ui = "poll"
    /\ uiRun # None
    /\ requests[uiChan] # <<>>
    /\ uiReq' = Head(requests[uiChan])
    /\ requests' = [requests EXCEPT ![uiChan] = Tail(@)]
    /\ Goto("prompt")
    /\ UNCHANGED <<threadVars, workerVars, closed, call, answered, uiRun, uiChan>>

\* Faulty variant: ServeRequest that sends no reply.
AnswerPrompt_NoReply ==
    /\ ui = "prompt"
    /\ uiReq' = Nobody
    /\ Goto("poll")
    /\ UNCHANGED <<threadVars, workerVars, callVars, uiRun, uiChan>>

\* ServeRequest: the user decides; the reply channel has one slot per request.
AnswerPrompt ==
    /\ ui = "prompt"
    /\ answered' = answered \cup {uiReq}
    /\ uiReq' = Nobody
    /\ Goto("poll")
    /\ UNCHANGED <<threadVars, workerVars, closed, requests, call, uiRun, uiChan>>

\* A success clears the running state; an error stops the run first and asks
\* whether to retry.
PollResult ==
    /\ ui = "poll"
    /\ uiRun # None
    /\ result[uiRun] # "none"
    /\ IF result[uiRun] = "ok"
       THEN /\ uiRun' = None /\ uiChan' = None
            /\ Goto("key")
            /\ UNCHANGED cancelled
       ELSE /\ cancelled' = [cancelled EXCEPT ![uiRun] = TRUE]
            /\ Goto("failed")
            /\ UNCHANGED <<uiRun, uiChan>>
    /\ UNCHANGED <<threadVars, worker, prior, client, result, callVars, uiReq>>

\* Nothing (more) to process in this tick: go and read a key.
PollIdle ==
    /\ ui = "poll"
    /\ Goto("key")
    /\ UNCHANGED <<threadVars, workerVars, callVars, uiRun, uiChan, uiReq>>

\* The user retries the failed run.
Retry ==
    /\ ui = "failed"
    /\ SetRunning
    /\ Goto("launch")
    /\ uiRun' = None /\ uiChan' = None
    /\ UNCHANGED <<runState, dialogue, disk, workerVars, requests, call, answered, uiReq>>

\* The user declines, or the retry could not start.
Decline ==
    /\ ui = "failed"
    /\ uiRun' = None /\ uiChan' = None
    /\ Goto("key")
    /\ UNCHANGED <<threadVars, workerVars, callVars, uiReq>>

UIProgram == Launch \/ PollApproval \/ PollResult \/ PollIdle
User == \/ Attach \/ Detach \/ ResetLLMClients \/ Rename \/ BeginChat \/ KeyIdle
        \/ AnswerPrompt \/ Retry \/ Decline

Next == \/ \E r \in Runs : Worker(r)
        \/ \E c \in Calls : Call(c)
        \/ UIProgram
        \/ User

Spec == Init /\ [][Next]_vars

-----------------------------------------------------------------------------
(* Fairness.  Goroutines are scheduled, the model eventually ends its      *)
(* stream once its tool calls have returned (that it fails before is       *)
(* possible, never assumed), and a select with several ready cases picks   *)
(* among them at random, so a case that is ready again and again is taken. *)
(* The user is only assumed to come back to a thread he left and to answer *)
(* the modals.                                                             *)

Fairness ==
    /\ \A r \in Runs : WF_vars((worker[r] = "streaming" => Quiescent(r)) /\ Worker(r))
    /\ \A c \in Calls : WF_vars(call[c] # "off" /\ Call(c))
    /\ WF_vars(Launch) /\ WF_vars(PollIdle) /\ WF_vars(KeyIdle)
    /\ SF_vars(PollApproval) /\ SF_vars(PollResult)
    /\ WF_vars(Attach) /\ WF_vars(AnswerPrompt) /\ WF_vars(Retry \/ Decline)

FairSpec == Spec /\ Fairness

-----------------------------------------------------------------------------
(* Properties.                                                             *)

\* Every variable has its type.
TypeOK ==
    /\ state \in ThreadStates
    /\ runState \in 0 .. MaxRuns
    /\ dialogue \in Seq(Messages) /\ disk \in Seq(Messages)
    /\ invocationCount \in 0 .. MaxRuns
    /\ needLLMReinit \in BOOLEAN
    /\ approver \in 0 .. MaxRuns
    /\ closed \subseteq 0 .. MaxRuns
    /\ requests \in [Runs -> Seq(Calls)]
    /\ worker \in [Runs -> WorkerSteps]
    /\ prior \in [Runs -> Seq(Messages)]
    /\ client \in [Runs -> 0 .. MaxRuns]
    /\ result \in [Runs -> {"none", "ok", "err"}]
    /\ cancelled \in [Runs -> BOOLEAN]
    /\ call \in [Calls -> CallSteps]
    /\ answered \subseteq Calls
    /\ ui \in UISteps
    /\ uiRun \in 0 .. MaxRuns /\ uiChan \in 0 .. MaxRuns
    /\ uiReq \in Calls \cup {Nobody}

\* The thread is non-idle exactly while one run, the newest, is being started
\* or has a worker that has neither finalized nor aborted.  setRunning's guard,
\* the quit warning (NonIdleThreadCount) and MoveThread all take "idle" to mean
\* that no worker touches the thread.
StateMatchesWorker ==
    /\ \A r \in Runs : InFlight(r) => state # "idle" /\ r = invocationCount
    /\ state # "idle" => ui = "launch" \/ \E r \in Runs : InFlight(r)

\* A thread shown as blocked has a tool call inside AskApproval: the deferred
\* Blocked -> Running step of the last call to leave always undoes Blocked, in
\* whatever order parallel calls and lingering calls of older runs leave.
BlockedHasAsker == state = "blocked" => \E c \in Calls : Asking(c)

\* A reply is never lost to a concurrent update: the dialogue only ever grows
\* by the reply of one run, and loses at most a persisted system message,
\* although a worker installs a dialogue it computed from a copy taken many
\* steps earlier.
DialogueAppendOnly ==
    [][\E r \in Runs : dialogue' = Append(Strip(dialogue), r)]_dialogue

\* What the user was told is what is kept: a run reported as successful is in
\* the saved dialogue, a run reported as failed left nothing in the dialogue.
ResultsMatchDialogue ==
    \A r \in Runs : /\ result[r] = "ok"  => r \in Range(disk)
                    /\ result[r] = "err" => r \notin Range(dialogue)

\* What the user is told when a run fails: choosing not to retry discards the
\* prompt, it will not be saved to the thread.  (With MaxRuns = 1 there is no
\* retry, so a failed run the view let go of was declined.)  With SaveMayFail the
\* code breaks it: the dialogue keeps the prompt of a run that could not be saved.
DeclinedNotSaved ==
    \A r \in Runs : result[r] = "err" /\ uiRun # r => r \notin Range(disk)

\* The user is never asked on behalf of a call that gave up by itself: a request
\* on screen or in the channel has its call waiting for the answer, unless the
\* run was stopped, which releases the call and leaves the request behind.
PromptsAreLive ==
    LET Live(c) == call[c] = "waiting" \/ cancelled[c[1]]
    IN  /\ ui = "prompt" => Live(uiReq)
        /\ \A g \in Runs : \A c \in Range(requests[g]) : Live(c)

\* Every run that starts reports a result, although its tools may have to wait
\* for a user who has left the thread view; only the end of the program stops it.
RunsEnd == \A r \in Runs : worker[r] = "started" ~> result[r] # "none" \/ ~Alive

\* The thread view never stays attached to a run for ever: it always gets the
\* run's result and clears its running state, unless the program ends.
ViewReleasesRun == \A r \in Runs : uiRun = r ~> uiRun # r \/ ~Alive

\* Every AskApproval returns once its run was stopped, even if no one serves
\* the approver's channel any more, unless the program ends.
StoppedCallsReturn ==
    \A c \in Calls : cancelled[c[1]] /\ Asking(c) ~> call[c] = "done" \/ ~Alive

-----------------------------------------------------------------------------
(* Refinement: while saves succeed, a thread is a ChatLog.                  *)

Log == INSTANCE ChatLog WITH
           MaxChats <- MaxRuns,
           count    <- invocationCount,
           current  <- IF state = "idle" THEN None ELSE invocationCount,
           log      <- Strip(dialogue),
           saved    <- Strip(disk)

\* Every interleaving of workers, tool calls and UI steps looks, to a reader of
\* the dialogue and of thread.json, like chats that run one at a time and that
\* commit durably or leave no trace.
ImplementsChatLog == Log!Spec
=============================================================================
