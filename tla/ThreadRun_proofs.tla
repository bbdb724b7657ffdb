-------------------------- MODULE ThreadRun_proofs --------------------------
(***************************************************************************)
(* Proofs about the runs of a thread, for any number of runs and any set   *)
(* of tools, and, in the last part, about the progress events of one run.  *)
(***************************************************************************)
EXTENDS ThreadRun, Progress, TLAPS

-----------------------------------------------------------------------------
(* Type correctness.  Wired is the strengthening it needs: a channel that  *)
(* is read or written exists, and a prompt on screen has a request.        *)

Wired ==
    /\ invocationCount # 0 => approver # None
    /\ ui = "launch" => invocationCount # 0
    /\ uiRun # None => uiChan # None
    /\ ui = "prompt" => uiReq \in Calls
    /\ \A r \in Runs : worker[r] # "none" => r <= invocationCount
    /\ \A r \in Runs : worker[r] = "streaming" => client[r] # None
    /\ \A c \in Calls : call[c] # "off" => client[c[1]] # None

TypeInv == TypeOK /\ Wired

\* Strip keeps a dialogue a dialogue, and takes nothing but the system message.
LEMMA StripType ==
  ASSUME NEW d \in Seq(Messages)
  PROVE  Strip(d) \in Seq(Messages)
         /\ Range(Strip(d)) \cap Runs = Range(d) \cap Runs
  <1>1. CASE d # <<>> /\ Head(d) = System
    <2>1. /\ Strip(d) = Tail(d) /\ Tail(d) \in Seq(Messages)
          /\ Len(Tail(d)) = Len(d) - 1 /\ Len(d) \in Nat \ {0} /\ d[1] = System
          /\ DOMAIN d = 1 .. Len(d) /\ DOMAIN Tail(d) = 1 .. Len(d) - 1
          /\ \A i \in 1 .. Len(d) - 1 : Tail(d)[i] = d[i + 1]
      BY <1>1 DEF Strip
    <2>2. \A i \in DOMAIN d : d[i] \in Runs =>
              i - 1 \in DOMAIN Tail(d) /\ Tail(d)[i - 1] = d[i]
      BY <2>1 DEF System, Runs
    <2>3. \A i \in DOMAIN Tail(d) : i + 1 \in DOMAIN d /\ Tail(d)[i] = d[i + 1]
      BY <2>1
    <2>4. QED
      BY <2>1, <2>2, <2>3 DEF Range
  <1>2. CASE ~(d # <<>> /\ Head(d) = System)
    BY <1>2 DEF Strip
  <1>3. QED
    BY <1>1, <1>2

\* A dialogue that holds runs only has nothing to drop.
LEMMA StripRuns == ASSUME NEW d \in Seq(Runs) PROVE Strip(d) = d
  <1>1. d # <<>> => Head(d) \in Runs
    OBVIOUS
  <1>2. System \notin Runs
    BY DEF System, Runs
  <1>3. QED
    BY <1>1, <1>2 DEF Strip

\* Nothing is left of the dialogue of a new thread, nor of an old one.
LEMMA StripInit == Strip(<<>>) = <<>> /\ Strip(<<System>>) = <<>>
  <1>1. Strip(<<>>) = <<>>
    BY DEF Strip
  <1>2. <<System>> # <<>> /\ Head(<<System>>) = System /\ Tail(<<System>>) = <<>>
    OBVIOUS
  <1>3. QED
    BY <1>1, <1>2 DEF Strip

\* The initial states are well typed and wired.
LEMMA InitTypeInv == Init => TypeInv
  <1> SUFFICES ASSUME Init PROVE TypeInv
    OBVIOUS
  <1> USE RunAssumption DEF Init, Runs, None
  <1>a. /\ <<>> \in Seq(Messages) /\ <<>> \in Seq(Calls)
        /\ dialogue \in Seq(Messages) /\ disk \in Seq(Messages)
    <2>1. System \in Messages
      BY DEF Messages
    <2>2. <<>> \in Seq(Messages) /\ <<>> \in Seq(Calls) /\ <<System>> \in Seq(Messages)
      BY <2>1
    <2>3. QED
      BY <2>2
  <1>b. cancelled \in [Runs -> BOOLEAN] /\ needLLMReinit \in BOOLEAN
    BY Zenon
  <1>1. TypeOK
    BY <1>a, <1>b DEF TypeOK, ThreadStates, WorkerSteps, CallSteps, UISteps
  <1>2. Wired
    BY DEF Wired
  <1>3. QED
    BY <1>1, <1>2 DEF TypeInv

\* No step of the worker goroutine (ChatOnceAsync's func) breaks the types or the
\* wiring between the run, the thread state and the invocation counter.
LEMMA WorkerTypeInv ==
  ASSUME TypeInv, NEW r \in Runs, Worker(r)
  PROVE  TypeInv'
  <1> USE RunAssumption DEF TypeInv, Runs, None
  <1>1. TypeOK'
    <2> USE DEF TypeOK, WorkerSteps, ThreadStates, threadVars, workerVars, callVars, uiVars
    <2>1. CASE WorkerCopy(r)
      BY <2>1, StripType DEF WorkerCopy
    <2>2. CASE WorkerStream(r)
      BY <2>2 DEF WorkerStream
    <2>3. CASE WorkerFinalize(r)
      <3>1. Append(prior[r], r) \in Seq(Messages)
        BY DEF Messages
      <3>2. dialogue' \in Seq(Messages) /\ disk' \in Seq(Messages)
        BY <2>3, <3>1 DEF WorkerFinalize
      <3>3. worker' \in [Runs -> WorkerSteps]
        BY <2>3 DEF WorkerFinalize
      <3>4. /\ state' = "idle" /\ runState' = 0
            /\ UNCHANGED <<invocationCount, needLLMReinit, approver, prior, client,
                           result, cancelled, callVars, uiVars>>
        BY <2>3 DEF WorkerFinalize
      <3>5. QED
        BY <3>2, <3>3, <3>4
    <2>4. CASE WorkerAbort(r)
      BY <2>4 DEF WorkerAbort
    <2>5. CASE WorkerSend(r)
      BY <2>5 DEF WorkerSend
    <2>6. CASE WorkerExit(r)
      BY <2>6 DEF WorkerExit
    <2>7. QED
      BY <2>1, <2>2, <2>3, <2>4, <2>5, <2>6 DEF Worker
  <1>2. Wired'
    <2> USE DEF Wired, TypeOK, WorkerSteps, threadVars, workerVars, callVars, uiVars
    <2>1. CASE WorkerCopy(r)
      BY <2>1 DEF WorkerCopy
    <2>2. CASE WorkerStream(r)
      BY <2>2 DEF WorkerStream
    <2>3. CASE WorkerFinalize(r)
      BY <2>3 DEF WorkerFinalize
    <2>4. CASE WorkerAbort(r)
      BY <2>4 DEF WorkerAbort
    <2>5. CASE WorkerSend(r)
      BY <2>5 DEF WorkerSend
    <2>6. CASE WorkerExit(r)
      BY <2>6 DEF WorkerExit
    <2>7. QED
      BY <2>1, <2>2, <2>3, <2>4, <2>5, <2>6 DEF Worker
  <1>3. QED
    BY <1>1, <1>2

\* No step of a tool call that asks for approval breaks them.
LEMMA CallTypeInv ==
  ASSUME TypeInv, NEW c \in Calls, Call(c)
  PROVE  TypeInv'
  <1> USE RunAssumption DEF TypeInv, Runs, None
  <1>0. c[1] \in Runs /\ <<c>> \in Seq(Calls)
    BY DEF Calls
  <1>1. TypeOK'
    <2> USE <1>0 DEF TypeOK, CallSteps, ThreadStates, threadVars, workerVars, callVars, uiVars, Step
    <2>1. CASE CallAsk(c)
      BY <2>1 DEF CallAsk
    <2>2. CASE CallBlock(c)
      BY <2>2 DEF CallBlock, SetStateIfEqual
    <2>3. CASE CallSend(c)
      BY <2>3 DEF CallSend
    <2>4. CASE CallCancel(c)
      BY <2>4 DEF CallCancel
    <2>5. CASE CallReply(c)
      BY <2>5 DEF CallReply
    <2>6. CASE CallLeave(c)
      BY <2>6 DEF CallLeave, SetStateIfEqual
    <2>7. QED
      BY <2>1, <2>2, <2>3, <2>4, <2>5, <2>6 DEF Call
  <1>2. Wired'
    <2> USE <1>0 DEF Wired, TypeOK, CallSteps, threadVars, workerVars, callVars, uiVars, Step
    <2>1. CASE CallAsk(c)
      BY <2>1 DEF CallAsk
    <2>2. CASE CallBlock(c)
      BY <2>2 DEF CallBlock, SetStateIfEqual
    <2>3. CASE CallSend(c)
      BY <2>3 DEF CallSend
    <2>4. CASE CallCancel(c)
      BY <2>4 DEF CallCancel
    <2>5. CASE CallReply(c)
      BY <2>5 DEF CallReply
    <2>6. CASE CallLeave(c)
      BY <2>6 DEF CallLeave, SetStateIfEqual
    <2>7. QED
      BY <2>1, <2>2, <2>3, <2>4, <2>5, <2>6 DEF Call
  <1>3. QED
    BY <1>1, <1>2

\* save writes a dialogue, whether the UI or Access calls it.
LEMMA SaveTypeInv == ASSUME TypeInv, Save \/ Access PROVE disk' \in Seq(Messages)
  BY DEF TypeInv, TypeOK, Save, SaveOk, SaveError, Access

\* setRunning leaves a thread that is running and well typed.
LEMMA SetRunningTypeInv ==
  ASSUME TypeInv, SetRunning
  PROVE  /\ state' = "running"
         /\ invocationCount' \in 1 .. MaxRuns /\ invocationCount' = invocationCount + 1
         /\ approver' \in 1 .. MaxRuns
         /\ closed' \subseteq 0 .. MaxRuns
  BY RunAssumption DEF TypeInv, TypeOK, SetRunning, Wired, None

\* No step of the UI goroutine breaks the types or the wiring.
LEMMA UITypeInv ==
  ASSUME TypeInv, UIProgram \/ User
  PROVE  TypeInv'
  <1>a. SetRunning => /\ state' = "running"
                      /\ invocationCount' \in 1 .. MaxRuns
                      /\ invocationCount' = invocationCount + 1
                      /\ approver' \in 1 .. MaxRuns /\ closed' \subseteq 0 .. MaxRuns
    BY SetRunningTypeInv
  <1>c. SetRunning => needLLMReinit' \in BOOLEAN
    BY Zenon DEF SetRunning
  <1>b. Save \/ Access => disk' \in Seq(Messages)
    BY SaveTypeInv
  <1>d. Attach => Save \/ Access
    BY DEF Attach, Save, Access
  <1> USE RunAssumption DEF TypeInv, Runs, None
  <1>1. TypeOK'
    <2> USE DEF TypeOK, Wired, UISteps, ThreadStates, WorkerSteps, threadVars, workerVars, callVars, uiVars
    <2>1. CASE Attach
      BY <2>1, <1>b, <1>d DEF Attach, Goto
    <2>2. CASE Detach
      BY <2>2, <1>b DEF Detach, Goto
    <2>3. CASE ResetLLMClients
      BY <2>3 DEF ResetLLMClients
    <2>4. CASE Rename
      BY <2>4, <1>b DEF Rename, Goto
    <2>5. CASE BeginChat
      <3>1. /\ state' \in ThreadStates /\ invocationCount' \in 0 .. MaxRuns
            /\ approver' \in 0 .. MaxRuns /\ closed' \subseteq 0 .. MaxRuns
        BY <2>5, <1>a DEF BeginChat
      <3>2. needLLMReinit' \in BOOLEAN
        BY <2>5, <1>c DEF BeginChat
      <3>3. QED
        BY <2>5, <3>1, <3>2 DEF BeginChat, Goto
    <2>6. CASE KeyIdle
      BY <2>6 DEF KeyIdle, Goto
    <2>7. CASE AnswerPrompt
      BY <2>7 DEF AnswerPrompt, Goto
    <2>8. CASE Retry
      <3>1. /\ state' \in ThreadStates /\ invocationCount' \in 0 .. MaxRuns
            /\ approver' \in 0 .. MaxRuns /\ closed' \subseteq 0 .. MaxRuns
        BY <2>8, <1>a DEF Retry
      <3>2. needLLMReinit' \in BOOLEAN
        BY <2>8, <1>c DEF Retry
      <3>3. /\ ui' \in UISteps /\ uiRun' \in 0 .. MaxRuns /\ uiChan' \in 0 .. MaxRuns
            /\ UNCHANGED <<runState, dialogue, disk, workerVars, requests, call, answered, uiReq>>
        BY <2>8 DEF Retry, Goto
      <3>4. QED
        BY <3>1, <3>2, <3>3
    <2>9. CASE Decline
      BY <2>9 DEF Decline, Goto
    <2>10. CASE Launch
      BY <2>10 DEF Launch, Goto
    <2>11. CASE PollApproval
      <3>1. uiChan \in Runs /\ requests[uiChan] \in Seq(Calls) /\ requests[uiChan] # <<>>
        BY <2>11 DEF PollApproval
      <3>2. Head(requests[uiChan]) \in Calls /\ Tail(requests[uiChan]) \in Seq(Calls)
        BY <3>1
      <3>3. QED
        BY <2>11, <3>1, <3>2 DEF PollApproval, Goto
    <2>12. CASE PollResult
      <3>1. CASE result[uiRun] = "ok"
        BY <2>12, <3>1 DEF PollResult, Goto
      <3>2. CASE result[uiRun] # "ok"
        <4>1. cancelled' \in [Runs -> BOOLEAN]
          BY <2>12, <3>2, Zenon DEF PollResult
        <4>2. QED
          BY <2>12, <3>2, <4>1 DEF PollResult, Goto
      <3>3. QED
        BY <3>1, <3>2
    <2>13. CASE PollIdle
      BY <2>13 DEF PollIdle, Goto
    <2>14. QED
      BY <2>1, <2>2, <2>3, <2>4, <2>5, <2>6, <2>7, <2>8, <2>9, <2>10, <2>11, <2>12, <2>13 DEF UIProgram, User
  <1>2. Wired'
    <2> USE DEF Wired, TypeOK, UISteps, threadVars, workerVars, callVars, uiVars
    <2>1. CASE Attach
      BY <2>1, <1>b, <1>d DEF Attach, Goto
    <2>2. CASE Detach
      BY <2>2, <1>b DEF Detach, Goto
    <2>3. CASE ResetLLMClients
      BY <2>3 DEF ResetLLMClients
    <2>4. CASE Rename
      BY <2>4, <1>b DEF Rename, Goto
    <2>5. CASE BeginChat
      BY <2>5, <1>a, <1>c DEF BeginChat, Goto
    <2>6. CASE KeyIdle
      BY <2>6 DEF KeyIdle, Goto
    <2>7. CASE AnswerPrompt
      BY <2>7 DEF AnswerPrompt, Goto
    <2>8. CASE Retry
      BY <2>8, <1>a, <1>c DEF Retry, Goto
    <2>9. CASE Decline
      BY <2>9 DEF Decline, Goto
    <2>10. CASE Launch
      <3>1. /\ invocationCount' = invocationCount /\ invocationCount # 0
            /\ approver' = approver /\ approver # 0 /\ ui' = "poll"
            /\ uiRun' = invocationCount /\ uiChan' = approver
            /\ worker' = [worker EXCEPT ![invocationCount] = "started"]
            /\ UNCHANGED <<client, call>>
        BY <2>10 DEF Launch, Goto
      <3>2. \A r \in Runs : worker'[r] # "none" => r <= invocationCount'
        BY <3>1
      <3>3. \A r \in Runs : worker'[r] = "streaming" => worker[r] = "streaming"
        BY <3>1
      <3>4. QED
        BY <3>1, <3>2, <3>3
    <2>11. CASE PollApproval
      BY <2>11 DEF PollApproval, Goto
    <2>12. CASE PollResult
      BY <2>12 DEF PollResult, Goto
    <2>13. CASE PollIdle
      BY <2>13 DEF PollIdle, Goto
    <2>14. QED
      BY <2>1, <2>2, <2>3, <2>4, <2>5, <2>6, <2>7, <2>8, <2>9, <2>10, <2>11, <2>12, <2>13 DEF UIProgram, User
  <1>3. QED
    BY <1>1, <1>2

\* TypeInv is inductive: the three lemmas on the parts of Next together.
LEMMA NextTypeInv == TypeInv /\ [Next]_vars => TypeInv'
  <1> SUFFICES ASSUME TypeInv, [Next]_vars PROVE TypeInv'
    OBVIOUS
  <1>1. CASE Next
    BY <1>1, WorkerTypeInv, CallTypeInv, UITypeInv DEF Next
  <1>2. CASE UNCHANGED vars
    BY <1>2 DEF vars, threadVars, workerVars, callVars, uiVars, TypeInv, TypeOK, Wired
  <1>3. QED
    BY <1>1, <1>2

\* The variables always have their types, and no step reads or writes the
\* request channel of an approver that was never created.
THEOREM TypeCorrect == Spec => []TypeOK
  <1>1. Spec => []TypeInv
    BY InitTypeInv, NextTypeInv, PTL DEF Spec
  <1>2. TypeInv => TypeOK
    BY DEF TypeInv
  <1>3. QED
    BY <1>1, <1>2, PTL

-----------------------------------------------------------------------------
(* Blocked is always undone.                                               *)

\* A step preserves that a blocked thread has a call that is asking, given the
\* types: the state leaves "blocked" only with the call that set it, or with the run.
LEMMA NextBlocked ==
  ASSUME TypeInv, BlockedHasAsker, [Next]_vars
  PROVE  BlockedHasAsker'
  <1> USE DEF TypeInv, TypeOK, BlockedHasAsker, Asking
  <1>1. ASSUME NEW r \in Runs, Worker(r) PROVE BlockedHasAsker'
    BY <1>1 DEF Worker, WorkerCopy, WorkerStream, WorkerFinalize, WorkerAbort, WorkerSend,
                WorkerExit, threadVars, callVars
  <1>2. ASSUME NEW c \in Calls, Call(c) PROVE BlockedHasAsker'
    <2>1. CASE CallAsk(c)
      BY <2>1 DEF CallAsk, Step, threadVars
    <2>2. CASE CallBlock(c)
      BY <2>2 DEF CallBlock, Step, SetStateIfEqual
    <2>3. CASE CallSend(c)
      BY <2>3 DEF CallSend, Step, threadVars
    <2>4. CASE CallCancel(c)
      BY <2>4 DEF CallCancel, Step, threadVars
    <2>5. CASE CallReply(c)
      BY <2>5 DEF CallReply, Step, threadVars
    <2>6. CASE CallLeave(c)
      BY <2>6 DEF CallLeave, Step, SetStateIfEqual
    <2>7. QED
      BY <1>2, <2>1, <2>2, <2>3, <2>4, <2>5, <2>6 DEF Call
  <1>3. ASSUME UIProgram \/ User PROVE BlockedHasAsker'
    BY <1>3 DEF UIProgram, User, Launch, PollApproval, PollResult, PollIdle, Attach, Detach,
       ResetLLMClients, Rename, BeginChat, KeyIdle, AnswerPrompt, Retry, Decline, SetRunning,
       threadVars, callVars
  <1>4. CASE UNCHANGED vars
    BY <1>4 DEF vars, threadVars, callVars
  <1>5. QED
    BY <1>1, <1>2, <1>3, <1>4 DEF Next

\* However many tool calls ask in parallel, and whatever runs they belong to, a
\* thread shown as blocked has a call that waits in AskApproval.
THEOREM BlockedCorrect == Spec => []BlockedHasAsker
  <1>1. Init => BlockedHasAsker
    BY DEF Init, BlockedHasAsker
  <1>2. Spec => []TypeInv
    BY InitTypeInv, NextTypeInv, PTL DEF Spec
  <1>3. QED
    BY <1>1, <1>2, NextBlocked, PTL DEF Spec
-----------------------------------------------------------------------------
(* Approval requests.  A request is in the channel of one approver, or on  *)
(* screen, or gone; an answered one is gone.                               *)

Awaited(c) == call[c] = "waiting" \/ cancelled[c[1]]
Sent(c)    == call[c] \in {"waiting", "leaving", "done"}
Pending(c) == Sent(c) /\ Awaited(c) /\ c \notin answered

PromptInv ==
    /\ \A g \in Runs : requests[g] # <<>> =>
          \E c \in Calls : requests[g] = <<c>> /\ Pending(c)
    /\ \A g, h \in Runs : requests[g] # <<>> /\ requests[g] = requests[h] => g = h
    /\ ui = "prompt" => Pending(uiReq) /\ \A g \in Runs : requests[g] # <<uiReq>>
    /\ \A c \in answered : Sent(c)

\* A step that leaves requests, answers and calls alone, revives no stopped run
\* and shows no new prompt preserves the invariant.
LEMMA PromptFrame ==
  ASSUME TypeInv, PromptInv, UNCHANGED <<requests, call, answered, uiReq>>,
         \A r \in Runs : cancelled[r] => cancelled'[r], ui' = "prompt" => ui = "prompt"
  PROVE  PromptInv'
  <1>1. \A c \in Calls : c[1] \in Runs
    BY DEF Calls
  <1>2. ASSUME NEW c \in Calls, Pending(c) PROVE Pending(c)'
    BY <1>1, <1>2 DEF Pending, Awaited, Sent
  <1>3. ui = "prompt" => uiReq \in Calls
    BY DEF TypeInv, Wired
  <1>4. QED
    BY <1>2, <1>3 DEF PromptInv, Sent

\* No step of a tool call gives up a request that is still pending, unless the
\* run was stopped.
LEMMA CallPrompt ==
  ASSUME TypeInv, PromptInv, NEW c \in Calls, Call(c)
  PROVE  PromptInv'
  <1>a. call \in [Calls -> CallSteps] /\ (ui = "prompt" => uiReq \in Calls)
        /\ answered \subseteq Calls /\ requests \in [Runs -> Seq(Calls)]
    BY DEF TypeInv, TypeOK, Wired
  <1>b. UNCHANGED <<ui, uiReq, answered, cancelled>>
    BY DEF Call, CallAsk, CallBlock, CallSend, CallCancel, CallReply, CallLeave,
       workerVars, uiVars
  <1>c. \A d \in Calls \ {c} : call'[d] = call[d]
    BY <1>a DEF Call, CallAsk, CallBlock, CallSend, CallCancel, CallReply, CallLeave, Step
  <1>d. \A d \in Calls \ {c} : (Pending(d) => Pending(d)') /\ (Sent(d) => Sent(d)')
    BY <1>b, <1>c DEF Pending, Awaited, Sent
  <1>e. Sent(c) => Sent(c)'
    BY <1>a DEF Sent, Call, CallAsk, CallBlock, CallSend, CallCancel, CallReply,
       CallLeave, Step
  <1>1. ASSUME UNCHANGED requests, Pending(c) => Pending(c)' PROVE PromptInv'
    <2>1. \A d \in Calls : (Pending(d) => Pending(d)') /\ (Sent(d) => Sent(d)')
      BY <1>d, <1>e, <1>1
    <2>2. QED
      BY <1>a, <1>b, <1>1, <2>1 DEF PromptInv
  <1>2. CASE CallAsk(c) \/ CallBlock(c)
    <2>1. ~Sent(c) /\ UNCHANGED requests
      BY <1>2 DEF CallAsk, CallBlock, Sent
    <2>2. QED
      BY <1>1, <2>1 DEF Pending
  <1>3. CASE CallSend(c)
    <2> DEFINE g == client[c[1]]
    <2>1. ~Sent(c) /\ ~Pending(c)
      BY <1>3 DEF CallSend, Sent, Pending
    <2>2. requests[g] = <<>> /\ requests' = [requests EXCEPT ![g] = <<c>>]
      BY <1>3 DEF CallSend
    <2>3. Pending(c)'
      <3>1. call'[c] = "waiting"
        BY <1>a, <1>3 DEF CallSend, Step
      <3>2. c \notin answered
        BY <2>1 DEF PromptInv
      <3>3. QED
        BY <1>b, <3>1, <3>2 DEF Pending, Sent, Awaited
    <2>4. \A h \in Runs : requests[h] # <<c>>
      BY <2>1 DEF PromptInv
    <2>5. ui = "prompt" => uiReq # c
      BY <2>1 DEF PromptInv
    <2> HIDE DEF g
    <2>6. \A h \in Runs : /\ h # g => requests'[h] = requests[h]
                          /\ h = g => requests'[h] = <<c>>
      BY <1>a, <2>2
    <2>7. ASSUME NEW h \in Runs, requests'[h] # <<>>
          PROVE  \E d \in Calls : requests'[h] = <<d>> /\ Pending(d)'
      <3>1. CASE h = g
        BY <2>3, <2>6, <3>1
      <3>2. CASE h # g
        <4>1. PICK d \in Calls : requests[h] = <<d>> /\ Pending(d)
          BY <2>6, <2>7, <3>2 DEF PromptInv
        <4>2. Pending(d)'
          BY <1>d, <2>1, <4>1
        <4>3. QED
          BY <2>6, <3>2, <4>1, <4>2
      <3>3. QED
        BY <3>1, <3>2
    <2>8. \A h, k \in Runs : requests'[h] # <<>> /\ requests'[h] = requests'[k] => h = k
      BY <2>4, <2>6 DEF PromptInv
    <2>9. ui' = "prompt" => Pending(uiReq)' /\ \A h \in Runs : requests'[h] # <<uiReq'>>
      <3>1. ui = "prompt" => uiReq \in Calls \ {c} /\ Pending(uiReq)
                             /\ \A h \in Runs : requests[h] # <<uiReq>>
        BY <1>a, <2>5 DEF PromptInv
      <3>2. ui = "prompt" => \A h \in Runs : requests'[h] # <<uiReq>>
        BY <2>6, <3>1
      <3>3. QED
        BY <1>b, <1>d, <3>1, <3>2
    <2>10. \A d \in answered' : Sent(d)'
      BY <1>a, <1>b, <1>d, <1>e DEF PromptInv
    <2>11. QED
      BY <2>7, <2>8, <2>9, <2>10 DEF PromptInv
  <1>4. CASE CallCancel(c)
    <2>1. cancelled[c[1]] /\ UNCHANGED requests
      BY <1>4 DEF CallCancel
    <2>2. QED
      BY <1>b, <1>e, <1>1, <2>1 DEF Pending, Awaited
  <1>5. CASE CallReply(c)
    BY <1>1, <1>5 DEF CallReply, Pending
  <1>6. CASE CallLeave(c)
    <2>1. call[c] = "leaving" /\ UNCHANGED requests
      BY <1>6 DEF CallLeave
    <2>2. QED
      BY <1>b, <1>e, <1>1, <2>1 DEF Pending, Awaited
  <1>7. QED
    BY <1>2, <1>3, <1>4, <1>5, <1>6 DEF Call

\* The view shows one request at a time and answers it once.
LEMMA PollPrompt ==
  ASSUME TypeInv, PromptInv, PollApproval \/ AnswerPrompt
  PROVE  PromptInv'
  <1>a. /\ uiRun # None => uiChan \in Runs
        /\ requests \in [Runs -> Seq(Calls)] /\ (ui = "prompt" => uiReq \in Calls)
    BY RunAssumption DEF TypeInv, TypeOK, Wired, Runs, None
  <1>b. UNCHANGED <<call, cancelled>>
    BY DEF PollApproval, AnswerPrompt, workerVars
  <1>c. \A c \in Calls : Sent(c)' = Sent(c) /\ Awaited(c)' = Awaited(c)
    BY <1>b DEF Sent, Awaited
  <1>1. CASE PollApproval
    <2>1. uiChan \in Runs /\ requests[uiChan] # <<>> /\ ui' = "prompt"
          /\ uiReq' = Head(requests[uiChan]) /\ UNCHANGED answered
          /\ requests' = [requests EXCEPT ![uiChan] = Tail(@)]
      BY <1>a, <1>1 DEF PollApproval, Goto
    <2>2. PICK c \in Calls : requests[uiChan] = <<c>> /\ Pending(c)
      BY <2>1 DEF PromptInv
    <2>3. uiReq' = c /\ requests'[uiChan] = <<>>
          /\ \A g \in Runs \ {uiChan} : requests'[g] = requests[g]
      BY <1>a, <2>1, <2>2
    <2>4. \A g \in Runs \ {uiChan} : requests[g] # <<c>>
      BY <2>1, <2>2 DEF PromptInv
    <2>5. \A d \in Calls : Pending(d) => Pending(d)'
      BY <1>c, <2>1 DEF Pending
    <2>6. Pending(uiReq)'
      BY <2>2, <2>3, <2>5
    <2>7. \A g \in Runs : requests'[g] # <<uiReq'>>
      BY <2>3, <2>4
    <2>8. \A g \in Runs : requests'[g] # <<>> =>
              \E d \in Calls : requests'[g] = <<d>> /\ Pending(d)'
      BY <2>3, <2>5 DEF PromptInv
    <2>9. \A g, h \in Runs : requests'[g] # <<>> /\ requests'[g] = requests'[h] => g = h
      BY <2>3 DEF PromptInv
    <2>10. \A d \in answered' : Sent(d)'
      BY <1>b, <2>1 DEF PromptInv, Sent
    <2>11. QED
      BY <2>1, <2>6, <2>7, <2>8, <2>9, <2>10 DEF PromptInv
  <1>2. CASE AnswerPrompt
    <2>1. /\ uiReq \in Calls /\ answered' = answered \cup {uiReq}
          /\ UNCHANGED requests /\ ui' # "prompt"
          /\ Sent(uiReq) /\ \A g \in Runs : requests[g] # <<uiReq>>
      BY <1>a, <1>2 DEF AnswerPrompt, Goto, PromptInv, Pending
    <2>2. \A d \in Calls \ {uiReq} : Pending(d) => Pending(d)'
      BY <1>c, <2>1 DEF Pending
    <2>3. \A g \in Runs : requests'[g] # <<>> =>
              \E d \in Calls : requests'[g] = <<d>> /\ Pending(d)'
      <3>1. ASSUME NEW g \in Runs, requests[g] # <<>>
            PROVE  \E d \in Calls : requests[g] = <<d>> /\ Pending(d)'
        <4>1. PICK d \in Calls : requests[g] = <<d>> /\ Pending(d)
          BY <3>1 DEF PromptInv
        <4>2. d # uiReq
          BY <2>1, <4>1
        <4>3. QED
          BY <2>2, <4>1, <4>2
      <3>2. QED
        BY <2>1, <3>1
    <2>4. \A d \in answered' : Sent(d)'
      BY <1>b, <2>1 DEF PromptInv, Sent
    <2>5. QED
      BY <2>1, <2>3, <2>4 DEF PromptInv
  <1>3. QED
    BY <1>1, <1>2

\* The user is never asked on behalf of a call that gave up by itself, whatever
\* calls ask in parallel, are answered in between or outlive their run, and
\* also when saves fail.
THEOREM PromptsCorrect == Spec => []PromptsAreLive
  <1>1. Init => PromptInv
    BY DEF Init, PromptInv
  <1>2. TypeInv /\ PromptInv /\ [Next]_vars => PromptInv'
    <2> SUFFICES ASSUME TypeInv, PromptInv, [Next]_vars PROVE PromptInv'
      OBVIOUS
    <2>1. CASE UNCHANGED vars
      BY <2>1, PromptFrame DEF vars, workerVars, callVars, uiVars
    <2>2. ASSUME NEW r \in Runs, Worker(r) PROVE PromptInv'
      BY <2>2, PromptFrame DEF Worker, WorkerCopy, WorkerStream, WorkerFinalize,
         WorkerAbort, WorkerSend, WorkerExit, callVars, uiVars
    <2>3. CASE PollResult
      <3>1. UNCHANGED <<requests, call, answered, uiReq>> /\ ui' # "prompt"
        BY <2>3 DEF PollResult, callVars, Goto
      <3>2. cancelled' = cancelled \/ cancelled' = [cancelled EXCEPT ![uiRun] = TRUE]
        BY <2>3 DEF PollResult
      <3>3. \A r \in Runs : cancelled[r] => cancelled'[r]
        BY <3>2, Zenon DEF TypeInv, TypeOK
      <3>4. QED
        BY <3>1, <3>3, PromptFrame
    <2>4. CASE \/ Attach \/ Detach \/ ResetLLMClients \/ Rename \/ BeginChat \/ KeyIdle
               \/ Retry \/ Decline \/ Launch \/ PollIdle
      <3>1. UNCHANGED <<requests, call, answered, uiReq, cancelled>>
            /\ (ui' = "prompt" => ui = "prompt")
        BY <2>4 DEF Attach, Detach, ResetLLMClients, Rename, BeginChat, KeyIdle, Retry,
           Decline, Launch, PollIdle, Goto, workerVars, callVars, uiVars
      <3>2. QED
        BY <3>1, PromptFrame
    <2>5. QED
      BY <2>1, <2>2, <2>3, <2>4, CallPrompt, PollPrompt DEF Next, UIProgram, User
  <1>3. TypeInv /\ PromptInv => PromptsAreLive
    <2> SUFFICES ASSUME TypeInv, PromptInv PROVE PromptsAreLive
      OBVIOUS
    <2>1. ASSUME NEW g \in Runs, NEW c \in Range(requests[g]) PROVE Awaited(c)
      <3>1. requests[g] \in Seq(Calls) /\ requests[g] # <<>>
        BY <2>1 DEF TypeInv, TypeOK, Range
      <3>2. PICK d \in Calls : requests[g] = <<d>> /\ Pending(d)
        BY <3>1 DEF PromptInv
      <3>3. c = d
        BY <3>2 DEF Range
      <3>4. QED
        BY <3>2, <3>3 DEF Pending
    <2>2. QED
      BY <2>1 DEF PromptsAreLive, PromptInv, Pending, Awaited
  <1>4. Spec => []TypeInv
    BY InitTypeInv, NextTypeInv, PTL DEF Spec
  <1>5. QED
    BY <1>1, <1>2, <1>3, <1>4, PTL DEF Spec

-----------------------------------------------------------------------------
(* While saves succeed.  RunInv ties the thread's state to its workers:    *)
(* the copy a worker took is still the current dialogue when it installs   *)
(* its extension, because no other worker can be in flight.                *)

Reported(r) == worker[r] \in {"finalized", "sent", "done"}

RunInv ==
    /\ \A r \in Runs : worker[r] # "saveFailed"
    /\ \A r \in Runs : InFlight(r) => state # "idle" /\ r = invocationCount /\ ui # "launch"
    /\ state # "idle" => ui = "launch" \/ \E r \in Runs : InFlight(r)
    /\ ui = "launch" => state # "idle" /\ worker[invocationCount] = "none"
    /\ disk = dialogue /\ Strip(dialogue) \in Seq(Runs)
    /\ \A r \in Runs : worker[r] \in {"copied", "streaming"} => prior[r] = Strip(dialogue)
    /\ \A r \in Runs : result[r] # "none" => worker[r] \in {"sent", "done"}
    /\ \A r \in Runs : worker[r] = "finalized" \/ result[r] = "ok" => r \in Range(dialogue)
    /\ \A r \in Runs : r \in Range(dialogue) => Reported(r) /\ result[r] # "err"

\* The elements of a sequence with one more appended.
LEMMA RangeAppend ==
  ASSUME NEW S, NEW s \in Seq(S), NEW e \in S
  PROVE  Range(Append(s, e)) = Range(s) \cup {e} /\ Range(s) \subseteq S
  <1>1. /\ Append(s, e) \in Seq(S) /\ Len(Append(s, e)) = Len(s) + 1
        /\ \A i \in 1 .. Len(s) : Append(s, e)[i] = s[i]
        /\ Append(s, e)[Len(s) + 1] = e
        /\ DOMAIN s = 1 .. Len(s) /\ DOMAIN Append(s, e) = 1 .. Len(s) + 1
    OBVIOUS
  <1>2. QED
    BY <1>1 DEF Range

\* No step of the worker breaks RunInv when no save fails.
LEMMA WorkerRunInv ==
  ASSUME ~SaveMayFail, TypeInv, RunInv, NEW r \in Runs, Worker(r)
  PROVE  RunInv'
  <1> USE DEF TypeInv, TypeOK, RunInv, InFlight, Reported
  <1>1. CASE WorkerCopy(r)
    BY <1>1 DEF WorkerCopy, threadVars, callVars, uiVars, WorkerSteps
  <1>2. CASE WorkerStream(r)
    BY <1>2 DEF WorkerStream, threadVars, callVars, uiVars, WorkerSteps
  <1>3. CASE WorkerFinalize(r)
    <2>1. /\ dialogue' = Append(Strip(dialogue), r) /\ disk' = dialogue' /\ state' = "idle"
          /\ worker' = [worker EXCEPT ![r] = "finalized"]
          /\ UNCHANGED <<invocationCount, prior, result, ui>>
          /\ worker[r] = "streaming" /\ r = invocationCount /\ ui # "launch"
          /\ \A q \in Runs : q # r => ~InFlight(q)
      BY <1>3 DEF WorkerFinalize, uiVars
    <2>2. Range(dialogue') \cap Runs = (Range(dialogue) \cap Runs) \cup {r}
      <3>1. Strip(dialogue) \in Seq(Messages) /\ r \in Messages
            /\ Range(Strip(dialogue)) \cap Runs = Range(dialogue) \cap Runs
        BY StripType DEF Messages
      <3>2. Range(dialogue') = Range(Strip(dialogue)) \cup {r}
        BY <2>1, <3>1, RangeAppend
      <3>3. QED
        BY <3>1, <3>2
    <2>3. dialogue' \in Seq(Runs) /\ Strip(dialogue') = dialogue'
      <3>1. Append(Strip(dialogue), r) \in Seq(Runs)
        OBVIOUS
      <3>2. QED
        BY <2>1, <3>1, StripRuns
    <2>4. QED
      BY <2>1, <2>2, <2>3 DEF WorkerSteps
  <1>4. CASE WorkerAbort(r)
    BY <1>4 DEF WorkerAbort, callVars, uiVars, WorkerSteps
  <1>5. CASE WorkerSend(r)
    BY <1>5 DEF WorkerSend, threadVars, callVars, uiVars, WorkerSteps
  <1>6. CASE WorkerExit(r)
    BY <1>6 DEF WorkerExit, threadVars, callVars, uiVars, WorkerSteps
  <1>7. QED
    BY <1>1, <1>2, <1>3, <1>4, <1>5, <1>6 DEF Worker

\* No step of a tool call breaks RunInv.
LEMMA CallRunInv ==
  ASSUME TypeInv, RunInv, NEW c \in Calls, Call(c)
  PROVE  RunInv'
  <1>1. /\ state' = "idle" <=> state = "idle"
        /\ UNCHANGED <<runState, dialogue, disk, invocationCount, workerVars, uiVars>>
    BY DEF Call, CallAsk, CallBlock, CallSend, CallCancel, CallReply, CallLeave, SetStateIfEqual,
           threadVars, TypeInv, TypeOK, ThreadStates
  <1>2. QED
    BY <1>1 DEF RunInv, InFlight, Reported, workerVars, uiVars

\* No step of the UI breaks RunInv.
LEMMA UIRunInv ==
  ASSUME ~SaveMayFail, TypeInv, RunInv, UIProgram \/ User
  PROVE  RunInv'
  <1> USE DEF TypeInv, TypeOK, RunInv, InFlight, Reported
  <1>1. ASSUME SetRunning, ui' = "launch", UNCHANGED <<dialogue, disk, workerVars>>
        PROVE  RunInv'
    <2>1. /\ state' = "running" /\ invocationCount' = invocationCount + 1
          /\ invocationCount' \in Runs /\ \A r \in Runs : ~InFlight(r)
      BY <1>1, RunAssumption DEF SetRunning, Runs
    <2>2. worker[invocationCount'] = "none"
      BY <2>1 DEF Wired, Runs
    <2>3. QED
      BY <1>1, <2>1, <2>2 DEF workerVars
  <1>2. CASE Launch
    <2>1. invocationCount \in Runs
      BY <1>2, RunAssumption DEF Launch, Wired, Runs
    <2>2. QED
      BY <1>2, <2>1 DEF Launch, Goto, WorkerSteps
  <1>3. ASSUME UNCHANGED <<state, dialogue, invocationCount, worker, prior, result>>,
               disk' = dialogue, ui # "launch", ui' # "launch"
        PROVE  RunInv'
    BY <1>3
  <1>4. CASE PollApproval \/ PollResult \/ PollIdle
    BY <1>4, <1>3 DEF PollApproval, PollResult, PollIdle, Goto, threadVars, workerVars
  <1>5. CASE ResetLLMClients \/ KeyIdle \/ AnswerPrompt \/ Decline
    BY <1>5, <1>3 DEF ResetLLMClients, KeyIdle, AnswerPrompt, Decline, Goto, threadVars, workerVars,
       uiVars
  <1>6. CASE Attach \/ Detach \/ Rename
    BY <1>6, <1>3 DEF Attach, Detach, Rename, Goto, Access, Save, SaveOk, SaveError, workerVars
  <1>7. CASE BeginChat \/ Retry
    BY <1>7, <1>1 DEF BeginChat, Retry, Goto
  <1>8. QED
    BY <1>2, <1>4, <1>5, <1>6, <1>7 DEF UIProgram, User

\* RunInv, with TypeInv, is an invariant when no save fails.
LEMMA RunInvariant == ASSUME ~SaveMayFail PROVE Spec => [](TypeInv /\ RunInv)
  <1>1. Init => TypeInv /\ RunInv
    <2>1. Init => \A r \in Runs : r \notin Range(dialogue)
      BY DEF Init, Range, System, Runs
    <2>4. Init => Strip(dialogue) \in Seq(Runs)
      <3>1. <<>> \in Seq(Runs)
        OBVIOUS
      <3>2. Init => Strip(dialogue) = <<>>
        BY StripInit, Zenon DEF Init
      <3>3. QED
        BY <3>1, <3>2
    <2>2. Init => RunInv
      BY <2>1, <2>4 DEF Init, RunInv, InFlight
    <2>3. QED
      BY <2>2, InitTypeInv
  <1>2. TypeInv /\ RunInv /\ [Next]_vars => (TypeInv /\ RunInv)'
    <2> SUFFICES ASSUME TypeInv, RunInv, [Next]_vars PROVE RunInv'
      BY NextTypeInv
    <2>1. CASE Next
      BY <2>1, WorkerRunInv, CallRunInv, UIRunInv DEF Next
    <2>2. CASE UNCHANGED vars
      BY <2>2 DEF vars, threadVars, workerVars, uiVars, RunInv, InFlight, Reported
    <2>3. QED
      BY <2>1, <2>2
  <1>3. QED
    BY <1>1, <1>2, PTL DEF Spec

\* While saves succeed, an idle thread has no worker and a non-idle one has
\* exactly one, its newest run: the invariant setRunning, MoveThread and the
\* quit warning rely on.
THEOREM StateCorrect == ASSUME ~SaveMayFail PROVE Spec => []StateMatchesWorker
  <1>1. TypeInv /\ RunInv => StateMatchesWorker
    BY DEF RunInv, StateMatchesWorker
  <1>2. QED
    BY <1>1, RunInvariant, PTL

\* While saves succeed, what a run reported is what the dialogue and thread.json
\* hold.
THEOREM ResultsCorrect == ASSUME ~SaveMayFail PROVE Spec => []ResultsMatchDialogue
  <1>1. TypeInv /\ RunInv => ResultsMatchDialogue
    BY DEF RunInv, ResultsMatchDialogue
  <1>2. QED
    BY <1>1, RunInvariant, PTL

\* The only steps that change the dialogue are those of a worker that finalizes,
\* and it appends to the dialogue it finds, without a persisted system message.
LEMMA DialogueStep ==
  ASSUME ~SaveMayFail, TypeInv, RunInv, [Next]_vars
  PROVE  \/ UNCHANGED dialogue
         \/ \E r \in Runs : WorkerFinalize(r) /\ dialogue' = Append(Strip(dialogue), r)
                              /\ disk' = dialogue' /\ r = invocationCount /\ state # "idle"
  <1>1. ASSUME NEW r \in Runs, Worker(r)
        PROVE  UNCHANGED dialogue
                 \/ (WorkerFinalize(r) /\ dialogue' = Append(Strip(dialogue), r)
                       /\ disk' = dialogue' /\ r = invocationCount /\ state # "idle")
    BY <1>1 DEF Worker, WorkerCopy, WorkerStream, WorkerFinalize, WorkerAbort, WorkerSend,
                WorkerExit, threadVars, RunInv, InFlight
  <1>2. ASSUME NEW c \in Calls, Call(c) PROVE UNCHANGED dialogue
    BY <1>2 DEF Call, CallAsk, CallBlock, CallSend, CallCancel, CallReply, CallLeave, threadVars
  <1>3. ASSUME UIProgram \/ User PROVE UNCHANGED dialogue
    BY <1>3 DEF UIProgram, User, Launch, PollApproval, PollResult, PollIdle, Attach, Detach,
       ResetLLMClients, Rename, BeginChat, KeyIdle, AnswerPrompt, Retry, Decline, threadVars
  <1>4. CASE UNCHANGED vars
    BY <1>4 DEF vars, threadVars
  <1>5. QED
    BY <1>1, <1>2, <1>3, <1>4 DEF Next

\* While saves succeed, no reply is lost to a concurrent update of the dialogue.
THEOREM AppendOnlyCorrect == ASSUME ~SaveMayFail PROVE Spec => DialogueAppendOnly
  <1>1. TypeInv /\ RunInv /\ [Next]_vars => [\E r \in Runs : dialogue' = Append(Strip(dialogue), r)]_dialogue
    BY DialogueStep
  <1>2. QED
    BY <1>1, RunInvariant, PTL DEF Spec, DialogueAppendOnly

-----------------------------------------------------------------------------
(* Refinement.                                                             *)

\* Every step maps to a step of ChatLog, or changes nothing ChatLog sees.
LEMMA RefineStep ==
  ASSUME ~SaveMayFail, TypeInv, RunInv, [Next]_vars
  PROVE  [Log!Next]_(Log!chatVars)
  <1> USE DEF Log!Next, Log!chatVars, Log!Begin, Log!Commit, Log!Fail, None
  <1>1. ASSUME NEW r \in Runs, Worker(r) PROVE [Log!Next]_(Log!chatVars)
    <2>1. CASE WorkerFinalize(r)
      <3>1. /\ state # "idle" /\ state' = "idle" /\ r = invocationCount /\ invocationCount # 0
            /\ dialogue' = Append(Strip(dialogue), r) /\ disk' = dialogue' /\ UNCHANGED invocationCount
        BY <2>1, RunAssumption DEF WorkerFinalize, RunInv, InFlight, Runs
      <3>4. Strip(dialogue') = dialogue'
        <4>1. dialogue' \in Seq(Runs)
          BY <3>1 DEF RunInv
        <4>2. QED
          BY <4>1, StripRuns
      <3>2. Log!Commit
        BY <3>1, <3>4
      <3>3. QED
        BY <3>2
    <2>2. CASE WorkerAbort(r)
      <3>1. /\ state # "idle" /\ state' = "idle" /\ r = invocationCount /\ invocationCount # 0
            /\ UNCHANGED <<dialogue, disk, invocationCount>>
        BY <2>2, RunAssumption DEF WorkerAbort, RunInv, InFlight, Runs
      <3>2. Log!Fail
        BY <3>1
      <3>3. QED
        BY <3>2
    <2>3. CASE WorkerCopy(r) \/ WorkerStream(r) \/ WorkerSend(r) \/ WorkerExit(r)
      BY <2>3 DEF WorkerCopy, WorkerStream, WorkerSend, WorkerExit, threadVars
    <2>4. QED
      BY <1>1, <2>1, <2>2, <2>3 DEF Worker
  <1>2. ASSUME NEW c \in Calls, Call(c) PROVE [Log!Next]_(Log!chatVars)
    BY <1>2 DEF Call, CallAsk, CallBlock, CallSend, CallCancel, CallReply, CallLeave, SetStateIfEqual,
       threadVars
  <1>3. ASSUME SetRunning, UNCHANGED <<dialogue, disk>> PROVE Log!Begin
    BY <1>3, RunAssumption DEF SetRunning, TypeInv, TypeOK
  <1>4. CASE BeginChat \/ Retry
    BY <1>3, <1>4 DEF BeginChat, Retry
  <1>5. CASE Launch \/ PollApproval \/ PollResult \/ PollIdle
    BY <1>5 DEF Launch, PollApproval, PollResult, PollIdle, threadVars
  <1>6. CASE ResetLLMClients \/ KeyIdle \/ AnswerPrompt \/ Decline
    BY <1>6 DEF ResetLLMClients, KeyIdle, AnswerPrompt, Decline, threadVars
  <1>7. CASE Attach \/ Detach \/ Rename
    BY <1>7 DEF Attach, Detach, Rename, Access, Save, SaveOk, SaveError, RunInv
  <1>8. CASE UNCHANGED vars
    BY <1>8 DEF vars, threadVars
  <1>9. QED
    BY <1>1, <1>2, <1>4, <1>5, <1>6, <1>7, <1>8 DEF Next, UIProgram, User

\* While saves succeed, a thread implements the durable chat log: all its
\* concurrency is invisible to a reader of the dialogue and of thread.json.
THEOREM Refinement == ASSUME ~SaveMayFail PROVE Spec => ImplementsChatLog
  <1>1. Init => Log!Init
    <2>1. Init => Strip(dialogue) = <<>> /\ Strip(disk) = <<>>
      BY StripInit, Zenon DEF Init
    <2>2. QED
      BY <2>1 DEF Init, Log!Init, None
  <1>2. TypeInv /\ RunInv /\ [Next]_vars => [Log!Next]_(Log!chatVars)
    BY RefineStep
  <1>3. QED
    BY <1>1, <1>2, RunInvariant, PTL DEF Spec, ImplementsChatLog, Log!Spec
-----------------------------------------------------------------------------
(***************************************************************************)
(* Progress events of one run: proofs for any sets of publishers and       *)
(* subscribers, any capacity of the channels and any number of events.     *)
(***************************************************************************)

\* What the registrations say of the subscribers, and a publisher's event of
\* its progress.
Registered ==
    /\ subs = {s \in Subscribers : sub[s] \in {"registered", "subscribed"}}
    /\ closedSubs = {s \in Subscribers : sub[s] = "gone"}
    /\ \A p \in Publishers : pub[p] # "idle" => event[p] # NoEvent

ProgressTypeInv == ProgressTypeOK /\ Registered

\* Is publisher p still to send the latest event to s?
Brings(p, s) ==
    /\ event[p] = current
    /\ pub[p] = "stored" \/ (pub[p] = "sending" /\ s \in targets[p])

\* A subscriber that lacks the latest event is about to be sent it.
Coming ==
    \A s \in Subscribers :
        sub[s] = "subscribed" /\ current # NoEvent =>
            current \in offered[s] \/ \E p \in Publishers : Brings(p, s)

\* A closed channel is sent to by publishers that are racing its subscriber only,
\* and none of them did so before the program ended.
StaleTargets ==
    /\ panicked \subseteq raced
    /\ \A p \in Publishers, s \in Subscribers :
           s \in targets[p] /\ s \in closedSubs => <<p, s>> \in raced
-----------------------------------------------------------------------------
(* Types and registrations.                                                *)

\* An event that is offered to a channel leaves the channels well-typed.
LEMMA OfferType ==
  ASSUME ProgressTypeInv, NEW s \in Subscribers, NEW e \in 1 .. MaxEvents, Offer(s, e)
  PROVE  /\ chan' \in [Subscribers -> Seq(1 .. MaxEvents)]
         /\ offered' \in [Subscribers -> SUBSET (1 .. MaxEvents)]
  <1>1. chan[s] \in Seq(1 .. MaxEvents) /\ Append(chan[s], e) \in Seq(1 .. MaxEvents)
    BY DEF ProgressTypeInv, ProgressTypeOK
  <1>2. QED
    BY <1>1 DEF ProgressTypeInv, ProgressTypeOK, Offer

\* A step of a publisher preserves types and registrations.
LEMMA PublishType ==
  ASSUME ProgressTypeInv, NEW p \in Publishers,
         \/ PublishStore(p) \/ PublishCopy(p) \/ PublishDone(p)
         \/ \E s \in Subscribers : PublishSend(p, s)
  PROVE  ProgressTypeInv'
  <1> USE ProgressAssumption DEF ProgressTypeInv, ProgressTypeOK, Registered, NoEvent
  <1>1. CASE PublishStore(p)
    <2>1. events' \in 1 .. MaxEvents
      BY <1>1 DEF PublishStore
    <2>2. QED
      BY <1>1, <2>1 DEF PublishStore
  <1>2. CASE PublishCopy(p)
    BY <1>2 DEF PublishCopy
  <1>3. CASE PublishDone(p)
    BY <1>3 DEF PublishDone
  <1>4. ASSUME NEW s \in Subscribers, PublishSend(p, s) PROVE ProgressTypeInv'
    <2>1. event[p] \in 1 .. MaxEvents
      BY <1>4 DEF PublishSend
    <2>2. /\ chan' \in [Subscribers -> Seq(1 .. MaxEvents)]
          /\ offered' \in [Subscribers -> SUBSET (1 .. MaxEvents)]
          /\ panicked' \subseteq Publishers \X Subscribers
      BY <1>4, <2>1, OfferType DEF PublishSend
    <2>3. QED
      BY <1>4, <2>2 DEF PublishSend
  <1>5. QED
    BY <1>1, <1>2, <1>3, <1>4

\* A step of a subscriber preserves types and registrations.
LEMMA SubscribeType ==
  ASSUME ProgressTypeInv, NEW s \in Subscribers,
         Register(s) \/ Replay(s) \/ Receive(s) \/ Unsubscribe(s)
  PROVE  ProgressTypeInv'
  <1> USE DEF ProgressTypeInv, ProgressTypeOK, Registered, NoEvent
  <1>1. CASE Register(s)
    BY <1>1 DEF Register
  <1>2. CASE Replay(s)
    <2>1. /\ chan' \in [Subscribers -> Seq(1 .. MaxEvents)]
          /\ offered' \in [Subscribers -> SUBSET (1 .. MaxEvents)]
      BY <1>2, OfferType, ProgressAssumption DEF Replay
    <2>2. QED
      BY <1>2, <2>1 DEF Replay
  <1>3. CASE Receive(s)
    <2>1. Tail(chan[s]) \in Seq(1 .. MaxEvents)
      BY <1>3 DEF Receive
    <2>2. QED
      BY <1>3, <2>1 DEF Receive
  <1>4. CASE Unsubscribe(s)
    BY <1>4 DEF Unsubscribe, Racing
  <1>5. QED
    BY <1>1, <1>2, <1>3, <1>4

\* Types and registrations are inductive.
LEMMA ProgressTypeInvariant == ProgressSpec => []ProgressTypeInv
  <1>1. ProgressInit => ProgressTypeInv
    <2> SUFFICES ASSUME ProgressInit PROVE ProgressTypeInv
      OBVIOUS
    <2>1. chan \in [Subscribers -> Seq(1 .. MaxEvents)]
      <3>1. <<>> \in Seq(1 .. MaxEvents)
        OBVIOUS
      <3>2. QED
        BY <3>1 DEF ProgressInit
    <2>2. Registered
      BY DEF ProgressInit, Registered, NoEvent
    <2>3. current \in 0 .. MaxEvents /\ events \in 0 .. MaxEvents
          /\ event \in [Publishers -> 0 .. MaxEvents]
      BY ProgressAssumption DEF ProgressInit, NoEvent
    <2>4. offered \in [Subscribers -> SUBSET (1 .. MaxEvents)]
      BY DEF ProgressInit
    <2>5. QED
      BY <2>1, <2>2, <2>3, <2>4 DEF ProgressInit, ProgressTypeInv, ProgressTypeOK
  <1>2. ProgressTypeInv /\ [ProgressNext]_progressVars => ProgressTypeInv'
    <2>1. CASE UNCHANGED progressVars
      BY <2>1 DEF progressVars, ProgressTypeInv, ProgressTypeOK, Registered
    <2>2. QED
      BY <2>1, PublishType, SubscribeType DEF ProgressNext
  <1>3. QED
    BY <1>1, <1>2, PTL DEF ProgressSpec

\* Every variable has its type; no channel ever holds the empty event.
THEOREM ProgressTypeCorrect == ProgressSpec => []ProgressTypeOK
  BY ProgressTypeInvariant, PTL DEF ProgressTypeInv
-----------------------------------------------------------------------------
(* Delivery.                                                               *)

\* A step of a publisher takes no one's latest event away.
LEMMA PublishComing ==
  ASSUME ProgressTypeInv, Coming, NEW p \in Publishers,
         \/ PublishStore(p) \/ PublishCopy(p) \/ PublishDone(p)
         \/ \E s \in Subscribers : PublishSend(p, s)
  PROVE  Coming'
  <1> USE DEF ProgressTypeInv, ProgressTypeOK, Registered, Coming, Brings
  <1>1. CASE PublishStore(p)
    BY <1>1 DEF PublishStore
  <1>2. CASE PublishCopy(p)
    BY <1>2 DEF PublishCopy
  <1>3. CASE PublishDone(p)
    BY <1>3 DEF PublishDone
  <1>4. ASSUME NEW t \in Subscribers, PublishSend(p, t) PROVE Coming'
    BY <1>4 DEF PublishSend, Offer
  <1>5. QED
    BY <1>1, <1>2, <1>3, <1>4

\* Nor does a step of a subscriber.
LEMMA SubscribeComing ==
  ASSUME ProgressTypeInv, Coming, NEW t \in Subscribers,
         Register(t) \/ Replay(t) \/ Receive(t) \/ Unsubscribe(t)
  PROVE  Coming'
  <1> USE DEF ProgressTypeInv, ProgressTypeOK, Registered, Coming, Brings
  <1>1. CASE Register(t)
    BY <1>1 DEF Register
  <1>2. CASE Replay(t)
    BY <1>2 DEF Replay, Offer
  <1>3. CASE Receive(t) \/ Unsubscribe(t)
    BY <1>3 DEF Receive, Unsubscribe
  <1>4. QED
    BY <1>1, <1>2, <1>3

\* However a subscription races the publication of an event, once the callbacks
\* are done the subscriber was offered the latest event (SubscribeProgress).
THEOREM LatestCorrect == ProgressSpec => []LatestIsOffered
  <1>1. ProgressInit => Coming
    BY DEF ProgressInit, Coming
  <1>2. ProgressTypeInv /\ Coming /\ [ProgressNext]_progressVars => Coming'
    <2>1. CASE UNCHANGED progressVars
      BY <2>1 DEF progressVars, Coming, Brings
    <2>2. QED
      BY <2>1, PublishComing, SubscribeComing DEF ProgressNext
  <1>3. Coming => LatestIsOffered
    BY DEF Coming, Brings, LatestIsOffered
  <1>4. QED
    BY <1>1, <1>2, <1>3, ProgressTypeInvariant, PTL DEF ProgressSpec
-----------------------------------------------------------------------------
(* Closed channels.                                                        *)

\* publishProgress sends on a closed channel only where it copied the list before
\* UnsubscribeProgress took the channel off it, for any number of callbacks that
\* outlive their run and of subscribers that leave.
THEOREM PanicRaceCorrect == ProgressSpec => []PanicNeedsRace
  <1>1. ProgressInit => StaleTargets
    BY DEF ProgressInit, StaleTargets
  <1>2. ProgressTypeInv /\ StaleTargets /\ [ProgressNext]_progressVars => StaleTargets'
    <2> SUFFICES ASSUME ProgressTypeInv, StaleTargets, [ProgressNext]_progressVars
                 PROVE  StaleTargets'
      OBVIOUS
    <2> USE DEF ProgressTypeInv, ProgressTypeOK, Registered, StaleTargets
    <2>1. ASSUME NEW p \in Publishers, PublishStore(p) \/ PublishDone(p) PROVE StaleTargets'
      <3>1. UNCHANGED <<targets, closedSubs, raced, panicked>>
        BY <2>1 DEF PublishStore, PublishDone
      <3>2. QED
        BY <3>1
    <2>2. ASSUME NEW p \in Publishers, PublishCopy(p) PROVE StaleTargets'
      <3>1. subs \cap closedSubs = {}
        OBVIOUS
      <3>2. QED
        BY <2>2, <3>1 DEF PublishCopy
    <2>3. ASSUME NEW p \in Publishers, NEW s \in Subscribers, PublishSend(p, s)
          PROVE  StaleTargets'
      <3>1. panicked' \subseteq raced'
        BY <2>3 DEF PublishSend
      <3>2. /\ UNCHANGED <<closedSubs, raced>>
            /\ \A q \in Publishers : targets'[q] \subseteq targets[q]
        BY <2>3 DEF PublishSend
      <3>3. QED
        BY <3>1, <3>2
    <2>4. ASSUME NEW s \in Subscribers, Register(s) \/ Replay(s) \/ Receive(s)
          PROVE  StaleTargets'
      <3>1. UNCHANGED <<targets, closedSubs, raced, panicked>>
        BY <2>4 DEF Register, Replay, Receive
      <3>2. QED
        BY <3>1
    <2>5. ASSUME NEW s \in Subscribers, Unsubscribe(s) PROVE StaleTargets'
      <3>1. /\ UNCHANGED <<targets, panicked>> /\ raced' = raced \cup Racing(s)
            /\ closedSubs' = closedSubs \cup {s}
        BY <2>5 DEF Unsubscribe
      <3>2. \A p \in Publishers : s \in targets[p] => <<p, s>> \in raced'
        BY <3>1 DEF Racing
      <3>3. QED
        BY <3>1, <3>2
    <2>6. CASE UNCHANGED progressVars
      BY <2>6 DEF progressVars
    <2>7. QED
      BY <2>1, <2>2, <2>3, <2>4, <2>5, <2>6 DEF ProgressNext
  <1>3. StaleTargets => PanicNeedsRace
    BY DEF StaleTargets, PanicNeedsRace
  <1>4. QED
    BY <1>1, <1>2, <1>3, ProgressTypeInvariant, PTL DEF ProgressSpec
=============================================================================
