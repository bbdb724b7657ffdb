------------------------------- MODULE Progress -------------------------------
(***************************************************************************)
(* Progress events of one invocation, as EINOAIClient delivers them: the   *)
(* callbacks of models and tools publish from their own goroutines, and    *)
(* subscribers come and go.  current is guarded by currentMu and subs by   *)
(* subsMu; no lock is held across both, nor while an event is sent.  The    *)
(* worker unsubscribes when it returns, whether or not a callback of a     *)
(* tool that outlives its run is still publishing.                         *)
(***************************************************************************)
EXTENDS Integers, Sequences, FiniteSets

CONSTANTS Publishers,        \* goroutines that run status callbacks
          Subscribers,       \* one channel each
          Capacity,          \* of a channel (64 in the code)
          MaxEvents          \* bound on the events published

ASSUME ProgressAssumption == /\ Capacity \in Nat \ {0}
                             /\ MaxEvents \in Nat

NoEvent == 0

VARIABLES
    current,   \* latest event stored for the invocation
    subs,      \* registered channels
    chan,      \* what each channel holds
    closedSubs, \* channels that were closed
    events,    \* number of events published so far; it names the latest one
    pub,       \* per publisher: "idle", "stored" or "sending"
    event,     \* the event a publisher publishes
    targets,   \* the channels a publisher still has to send it to
    sub,       \* per subscriber: "none", "registered", "subscribed" or "gone"
    offered,   \* history: events a channel took or dropped because it was full
    raced,     \* history: publisher and subscriber that left between the
               \* publisher's copy of the list and its send
    panicked   \* the send on a closed channel that panicked, if any

progressVars ==
    <<current, subs, chan, closedSubs, events, pub, event, targets, sub, offered, raced,
      panicked>>

ProgressInit ==
    /\ current = NoEvent /\ subs = {} /\ closedSubs = {} /\ events = 0
    /\ chan = [s \in Subscribers |-> <<>>]
    /\ pub = [p \in Publishers |-> "idle"]
    /\ event = [p \in Publishers |-> NoEvent]
    /\ targets = [p \in Publishers |-> {}]
    /\ sub = [s \in Subscribers |-> "none"]
    /\ offered = [s \in Subscribers |-> {}]
    /\ raced = {}
    /\ panicked = {}

\* select { case ch <- ev: default: }
Offer(s, e) ==
    /\ chan' = [chan EXCEPT ![s] = IF Len(@) < Capacity THEN Append(@, e) ELSE @]
    /\ offered' = [offered EXCEPT ![s] = @ \cup {e}]

-----------------------------------------------------------------------------
(* publishProgress.                                                        *)

PublishStore(p) ==
    /\ pub[p] = "idle"
    /\ events < MaxEvents
    /\ events' = events + 1
    /\ event' = [event EXCEPT ![p] = events']
    /\ current' = events'
    /\ pub' = [pub EXCEPT ![p] = "stored"]
    /\ UNCHANGED <<subs, chan, closedSubs, targets, sub, offered, raced, panicked>>

PublishCopy(p) ==
    /\ pub[p] = "stored"
    /\ targets' = [targets EXCEPT ![p] = subs]
    /\ pub' = [pub EXCEPT ![p] = "sending"]
    /\ UNCHANGED <<current, subs, chan, closedSubs, events, event, sub, offered, raced, panicked>>

\* The channels are served one by one; sending on a closed one panics.
PublishSend(p, s) ==
    /\ pub[p] = "sending"
    /\ s \in targets[p]
    /\ targets' = [targets EXCEPT ![p] = @ \ {s}]
    /\ IF s \in closedSubs
       THEN panicked' = {<<p, s>>} /\ UNCHANGED <<chan, offered>>
       ELSE Offer(s, event[p]) /\ UNCHANGED panicked
    /\ UNCHANGED <<current, subs, closedSubs, events, pub, event, sub, raced>>

PublishDone(p) ==
    /\ pub[p] = "sending"
    /\ targets[p] = {}
    /\ pub' = [pub EXCEPT ![p] = "idle"]
    /\ UNCHANGED <<current, subs, chan, closedSubs, events, event, targets, sub, offered, raced, panicked>>

-----------------------------------------------------------------------------
(* SubscribeProgress, the subscriber's reads, UnsubscribeProgress.         *)

Register(s) ==
    /\ sub[s] = "none"
    /\ sub' = [sub EXCEPT ![s] = "registered"]
    /\ subs' = subs \cup {s}
    /\ UNCHANGED <<current, chan, closedSubs, events, pub, event, targets, offered, raced, panicked>>

\* Faulty variant: a new subscriber is not told the current status.
Replay_Skip(s) ==
    /\ sub[s] = "registered"
    /\ sub' = [sub EXCEPT ![s] = "subscribed"]
    /\ UNCHANGED <<current, subs, chan, closedSubs, events, pub, event, targets, offered, raced, panicked>>

\* Send the most recent status, so that early events are not missed.
Replay(s) ==
    /\ sub[s] = "registered"
    /\ sub' = [sub EXCEPT ![s] = "subscribed"]
    /\ IF current # NoEvent THEN Offer(s, current) ELSE UNCHANGED <<chan, offered>>
    /\ UNCHANGED <<current, subs, closedSubs, events, pub, event, targets, raced, panicked>>

Receive(s) ==
    /\ sub[s] = "subscribed"
    /\ chan[s] # <<>>
    /\ chan' = [chan EXCEPT ![s] = Tail(@)]
    /\ UNCHANGED <<current, subs, closedSubs, events, pub, event, targets, sub, offered, raced, panicked>>

\* The publishers that copied the list while s was on it and have not sent yet.
Racing(s) == {p \in Publishers : s \in targets[p]} \X {s}

\* Faulty variant: the channel is closed but stays registered.
Unsubscribe_KeepRegistered(s) ==
    /\ sub[s] = "subscribed"
    /\ closedSubs' = closedSubs \cup {s}
    /\ sub' = [sub EXCEPT ![s] = "gone"]
    /\ raced' = raced \cup Racing(s)
    /\ UNCHANGED <<current, subs, chan, events, pub, event, targets, offered, panicked>>

\* The list is copied under subsMu and served without it, so that nothing keeps
\* the channel open for a publisher that has copied it.
Unsubscribe(s) ==
    /\ sub[s] = "subscribed"
    /\ subs' = subs \ {s}
    /\ closedSubs' = closedSubs \cup {s}
    /\ sub' = [sub EXCEPT ![s] = "gone"]
    /\ raced' = raced \cup Racing(s)
    /\ UNCHANGED <<current, chan, events, pub, event, targets, offered, panicked>>

ProgressNext ==
    /\ panicked = {}
    /\ \/ \E p \in Publishers : \/ PublishStore(p) \/ PublishCopy(p) \/ PublishDone(p)
                                \/ \E s \in Subscribers : PublishSend(p, s)
       \/ \E s \in Subscribers : Register(s) \/ Replay(s) \/ Receive(s) \/ Unsubscribe(s)

ProgressSpec == ProgressInit /\ [][ProgressNext]_progressVars

-----------------------------------------------------------------------------
(* Correctness.                                                            *)

\* Every variable has its type; in particular no subscriber is ever sent the
\* empty event that stands for "no status yet".
ProgressTypeOK ==
    /\ current \in 0 .. MaxEvents /\ events \in 0 .. MaxEvents
    /\ subs \subseteq Subscribers /\ closedSubs \subseteq Subscribers
    /\ chan \in [Subscribers -> Seq(1 .. MaxEvents)]
    /\ pub \in [Publishers -> {"idle", "stored", "sending"}]
    /\ event \in [Publishers -> 0 .. MaxEvents]
    /\ targets \in [Publishers -> SUBSET Subscribers]
    /\ sub \in [Subscribers -> {"none", "registered", "subscribed", "gone"}]
    /\ offered \in [Subscribers -> SUBSET (1 .. MaxEvents)]
    /\ raced \subseteq Publishers \X Subscribers
    /\ panicked \subseteq Publishers \X Subscribers

\* SubscribeProgress's promise to late subscribers: once the callbacks are done,
\* every subscriber was offered the most recent event, whichever way the
\* subscription raced the publication of it.
LatestIsOffered ==
    (\A p \in Publishers : pub[p] = "idle") =>
        \A s \in Subscribers :
            sub[s] = "subscribed" /\ current # NoEvent => current \in offered[s]

\* UnsubscribeProgress takes the channel off the list before it closes it, both
\* under subsMu: the only send on a closed channel is by a publisher that had
\* copied the list before the subscriber left.  No event that is published later,
\* however many callbacks outlive their run, is sent to one.
PanicNeedsRace == panicked \subseteq raced

\* SubscribeProgress promises delivery that is best-effort: an event may be
\* dropped, but publishing it never panics.  The send of a publisher in raced does.
NeverPanics == panicked = {}
=============================================================================
