----------------------------- MODULE Subscriptions -----------------------------
(***************************************************************************)
(* Subscriptions at the broker and who makes and removes them: consumers    *)
(* (pulsarClient.Subscribe), UnsubscribeChannels by way of                  *)
(* PmsFactory.NewMsgStreamDisposer, and GetChannelLatestMsgID, which makes  *)
(* one of its own for a moment.  The two touch subscriptions of different   *)
(* names, so a behaviour has one of them.                                   *)
(***************************************************************************)
EXTENDS Integers, Sequences, SequencesExt, FiniteSets

CONSTANTS
    Channels,   \* names of channels; NoName is the empty one
    NoName,
    SubName,    \* the subscription to be removed
    OwnName     \* the random name of GetChannelLatestMsgID

VARIABLES
    subs,        \* subscriptions that the broker keeps: <<channel, name>>
    connected,   \* the ones that a consumer holds, alone
    pc,          \* UnsubscribeChannels: idle, delete, returned, panicked
    channels, at,    \* its channels and the next one
    failedAt, absentAt,   \* history: where a delete failed, where nothing was found
    renewed,     \* history: subscribed since the call
    gpc,         \* GetChannelLatestMsgID: idle, stream, consumer, close, returned
    channelName, answer,
    unsubscribeFailed     \* history: Close could not unsubscribe
vars == <<subs, connected, pc, channels, at, failedAt, absentAt, renewed, gpc, channelName,
          answer, unsubscribeFailed>>
disposer == <<pc, channels, at, failedAt, absentAt>>
latest == <<gpc, channelName, answer, unsubscribeFailed>>

Init ==
    /\ subs = {} /\ connected = {}
    /\ pc = "idle" /\ channels = <<>> /\ at = 1 /\ failedAt = {} /\ absentAt = {} /\ renewed = {}
    /\ gpc = "idle" /\ channelName = NoName /\ answer = "none" /\ unsubscribeFailed = FALSE
-------------------------------------------------------------------------------
\* tenant and namespace are configured; a topic without a name is an error.
GetFullTopicName(topic) == topic # NoName

\* The broker refuses a second consumer: ConsumerBusy, which is not tried again.
Subscribe(channel, name) ==
    /\ GetFullTopicName(channel)
    /\ <<channel, name>> \notin connected
    /\ subs' = subs \cup {<<channel, name>>}
    /\ connected' = connected \cup {<<channel, name>>}
    /\ renewed' = renewed \cup {<<channel, name>>}

Consume(channel) ==
    /\ Subscribe(channel, SubName)
    /\ UNCHANGED <<disposer, latest>>

\* A consumer's process ends; its subscription stays.
Crash(channel) ==
    /\ <<channel, SubName>> \in connected
    /\ connected' = connected \ {<<channel, SubName>>}
    /\ UNCHANGED <<subs, renewed, disposer, latest>>
-------------------------------------------------------------------------------
\* An error of the disposer panics; the first one is that there is no admin client.
NewAdminClient == {"delete", "panicked"}
UnsubscribeChannels ==
    /\ pc = "idle" /\ gpc = "idle"
    /\ channels' \in SetToAllKPermutations(Channels) /\ channels' # <<>>
    /\ pc' \in NewAdminClient
    /\ renewed' = {}
    /\ UNCHANGED <<subs, connected, at, failedAt, absentAt, latest>>

\* Subscriptions().Delete, forced: consumers that hold the subscription lose it.
Delete(sub) ==
    /\ subs' = subs \ {sub} /\ connected' = connected \ {sub}
    /\ renewed' = renewed \ {sub}

\* One round of the loop.  Other errors are logged and the next channel follows.
StopOnError ==                                                          \* mutant
    /\ pc = "delete" /\ at <= Len(channels)
    /\ LET sub == <<channels[at], SubName>>
       IN \/ /\ sub \in subs /\ Delete(sub) /\ at' = at + 1
             /\ UNCHANGED <<pc, failedAt, absentAt>>
          \/ /\ failedAt' = failedAt \cup {at} /\ pc' = "returned"
             /\ UNCHANGED <<subs, connected, renewed, at, absentAt>>
    /\ UNCHANGED <<channels, latest>>
DeleteOne ==
    /\ pc = "delete" /\ at <= Len(channels)
    /\ LET sub == <<channels[at], SubName>>
       IN \/ /\ ~GetFullTopicName(channels[at]) /\ pc' = "panicked"
             /\ UNCHANGED <<subs, connected, renewed, at, failedAt, absentAt>>
          \/ /\ GetFullTopicName(channels[at]) /\ sub \in subs
             /\ Delete(sub) /\ at' = at + 1 /\ UNCHANGED <<pc, failedAt, absentAt>>
          \/ /\ GetFullTopicName(channels[at]) /\ sub \notin subs   \* Subscription not found
             /\ pc' = "returned" /\ absentAt' = absentAt \cup {at}
             /\ UNCHANGED <<subs, connected, renewed, at, failedAt>>
          \/ /\ GetFullTopicName(channels[at])
             /\ failedAt' = failedAt \cup {at} /\ at' = at + 1
             /\ UNCHANGED <<subs, connected, renewed, pc, absentAt>>
    /\ UNCHANGED <<channels, latest>>

Unsubscribed ==
    /\ pc = "delete" /\ at > Len(channels) /\ pc' = "returned"
    /\ UNCHANGED <<subs, connected, channels, at, failedAt, absentAt, renewed, latest>>
-------------------------------------------------------------------------------
GetChannelLatestMsgID ==
    /\ gpc = "idle" /\ pc = "idle" /\ channelName' \in Channels
    /\ \/ gpc' = "stream" /\ UNCHANGED answer
       \/ gpc' = "returned" /\ answer' = "error"
    /\ UNCHANGED <<subs, connected, disposer, renewed, unsubscribeFailed>>

AsConsumer ==
    /\ gpc = "stream"
    /\ \/ /\ Subscribe(channelName, OwnName) /\ gpc' = "consumer" /\ UNCHANGED answer
       \/ /\ gpc' = "close" /\ answer' = "error" /\ UNCHANGED <<subs, connected, renewed>>
    /\ UNCHANGED <<channelName, disposer, unsubscribeFailed>>

returnNow == gpc' = "returned" /\ answer' = "error"                     \* mutant
closeAfterError == gpc' = "close" /\ answer' = "error"

GetLatestMsgID ==
    /\ gpc = "consumer"
    /\ \/ gpc' = "close" /\ answer' = "id"
       \/ closeAfterError
    /\ UNCHANGED <<subs, connected, channelName, disposer, renewed, unsubscribeFailed>>

\* The deferred Close: Consumer.Close unsubscribes; it may fail for good.
DeferredClose ==
    /\ gpc = "close" /\ gpc' = "returned"
    /\ LET own == {<<channelName, OwnName>>} \cap connected
       IN \/ /\ own # {} /\ subs' = subs \ own /\ connected' = connected \ own
             /\ UNCHANGED unsubscribeFailed
          \/ /\ unsubscribeFailed' = (own # {}) /\ UNCHANGED <<subs, connected>>
    /\ UNCHANGED <<channelName, answer, disposer, renewed>>

Next == \/ \E channel \in Channels : Consume(channel) \/ Crash(channel)
        \/ UnsubscribeChannels \/ DeleteOne \/ Unsubscribed
        \/ GetChannelLatestMsgID \/ AsConsumer \/ GetLatestMsgID \/ DeferredClose
-------------------------------------------------------------------------------
\* UnsubscribeChannels returns with a subscription left only where the delete failed, where
\* somebody subscribed meanwhile, or behind a channel that had none: the first "Subscription
\* not found" ends the loop, although the comment at mq_factory.go:164 says to ignore it.
LeftExplained ==
    pc = "returned" =>
        \A i \in DOMAIN channels : <<channels[i], SubName>> \in subs =>
            \/ i \in failedAt \/ <<channels[i], SubName>> \in renewed
            \/ \E j \in absentAt : j < i

\* GetChannelLatestMsgID leaves no subscription behind, whichever of its steps fails, but
\* when its Unsubscribe fails.
NoLeftover ==
    gpc = "returned" => \/ \A channel \in Channels : <<channel, OwnName>> \notin subs
                        \/ unsubscribeFailed
===============================================================================
