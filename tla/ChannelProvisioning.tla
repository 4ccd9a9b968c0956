------------------------- MODULE ChannelProvisioning -------------------------
(***************************************************************************)
(* EnsureProviderLiquidity (platform/provider_settlement_fnn.go): calls    *)
(* that open payment channels from the treasury's node to one provider's   *)
(* node, with retries inside retries, under one deadline per call.         *)
(*                                                                         *)
(* The two nodes are external.  A channel that was opened on the treasury  *)
(* side is offered to the provider's node some time later; there it is     *)
(* accepted, by the call or by the node itself, after which the temporary  *)
(* number is not known any more.  The sides become ready one after the     *)
(* other.  Several awards of the same provider may be provisioning.        *)
(***************************************************************************)
EXTENDS Integers, FiniteSets, FiniteSetsExt

CONSTANTS
  Provisionings,
  OpenChannelRetries, AcceptChannelRetries,
  MaxChannels, MaxClosed          \* bounds

Channels == 1 .. MaxChannels
NoOne == "nobody"

ASSUME ChannelAssumption ==
  /\ IsFiniteSet(Provisionings) /\ NoOne \notin Provisionings
  /\ {OpenChannelRetries, AcceptChannelRetries} \subseteq Nat \ {0}
  /\ {MaxChannels, MaxClosed} \subseteq Nat

VARIABLES
  treasury, provider,   \* state of each channel on each side
  opener,               \* the call that opened a channel
  kept,                 \* whether a channel keeps its temporary number
  progress,             \* progress of each call
  closed,               \* channels that went away
  overlapped            \* history: pairs of calls under way at the same time

channelVars == <<treasury, provider, opener, kept, progress, closed, overlapped>>
nodeVars == <<treasury, provider, opener, kept, closed>>

Fresh == [pc |-> "new", expired |-> FALSE, existing |-> {}, attempt |-> 0, try |-> 0,
          temp |-> 0, result |-> 0]

ChannelInit ==
  /\ treasury = [ch \in Channels |-> "none"]
  /\ provider = [ch \in Channels |-> "none"]
  /\ opener = [ch \in Channels |-> NoOne]
  /\ kept \in BOOLEAN
  /\ progress = [c \in Provisionings |-> Fresh]
  /\ closed = 0
  /\ overlapped = {}

-----------------------------------------------------------------------------
(* The nodes. *)
Offer(ch) ==
  /\ treasury[ch] = "opened" /\ provider[ch] = "none"
  /\ provider' = [provider EXCEPT ![ch] = "offered"]
  /\ UNCHANGED <<treasury, opener, kept, progress, closed, overlapped>>

AutoAccept(ch) ==
  /\ provider[ch] = "offered"
  /\ provider' = [provider EXCEPT ![ch] = "awaiting"]
  /\ UNCHANGED <<treasury, opener, kept, progress, closed, overlapped>>

BecomesReady(ch) ==
  /\ \/ /\ treasury[ch] = "opened" /\ provider[ch] \in {"awaiting", "ready"}
        /\ treasury' = [treasury EXCEPT ![ch] = "ready"]
        /\ UNCHANGED provider
     \/ /\ provider[ch] = "awaiting"
        /\ provider' = [provider EXCEPT ![ch] = "ready"]
        /\ UNCHANGED treasury
  /\ UNCHANGED <<opener, kept, progress, closed, overlapped>>

Closes(ch) ==
  /\ treasury[ch] \in {"opened", "ready"} /\ closed < MaxClosed
  /\ treasury' = [treasury EXCEPT ![ch] = "closed"]
  /\ provider' = [provider EXCEPT ![ch] = "closed"]
  /\ closed' = closed + 1
  /\ UNCHANGED <<opener, kept, progress, overlapped>>

-----------------------------------------------------------------------------
Running(c) == progress[c].pc \notin {"new", "reused", "provisioned", "failed"}
Fail(c) == progress' = [progress EXCEPT ![c] = [Fresh EXCEPT !.pc = "failed"]]

(* Ready on both sides under one number. *)
commonReadyChannelIDs == {ch \in Channels : treasury[ch] = "ready" /\ provider[ch] = "ready"}

(* The nodes are asked who they are and connected; the deadline starts.    *)
(* Any of it may fail.                                                     *)
EnsureProviderLiquidity(c, ok) ==
  /\ progress[c].pc = "new"
  /\ IF ok THEN progress' = [progress EXCEPT ![c].pc = "list"] ELSE Fail(c)
  /\ overlapped' = IF ok THEN overlapped \cup {{c, d} : d \in {d \in Provisionings \ {c} : Running(d)}} ELSE overlapped
  /\ UNCHANGED nodeVars

(* A ready channel is reused when the pool covers the need.                *)
ReuseChannel(c) ==
  /\ progress[c].pc = "list" /\ ~progress[c].expired
  /\ \E ch \in commonReadyChannelIDs :
       progress' = [progress EXCEPT ![c] = [Fresh EXCEPT !.pc = "reused", !.result = ch]]
  /\ UNCHANGED <<nodeVars, overlapped>>

(* Otherwise the channels that are ready now are remembered, and a new one *)
(* is wanted.                                                              *)
ListChannels(c) ==
  /\ progress[c].pc = "list" /\ ~progress[c].expired
  /\ progress' = [progress EXCEPT ![c].pc = "open", ![c].attempt = 1, ![c].try = 1,
                          ![c].existing = commonReadyChannelIDs]
  /\ UNCHANGED <<nodeVars, overlapped>>

NextChannel == Min({ch \in Channels : treasury[ch] = "none"})

(* The treasury's node opens a channel.  An answer that is lost is an      *)
(* error that is not tried again: the channel is left to itself.           *)
OpenChannel(c, answered) ==
  /\ progress[c].pc = "open" /\ ~progress[c].expired
  /\ \E ch \in Channels : treasury[ch] = "none"
  /\ treasury' = [treasury EXCEPT ![NextChannel] = "opened"]
  /\ opener' = [opener EXCEPT ![NextChannel] = c]
  /\ IF answered THEN progress' = [progress EXCEPT ![c].pc = "accept", ![c].temp = NextChannel, ![c].try = 1] ELSE Fail(c)
  /\ UNCHANGED <<provider, kept, closed, overlapped>>

(* A node that is not ready is connected to and asked again; any other     *)
(* refusal, and a connection that fails, ends the call.                    *)
openProviderSettlementChannelWithRetry(c) ==
  /\ progress[c].pc = "open" /\ ~progress[c].expired
  /\ \/ /\ progress[c].try < OpenChannelRetries
        /\ progress' = [progress EXCEPT ![c].try = @ + 1]
     \/ Fail(c)
  /\ UNCHANGED <<nodeVars, overlapped>>

\* Fault: the number of attempts is compared after it was used.
ProvisionOnceMore(c) ==
  IF progress[c].attempt <= OpenChannelRetries
    THEN progress' = [progress EXCEPT ![c].pc = "open", ![c].attempt = @ + 1, ![c].try = 1, ![c].temp = 0]
    ELSE Fail(c)

(* The outer loop: connect again and open another channel; the one opened  *)
(* before is left to itself.                                               *)
ProvisionAgain(c) ==
  IF progress[c].attempt < OpenChannelRetries
    THEN progress' = [progress EXCEPT ![c].pc = "open", ![c].attempt = @ + 1, ![c].try = 1, ![c].temp = 0]
    ELSE Fail(c)

(* The provider's node accepts a channel that it was offered. *)
AcceptChannel(c) ==
  /\ progress[c].pc = "accept" /\ ~progress[c].expired
  /\ provider[progress[c].temp] = "offered"
  /\ provider' = [provider EXCEPT ![progress[c].temp] = "awaiting"]
  /\ \/ progress' = [progress EXCEPT ![c].pc = "wait", ![c].try = 0]
     \/ ProvisionAgain(c)    \* accepted, but the body of the answer is lost
     \/ Fail(c)
  /\ UNCHANGED <<treasury, opener, kept, closed, overlapped>>

(* A number the node does not know is tried again, here and then by the    *)
(* outer loop, which also tries again when funding failed.  Anything else  *)
(* ends the call.                                                          *)
acceptProviderSettlementChannelWithRetry(c) ==
  /\ progress[c].pc = "accept" /\ ~progress[c].expired
  /\ \/ /\ provider[progress[c].temp] # "offered" /\ progress[c].try < AcceptChannelRetries
        /\ progress' = [progress EXCEPT ![c].try = @ + 1]
     \/ /\ provider[progress[c].temp] # "offered" => progress[c].try = AcceptChannelRetries
        /\ ProvisionAgain(c)
     \/ Fail(c)
  /\ UNCHANGED <<nodeVars, overlapped>>

(* The call's own channel when it kept its number, or any channel that is  *)
(* ready now and was not when the call began.                              *)
matchingReadyChannelIDExcluding(c) ==
  IF kept /\ progress[c].temp \in commonReadyChannelIDs
    THEN {progress[c].temp}
    ELSE commonReadyChannelIDs \ progress[c].existing

ChannelIsReady(c) ==
  /\ progress[c].pc = "wait" /\ ~progress[c].expired
  /\ \E ch \in matchingReadyChannelIDExcluding(c) :
       progress' = [progress EXCEPT ![c].pc = "provisioned", ![c].result = ch]
  /\ UNCHANGED <<nodeVars, overlapped>>

(* A poll fails.  The offer was accepted before the wait began, so to      *)
(* accept it again, as some polls do, has no effect unless it fails.       *)
waitForProviderSettlementChannelReady(c) ==
  /\ progress[c].pc = "wait" /\ ~progress[c].expired
  /\ ProvisionAgain(c) \/ Fail(c)
  /\ UNCHANGED <<nodeVars, overlapped>>

(* The deadline of the whole call. *)
Deadline(c) ==
  /\ Running(c) /\ ~progress[c].expired
  /\ progress' = [progress EXCEPT ![c].expired = TRUE]
  /\ UNCHANGED <<nodeVars, overlapped>>

\* Fault: the wait for a channel does not look at the deadline.
ReturnUnlessWaiting(c) ==
  /\ Running(c) /\ progress[c].expired /\ progress[c].pc # "wait"
  /\ Fail(c)
  /\ UNCHANGED <<nodeVars, overlapped>>

(* Whatever the call does after the deadline fails: the timeout of the     *)
(* wait is an error to try again, but to connect again needs the context   *)
(* that has expired.                                                       *)
ReturnExpired(c) ==
  /\ Running(c) /\ progress[c].expired
  /\ Fail(c)
  /\ UNCHANGED <<nodeVars, overlapped>>

Advance(c) ==
  \/ ReuseChannel(c) \/ ListChannels(c) \/ AcceptChannel(c) \/ ChannelIsReady(c)
  \/ \E answered \in BOOLEAN : OpenChannel(c, answered)
  \/ openProviderSettlementChannelWithRetry(c)
  \/ acceptProviderSettlementChannelWithRetry(c)
  \/ waitForProviderSettlementChannelReady(c)

Nodes == \E ch \in Channels : Offer(ch) \/ AutoAccept(ch) \/ BecomesReady(ch) \/ Closes(ch)

ChannelNext ==
  \/ Nodes
  \/ \E c \in Provisionings :
       \/ \E ok \in BOOLEAN : EnsureProviderLiquidity(c, ok)
       \/ Advance(c) \/ Deadline(c) \/ ReturnExpired(c)

(* Time passes, and a call whose context has expired returns. *)
ChannelSpec == ChannelInit /\ [][ChannelNext]_channelVars /\ \A c \in Provisionings : WF_channelVars(Deadline(c) \/ ReturnExpired(c))

-----------------------------------------------------------------------------
Opened(c) == {ch \in Channels : opener[ch] = c}
Provisioned == {c \in Provisionings : progress[c].pc = "provisioned"}

ReportedIsOpened ==
  \A c \in Provisionings :
    /\ Cardinality(Opened(c)) <= OpenChannelRetries
    /\ c \in Provisioned => Cardinality(Opened(c)) = progress[c].attempt
    /\ progress[c].pc = "reused" => Opened(c) = {}

NewChannelIsNew ==
  \A c, d \in Provisioned :
    /\ progress[c].result \notin progress[c].existing
    /\ c # d /\ progress[c].result = progress[d].result => {c, d} \in overlapped

(* The pool is raised by what a call says it has funded.  A call that      *)
(* succeeds has opened one channel in each attempt, at most as many as     *)
(* there are attempts and none when it reuses one: what is reported was    *)
(* locked up, also when answers were lost.  The channel it reports was not *)
(* ready when it looked first, and no other call reports the same one      *)
(* unless the two overlapped.                                              *)
FundedIsNew == ReportedIsOpened /\ NewChannelIsNew

(* Every call returns: the loops are bounded or end with the deadline,     *)
(* whatever the nodes do.                                                  *)
EveryCallReturns == \A c \in Provisionings : []<>~Running(c)
=============================================================================
