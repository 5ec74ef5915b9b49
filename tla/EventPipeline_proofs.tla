------------------------ MODULE EventPipeline_proofs ------------------------
(***************************************************************************)
(* Proofs about EventPipeline, for any number of threads, any batch and    *)
(* buffer size, with callbacks and test mode or without.                   *)
(***************************************************************************)
EXTENDS EventPipeline, RecursionLemmas

StoppedListIsEmpty == ~alive => batch = <<>>

(* What waits in the list are the latest events, without a gap. *)
BatchIsNewest ==
  /\ Len(batch) <= produced
  /\ \A k \in DOMAIN batch : batch[k] = produced - Len(batch) + k

SentWasProduced ==
  \A i \in DOMAIN collections : Elements(collections[i].payload) \subseteq 1 .. produced

(* The list still holds what a running callback is given.  It is cleared   *)
(* when that returns, so whatever else is in it then has its excuse.       *)
CallbackHasBatch ==
  in_callback # {} => \A e \in Elements(batch) : Sent(e) \/ e \in overlapped

(* What waits has not been sent, unless a callback has it, or one has left *)
(* it behind.                                                              *)
QueuedIsUnsent ==
  \A e \in Elements(batch) : Sent(e) => in_callback # {} \/ e \in uncleared

Flow ==
  /\ StoppedListIsEmpty
  /\ BatchIsNewest
  /\ SentWasProduced
  /\ CallbackHasBatch
  /\ QueuedIsUnsent
  /\ message_counter = Len(collections)
  /\ LostOnlyByCallbackStopOrRetry
  /\ SentTwiceOnlyIfUncleared
  /\ CollectionsAreRuns

Inv == TypeOK /\ Flow

USE BatchSizeIsPositive, BoundsAreNat, SwitchesAreBoolean

Collection == [message_counter : Nat, payload : Seq(Events)]

-----------------------------------------------------------------------------
LEMMA VariablesAreTyped ==
  ASSUME TypeOK
  PROVE  /\ alive \in BOOLEAN /\ batch \in Seq(Events)
         /\ Len(batch) \in Nat /\ DOMAIN batch = 1 .. Len(batch)
         /\ Elements(batch) \subseteq Events
         /\ produced \in 0 .. MaxEvents /\ produced \in Nat
         /\ collections \in Seq(Collection)
         /\ Len(collections) \in Nat
         /\ DOMAIN collections = 1 .. Len(collections)
<1>1. alive \in BOOLEAN /\ batch \in Seq(Events)
  BY DEF TypeOK, List!TypeOK, Events
<1>2. /\ Len(batch) \in Nat /\ DOMAIN batch = 1 .. Len(batch)
      /\ Elements(batch) \subseteq Events
  BY <1>1, LenProperties, ElementOfSeq DEF Elements
<1>3. collections \in Seq(Collection)
  BY DEF TypeOK, Collection
<1>4. Len(collections) \in Nat /\ DOMAIN collections = 1 .. Len(collections)
  BY <1>3, LenProperties
<1>5. produced \in 0 .. MaxEvents
  BY DEF TypeOK
<1> QED BY <1>1, <1>2, <1>3, <1>4, <1>5

LEMMA InitHasInv == Init => Inv
<1> SUFFICES ASSUME Init PROVE Inv
  OBVIOUS
<1>1. /\ batch = <<>> /\ collections = <<>> /\ produced = 0 /\ message_counter = 0
      /\ in_callback = {} /\ alive = FALSE
  BY DEF Init, List!Init
<1>2. /\ batch \in Seq(1 .. MaxEvents) /\ Len(batch) = 0 /\ DOMAIN batch = {}
      /\ collections \in Seq([message_counter : Nat, payload : Seq(Events)])
      /\ Len(collections) = 0 /\ DOMAIN collections = {}
  BY <1>1, EmptySeq
<1>3. TypeOK
  <2>1. /\ publish_jobs \in 0 .. MaxJobs /\ test_mode_enabled \in BOOLEAN
        /\ produced \in 0 .. MaxEvents /\ message_counter \in Nat
    BY <1>1 DEF Init
  <2>2. List!TypeOK
    BY <1>1, <1>2 DEF List!TypeOK
  <2> QED BY <1>1, <1>2, <2>1, <2>2 DEF Init, TypeOK
<1>4. Flow
  BY <1>1, <1>2 DEF Flow, StoppedListIsEmpty, BatchIsNewest, SentWasProduced,
    CallbackHasBatch, QueuedIsUnsent, LostOnlyByCallbackStopOrRetry,
    SentTwiceOnlyIfUncleared, CollectionsAreRuns, Elements
<1> QED BY <1>3, <1>4 DEF Inv

-----------------------------------------------------------------------------
(* What the actions do to the list and to what was sent. *)
Core == <<alive, batch, in_callback, message_counter, produced, collections,
          overlapped, discarded, uncleared>>

LEMMA CoreUnchangedKeepsFlow ==
  ASSUME Flow, UNCHANGED Core
  PROVE  Flow'
BY DEF Core, Flow, StoppedListIsEmpty, BatchIsNewest, SentWasProduced,
  CallbackHasBatch, QueuedIsUnsent, LostOnlyByCallbackStopOrRetry,
  SentTwiceOnlyIfUncleared, CollectionsAreRuns, Elements, Sent, SentIn, Queued

(* The postponed-job buffer never overflows. *)
LEMMA JobsAreBounded ==
  ASSUME TypeOK, send_messages \/ UNCHANGED publish_jobs
  PROVE  publish_jobs' \in 0 .. MaxJobs
<1>1. publish_jobs \in 0 .. MaxJobs /\ sampling_job \in BOOLEAN
  BY DEF TypeOK
<1> QED BY <1>1 DEF send_messages, register_publish_job

(* A new event goes behind the batch. *)
LEMMA SendMessageKeepsFlow ==
  ASSUME Inv, send_message,
         UNCHANGED <<in_callback, message_counter, collections, discarded, uncleared>>
  PROVE  /\ Flow'
         /\ alive' = alive /\ batch' \in Seq(Events)
         /\ produced' \in 0 .. MaxEvents
         /\ overlapped' \subseteq Events
         /\ publish_jobs' \in 0 .. MaxJobs
<1> DEFINE new == produced + 1
<1>1. /\ produced < MaxEvents /\ produced' = new
      /\ alive /\ batch' = Append(batch, new) /\ UNCHANGED alive
      /\ send_messages \/ UNCHANGED publish_jobs
      /\ overlapped' = IF in_callback = {} THEN overlapped ELSE overlapped \cup {new}
  BY DEF send_message, List!Queue
<1>2. /\ batch \in Seq(Events) /\ Len(batch) \in Nat
      /\ produced \in Nat /\ new \in Events /\ new \in 0 .. MaxEvents
  BY <1>1, VariablesAreTyped DEF Inv, Events
<1>3. /\ batch' \in Seq(Events) /\ Len(batch') = Len(batch) + 1
      /\ \A k \in 1 .. Len(batch) : batch'[k] = batch[k]
      /\ batch'[Len(batch) + 1] = new
      /\ DOMAIN batch' = 1 .. Len(batch) + 1 /\ DOMAIN batch = 1 .. Len(batch)
  <2> HIDE DEF new
  <2> QED BY <1>1, <1>2, AppendProperties, LenProperties
<1>4. Elements(batch') = Elements(batch) \cup {new}
  BY <1>2, <1>3 DEF Elements
<1>5. publish_jobs' \in 0 .. MaxJobs /\ overlapped' \subseteq Events
  BY <1>1, <1>2, JobsAreBounded DEF Inv, TypeOK
<1>6. \A e : Sent(e)' <=> Sent(e)
  BY DEF Sent, SentIn
<1>7. ~Sent(new)
  <2>1. new \notin 1 .. produced
    BY <1>2
  <2> QED BY <2>1 DEF Inv, Flow, SentWasProduced, Sent, SentIn
<1>8. StoppedListIsEmpty' /\ CollectionsAreRuns' /\ message_counter' = Len(collections)'
  BY <1>1 DEF Inv, Flow, StoppedListIsEmpty, CollectionsAreRuns
<1>9. BatchIsNewest'
  <2>1. Len(batch) <= produced /\ \A k \in 1 .. Len(batch) : batch[k] = produced - Len(batch) + k
    BY <1>3 DEF Inv, Flow, BatchIsNewest
  <2> QED BY <1>1, <1>2, <1>3, <2>1 DEF BatchIsNewest
<1>10. SentWasProduced'
  <2>1. 1 .. produced \subseteq 1 .. new
    BY <1>2
  <2> QED BY <1>1, <2>1 DEF Inv, Flow, SentWasProduced
<1>11. CallbackHasBatch' /\ QueuedIsUnsent'
  BY <1>1, <1>4, <1>6, <1>7 DEF Inv, Flow, CallbackHasBatch, QueuedIsUnsent
<1>12. LostOnlyByCallbackStopOrRetry'
  <2>1. 1 .. new = (1 .. produced) \cup {new}
    BY <1>2
  <2> QED BY <1>1, <1>4, <1>6, <2>1 DEF Inv, Flow, LostOnlyByCallbackStopOrRetry, Queued
<1>13. SentTwiceOnlyIfUncleared'
  <2>1. \A i \in DOMAIN collections : \A e \in 1 .. new :
          SentIn(e, i) => e \in 1 .. produced
    BY DEF Inv, Flow, SentWasProduced, SentIn
  <2> QED BY <1>1, <2>1 DEF Inv, Flow, SentTwiceOnlyIfUncleared, SentIn
<1> QED
  BY <1>1, <1>2, <1>3, <1>5, <1>8, <1>9, <1>10, <1>11, <1>12, <1>13 DEF Flow

(* A collection is the batch as it is, and is counted. *)
LEMMA HandOverSendsBatch ==
  ASSUME Inv, HandOver, batch # <<>>
  PROVE  /\ collections' \in Seq(Collection)
         /\ Len(collections') = Len(collections) + 1
         /\ DOMAIN collections' = DOMAIN collections \cup {Len(collections) + 1}
         /\ \A i \in DOMAIN collections : collections'[i] = collections[i]
         /\ collections'[Len(collections) + 1].payload = batch
         /\ message_counter' = Len(collections') /\ message_counter' \in Nat
         /\ \A e : Sent(e)' <=> Sent(e) \/ e \in Elements(batch)
         /\ uncleared' \subseteq Events /\ uncleared \subseteq uncleared'
         /\ SentWasProduced /\ Elements(batch) \subseteq 1 .. produced
         /\ CollectionsAreRuns'
         /\ \A i, j \in DOMAIN collections' : \A e \in 1 .. produced :
              i # j /\ SentIn(e, i)' /\ SentIn(e, j)' => e \in uncleared'
<1> DEFINE new == get_event_collection_message
<1> PICK n : n = Len(collections) + 1
  OBVIOUS
<1>1. /\ collections' = Append(collections, new)
      /\ message_counter' = message_counter + 1
      /\ uncleared' = IF in_callback = {} THEN uncleared
                                          ELSE uncleared \cup Elements(batch)
  BY DEF HandOver
<1>2. new \in Collection /\ new.payload = batch /\ new.message_counter = n - 1
  BY VariablesAreTyped DEF Inv, TypeOK, Flow, Collection, get_event_collection_message
<1> HIDE DEF new
<1>3. /\ collections' \in Seq(Collection) /\ Len(collections') = n
      /\ \A i \in 1 .. Len(collections) : collections'[i] = collections[i]
      /\ collections'[n] = new
      /\ DOMAIN collections' = 1 .. n
  <2>1. collections \in Seq(Collection)
    BY VariablesAreTyped DEF Inv
  <2> QED BY <1>1, <1>2, <2>1, AppendProperties, LenProperties
<1>4. /\ DOMAIN collections = 1 .. Len(collections)
      /\ n \notin DOMAIN collections
      /\ DOMAIN collections' = DOMAIN collections \cup {n}
  BY <1>3, VariablesAreTyped DEF Inv
<1>5. message_counter' = Len(collections') /\ message_counter' \in Nat
  BY <1>1, <1>3, VariablesAreTyped DEF Inv, Flow
<1>6. \A e : /\ \A i \in DOMAIN collections : SentIn(e, i)' <=> SentIn(e, i)
             /\ SentIn(e, n)' <=> e \in Elements(batch)
  <2>1. collections'[n].payload = batch
    BY <1>2, <1>3
  <2> QED BY <1>3, <1>4, <2>1 DEF SentIn, Elements
<1>7. \A e : Sent(e)' <=> Sent(e) \/ e \in Elements(batch)
  BY <1>4, <1>6 DEF Sent
<1>8. uncleared' \subseteq Events /\ uncleared \subseteq uncleared'
  BY <1>1, VariablesAreTyped DEF Inv, TypeOK
<1>9. /\ Elements(batch) \subseteq 1 .. produced
      /\ \A k \in DOMAIN batch : batch[k] = batch[1] + k - 1
  <2>1. /\ Len(batch) \in Nat /\ produced \in Nat /\ DOMAIN batch = 1 .. Len(batch)
        /\ Len(batch) <= produced
        /\ \A k \in 1 .. Len(batch) : batch[k] = produced - Len(batch) + k
    BY VariablesAreTyped DEF Inv, Flow, BatchIsNewest
  <2> QED BY <2>1 DEF Elements
<1>10. CollectionsAreRuns'
  BY <1>2, <1>3, <1>4, <1>9 DEF Inv, Flow, CollectionsAreRuns
<1>11. ASSUME NEW i \in DOMAIN collections', NEW j \in DOMAIN collections',
              NEW e \in 1 .. produced, i # j, SentIn(e, i)', SentIn(e, j)'
       PROVE  e \in uncleared'
  <2>1. CASE i # n /\ j # n
    BY <1>4, <1>6, <1>8, <1>11, <2>1 DEF Inv, Flow, SentTwiceOnlyIfUncleared
  <2>2. CASE i = n \/ j = n
    <3>1. e \in Elements(batch) /\ Sent(e)
      BY <1>4, <1>6, <1>11, <2>2 DEF Sent
    <3> QED BY <1>1, <3>1 DEF Inv, Flow, QueuedIsUnsent
  <2> QED BY <2>1, <2>2
<1> QED
  BY <1>2, <1>3, <1>4, <1>5, <1>7, <1>8, <1>9, <1>10, <1>11 DEF Inv, Flow

LEMMA EmptyBatch ==
  <<>> \in Seq(Events) /\ Len(<<>>) = 0 /\ DOMAIN <<>> = {} /\ Elements(<<>>) = {}
BY EmptySeq DEF Elements

(* The batch is sent and the list is cleared; an event may come between    *)
(* the two.                                                                *)
LEMMA SendAndClearKeepsFlow ==
  ASSUME Inv, HandOver, batch # <<>>, List!Clear, UNCHANGED <<in_callback, discarded>>,
         \/ UNCHANGED <<produced, overlapped>>
         \/ /\ produced' = produced + 1
            /\ overlapped' = overlapped \cup {produced + 1}
  PROVE  Flow'
<1>1. batch' = <<>> /\ Len(batch') = 0 /\ DOMAIN batch' = {} /\ Elements(batch') = {}
  BY EmptyBatch DEF List!Clear
<1>2. /\ DOMAIN collections' = DOMAIN collections \cup {Len(collections) + 1}
      /\ \A i \in DOMAIN collections : collections'[i] = collections[i]
      /\ collections'[Len(collections) + 1].payload = batch
      /\ message_counter' = Len(collections')
      /\ \A e : Sent(e)' <=> Sent(e) \/ e \in Elements(batch)
      /\ SentWasProduced /\ Elements(batch) \subseteq 1 .. produced
      /\ CollectionsAreRuns'
      /\ \A i, j \in DOMAIN collections' : \A e \in 1 .. produced :
           i # j /\ SentIn(e, i)' /\ SentIn(e, j)' => e \in uncleared'
  BY HandOverSendsBatch
<1>3. /\ produced \in Nat /\ produced' \in Nat
      /\ 1 .. produced' \subseteq (1 .. produced) \cup {produced + 1}
      /\ 1 .. produced \subseteq 1 .. produced'
  BY VariablesAreTyped DEF Inv
<1>4. StoppedListIsEmpty' /\ BatchIsNewest' /\ CallbackHasBatch' /\ QueuedIsUnsent'
  BY <1>1, <1>3 DEF StoppedListIsEmpty, BatchIsNewest, CallbackHasBatch, QueuedIsUnsent
<1>5. \A i \in DOMAIN collections' : Elements(collections'[i].payload) \subseteq 1 .. produced
  BY <1>2 DEF SentWasProduced
<1>6. SentWasProduced'
  BY <1>3, <1>5 DEF SentWasProduced
<1>7. LostOnlyByCallbackStopOrRetry'
  <2>1. \A e \in 1 .. produced : Sent(e)' \/ e \in overlapped \/ e \in discarded
    BY <1>2 DEF Inv, Flow, LostOnlyByCallbackStopOrRetry, Queued
  <2> QED BY <1>3, <2>1 DEF LostOnlyByCallbackStopOrRetry
<1>8. SentTwiceOnlyIfUncleared'
  BY <1>2, <1>5 DEF SentTwiceOnlyIfUncleared, SentIn
<1> QED BY <1>2, <1>4, <1>6, <1>7, <1>8 DEF Flow

(* The batch is sent and stays in the list until the callback returns. *)
LEMMA SendAndCallKeepsFlow ==
  ASSUME Inv, HandOver, batch # <<>>, UNCHANGED <<alive, batch, produced, overlapped, discarded>>,
         NEW t \in Threads, in_callback' = in_callback \cup {t}
  PROVE  Flow'
<1>1. /\ DOMAIN collections' = DOMAIN collections \cup {Len(collections) + 1}
      /\ \A i \in DOMAIN collections : collections'[i] = collections[i]
      /\ collections'[Len(collections) + 1].payload = batch
      /\ message_counter' = Len(collections')
      /\ \A e : Sent(e)' <=> Sent(e) \/ e \in Elements(batch)
      /\ SentWasProduced /\ Elements(batch) \subseteq 1 .. produced
      /\ CollectionsAreRuns'
      /\ \A i, j \in DOMAIN collections' : \A e \in 1 .. produced :
           i # j /\ SentIn(e, i)' /\ SentIn(e, j)' => e \in uncleared'
  BY HandOverSendsBatch
<1>2. StoppedListIsEmpty' /\ BatchIsNewest'
  BY DEF Inv, Flow, StoppedListIsEmpty, BatchIsNewest
<1>3. CallbackHasBatch' /\ QueuedIsUnsent'
  BY <1>1 DEF CallbackHasBatch, QueuedIsUnsent
<1>4. SentWasProduced'
  BY <1>1 DEF SentWasProduced
<1>5. LostOnlyByCallbackStopOrRetry'
  BY <1>1 DEF Inv, Flow, LostOnlyByCallbackStopOrRetry, Queued
<1>6. SentTwiceOnlyIfUncleared'
  BY <1>1 DEF SentTwiceOnlyIfUncleared
<1> QED BY <1>1, <1>2, <1>3, <1>4, <1>5, <1>6 DEF Flow

(* The list is emptied and nothing is sent: what was in it has its excuse. *)
LEMMA EmptyKeepsFlow ==
  ASSUME Inv, batch' = <<>>, UNCHANGED <<message_counter, produced, collections,
                                         overlapped, uncleared>>,
         in_callback' \subseteq in_callback, discarded \subseteq discarded',
         \A e \in Elements(batch) : Sent(e) \/ e \in overlapped \/ e \in discarded'
  PROVE  Flow'
<1>1. Len(batch') = 0 /\ DOMAIN batch' = {} /\ Elements(batch') = {}
  BY EmptyBatch
<1>2. \A e : Sent(e)' <=> Sent(e)
  BY DEF Sent, SentIn
<1>3. StoppedListIsEmpty' /\ BatchIsNewest' /\ CallbackHasBatch' /\ QueuedIsUnsent'
  BY <1>1, VariablesAreTyped
    DEF Inv, StoppedListIsEmpty, BatchIsNewest, CallbackHasBatch, QueuedIsUnsent
<1>4. LostOnlyByCallbackStopOrRetry'
  BY <1>2 DEF Inv, Flow, LostOnlyByCallbackStopOrRetry, Queued
<1>5. SentWasProduced' /\ SentTwiceOnlyIfUncleared' /\ CollectionsAreRuns'
      /\ message_counter' = Len(collections')
  BY DEF Inv, Flow, SentWasProduced, SentTwiceOnlyIfUncleared, SentIn, CollectionsAreRuns
<1> QED BY <1>3, <1>4, <1>5 DEF Flow

-----------------------------------------------------------------------------
(* The actions that make, send or discard events. *)
LEMMA ProduceEventKeepsInv == Inv /\ ProduceEvent => Inv'
<1> SUFFICES ASSUME Inv, ProduceEvent PROVE Inv'
  OBVIOUS
<1>1. /\ send_message
      /\ UNCHANGED <<in_callback, message_counter, collections, discarded, uncleared>>
      /\ UNCHANGED <<sampling_job, sampling_profiler_enabled, publish_callback,
                     test_mode_enabled, wedged>>
      /\ UNCHANGED ServerState
  BY DEF ProduceEvent
<1>2. /\ Flow' /\ alive' = alive /\ batch' \in Seq(Events)
      /\ produced' \in 0 .. MaxEvents /\ overlapped' \subseteq Events
      /\ publish_jobs' \in 0 .. MaxJobs
  BY <1>1, SendMessageKeepsFlow
<1>3. TypeOK'
  BY <1>1, <1>2 DEF Inv, TypeOK, List!TypeOK, Events, ServerState
<1> QED BY <1>2, <1>3 DEF Inv

LEMMA RunSamplingJobKeepsInv ==
  ASSUME Inv, NEW t \in Threads, RunSamplingJob(t)
  PROVE  Inv'
<1>1. /\ sampling_job' = FALSE
      /\ UNCHANGED <<in_callback, message_counter, collections, discarded, uncleared>>
      /\ UNCHANGED <<sampling_profiler_enabled, publish_callback, test_mode_enabled>>
      /\ UNCHANGED ServerState
  BY DEF RunSamplingJob
<1>2. CASE alive
  <2>1. send_message /\ UNCHANGED wedged
    BY <1>2 DEF RunSamplingJob
  <2>2. /\ Flow' /\ alive' = alive /\ batch' \in Seq(Events)
        /\ produced' \in 0 .. MaxEvents /\ overlapped' \subseteq Events
        /\ publish_jobs' \in 0 .. MaxJobs
    BY <1>1, <2>1, SendMessageKeepsFlow
  <2>3. TypeOK'
    BY <1>1, <2>1, <2>2 DEF Inv, TypeOK, List!TypeOK, Events, ServerState
  <2> QED BY <2>2, <2>3 DEF Inv
<1>3. CASE ~alive
  <2>1. wedged' = TRUE /\ UNCHANGED <<alive, batch, publish_jobs, produced, overlapped>>
    BY <1>3 DEF RunSamplingJob
  <2>2. Flow'
    BY <1>1, <2>1, CoreUnchangedKeepsFlow DEF Core, Inv
  <2>3. TypeOK'
    BY <1>1, <2>1 DEF Inv, TypeOK, List!TypeOK, ServerState
  <2> QED BY <2>2, <2>3 DEF Inv
<1> QED BY <1>2, <1>3

LEMMA RunPublishJobKeepsInv ==
  ASSUME Inv, NEW t \in Threads, RunPublishJob(t)
  PROVE  Inv'
<1>1. /\ publish_jobs > 0 /\ publish_jobs' = publish_jobs - 1
      /\ UNCHANGED <<sampling_job, sampling_profiler_enabled, publish_callback,
                     test_mode_enabled, wedged, produced, overlapped, discarded>>
      /\ UNCHANGED ServerState
  BY DEF RunPublishJob
<1>2. publish_jobs' \in 0 .. MaxJobs
  BY <1>1 DEF Inv, TypeOK
<1>3. CASE batch = <<>>
  <2>1. /\ UNCHANGED <<message_counter, collections, uncleared, in_callback>>
        /\ List!Clear
    BY <1>3 DEF RunPublishJob
  <2>2. UNCHANGED <<alive, batch>>
    BY <1>3, <2>1 DEF List!Clear
  <2>3. Flow'
    BY <1>1, <2>1, <2>2, CoreUnchangedKeepsFlow DEF Core, Inv
  <2>4. TypeOK'
    BY <1>1, <1>2, <2>1, <2>2 DEF Inv, TypeOK, List!TypeOK, ServerState
  <2> QED BY <2>3, <2>4 DEF Inv
<1>4. CASE batch # <<>>
  <2>1. HandOver
    BY <1>4 DEF RunPublishJob
  <2>2. /\ collections' \in Seq(Collection) /\ message_counter' \in Nat
        /\ uncleared' \subseteq Events
    BY <1>4, <2>1, HandOverSendsBatch
  <2>3. CASE publish_callback
    <3>1. in_callback' = in_callback \cup {t} /\ UNCHANGED <<alive, batch>>
      BY <1>4, <2>3 DEF RunPublishJob
    <3>2. Flow'
      BY <1>1, <1>4, <2>1, <3>1, SendAndCallKeepsFlow
    <3>3. TypeOK'
      BY <1>1, <1>2, <2>2, <3>1 DEF Inv, TypeOK, List!TypeOK, Collection, ServerState
    <3> QED BY <3>2, <3>3 DEF Inv
  <2>4. CASE ~publish_callback
    <3>1. List!Clear /\ UNCHANGED in_callback
      BY <2>4 DEF RunPublishJob
    <3>2. Flow'
      BY <1>1, <1>4, <2>1, <3>1, SendAndClearKeepsFlow
    <3>3. batch' \in Seq(Events) /\ alive' = alive
      BY <3>1, EmptyBatch DEF List!Clear
    <3>4. TypeOK'
      BY <1>1, <1>2, <2>2, <3>1, <3>3
        DEF Inv, TypeOK, List!TypeOK, Collection, Events, ServerState
    <3> QED BY <3>2, <3>4 DEF Inv
  <2> QED BY <2>3, <2>4
<1> QED BY <1>3, <1>4

LEMMA GetQueuedMessagesKeepsInv == Inv /\ get_queued_messages => Inv'
<1> SUFFICES ASSUME Inv, get_queued_messages PROVE Inv'
  OBVIOUS
<1>1. /\ batch # <<>> /\ HandOver /\ List!Clear
      /\ \/ UNCHANGED <<produced, overlapped>>
         \/ /\ produced < MaxEvents
            /\ produced' = produced + 1
            /\ overlapped' = overlapped \cup {produced + 1}
      /\ UNCHANGED <<publish_jobs, sampling_job, sampling_profiler_enabled,
                     publish_callback, test_mode_enabled, in_callback, wedged,
                     discarded>>
      /\ UNCHANGED ServerState
  BY DEF get_queued_messages
<1>2. /\ collections' \in Seq(Collection) /\ message_counter' \in Nat
      /\ uncleared' \subseteq Events
  BY <1>1, HandOverSendsBatch
<1>3. Flow'
  BY <1>1, SendAndClearKeepsFlow
<1>4. batch' \in Seq(Events) /\ alive' = alive
  BY <1>1, EmptyBatch DEF List!Clear
<1>5. produced' \in 0 .. MaxEvents /\ overlapped' \subseteq Events
  <2>1. produced \in 0 .. MaxEvents /\ overlapped \subseteq Events
    BY DEF Inv, TypeOK
  <2>2. CASE produced' = produced + 1 /\ produced < MaxEvents
    <3>1. produced + 1 \in Events /\ produced + 1 \in 0 .. MaxEvents
      BY <2>1, <2>2 DEF Events
    <3> QED BY <1>1, <2>1, <2>2, <3>1
  <2> QED BY <1>1, <2>1, <2>2
<1>6. TypeOK'
  BY <1>1, <1>2, <1>4, <1>5 DEF Inv, TypeOK, List!TypeOK, Collection, Events, ServerState
<1> QED BY <1>3, <1>6 DEF Inv

LEMMA CallbackReturnsKeepsInv ==
  ASSUME Inv, NEW t \in Threads, CallbackReturns(t)
  PROVE  Inv'
<1>1. /\ t \in in_callback /\ in_callback' = in_callback \ {t}
      /\ batch' = <<>> /\ UNCHANGED alive
      /\ UNCHANGED <<publish_jobs, sampling_job, sampling_profiler_enabled,
                     publish_callback, test_mode_enabled, message_counter, wedged,
                     produced, collections, overlapped, discarded, uncleared>>
      /\ UNCHANGED ServerState
  BY DEF CallbackReturns, List!Clear
<1>2. \A e \in Elements(batch) : Sent(e) \/ e \in overlapped
  BY <1>1 DEF Inv, Flow, CallbackHasBatch
<1>3. Flow'
  BY <1>1, <1>2, EmptyKeepsFlow
<1>4. TypeOK'
  BY <1>1, EmptyBatch DEF Inv, TypeOK, List!TypeOK, Events, ServerState
<1> QED BY <1>3, <1>4 DEF Inv

LEMMA CallbackRaisesKeepsInv ==
  ASSUME Inv, NEW t \in Threads, CallbackRaises(t)
  PROVE  Inv'
<1>1. /\ t \in in_callback /\ in_callback' = in_callback \ {t}
      /\ uncleared' = uncleared \cup Elements(batch)
      /\ UNCHANGED <<alive, batch, publish_jobs, sampling_job,
                     sampling_profiler_enabled, publish_callback,
                     test_mode_enabled, message_counter, wedged, produced,
                     collections, overlapped, discarded>>
      /\ UNCHANGED ServerState
  BY DEF CallbackRaises
<1>2. \A e : Sent(e)' <=> Sent(e)
  BY <1>1 DEF Sent, SentIn
<1>3. QueuedIsUnsent' /\ CallbackHasBatch'
  BY <1>1, <1>2 DEF Inv, Flow, QueuedIsUnsent, CallbackHasBatch
<1>4. Flow'
  BY <1>1, <1>2, <1>3 DEF Inv, Flow, StoppedListIsEmpty, BatchIsNewest, SentWasProduced,
    LostOnlyByCallbackStopOrRetry, Queued, SentTwiceOnlyIfUncleared, SentIn, CollectionsAreRuns
<1>5. TypeOK'
  BY <1>1, VariablesAreTyped DEF Inv, TypeOK, List!TypeOK, ServerState
<1> QED BY <1>4, <1>5 DEF Inv

LEMMA StopServerKeepsInv == Inv /\ StopServer => Inv'
<1> SUFFICES ASSUME Inv, StopServer PROVE Inv'
  OBVIOUS
<1>1. /\ alive' = FALSE /\ batch' = <<>> /\ sampling_profiler_enabled' = FALSE
      /\ discarded' = discarded \cup Elements(batch)
      /\ UNCHANGED <<publish_jobs, sampling_job, test_mode_enabled, in_callback,
                     message_counter, wedged, produced, collections, overlapped,
                     uncleared>>
  BY DEF StopServer, List!Destroy
<1>2. /\ server' \in {"nil", "stopped"} /\ server_running' = FALSE /\ dispatching' = FALSE
      /\ publish_callback' = FALSE \/ publish_callback' = publish_callback
  BY DEF StopServer, ServerAfterStop
<1>3. Flow'
  BY <1>1, EmptyKeepsFlow
<1>4. TypeOK'
  BY <1>1, <1>2, EmptyBatch, VariablesAreTyped DEF Inv, TypeOK, List!TypeOK, Events
<1> QED BY <1>3, <1>4 DEF Inv

LEMMA StartServerKeepsInv == Inv /\ StartServer => Inv'
<1> SUFFICES ASSUME Inv, StartServer PROVE Inv'
  OBVIOUS
<1>1. /\ alive' = TRUE /\ batch' = <<>>
      /\ discarded' = discarded \cup Elements(batch)
      /\ UNCHANGED <<publish_jobs, sampling_job, sampling_profiler_enabled,
                     publish_callback, test_mode_enabled, in_callback,
                     message_counter, wedged, produced, collections, overlapped,
                     uncleared>>
  BY DEF StartServer, List!New
<1>2. /\ server' = "fresh" \/ server' = server
      /\ \/ server_running' = TRUE /\ dispatching' = (server' = "fresh")
         \/ UNCHANGED <<server_running, dispatching>>
  BY DEF StartServer
<1>3. Flow'
  BY <1>1, EmptyKeepsFlow
<1>4. server' \in {"nil", "fresh", "stopped"} /\ server_running' \in BOOLEAN
  BY <1>2 DEF Inv, TypeOK
<1>5. dispatching' \in BOOLEAN
  BY <1>2 DEF Inv, TypeOK
<1>6. TypeOK'
  BY <1>1, <1>4, <1>5, EmptyBatch, VariablesAreTyped DEF Inv, TypeOK, List!TypeOK, Events
<1> QED BY <1>3, <1>6 DEF Inv

(* The other actions leave the list and what was sent alone. *)
Switch ==
  \/ DispatchTick
  \/ start_sampling_profiler
  \/ stop_sampling_profiler
  \/ SamplingSignal
  \/ DispatchThreadFails
  \/ SetPublishCallback
  \/ SwitchTestMode
  \/ UNCHANGED vars

LEMMA SwitchKeepsInv == Inv /\ Switch => Inv'
<1> SUFFICES ASSUME Inv, Switch PROVE Inv'
  OBVIOUS
<1> USE DEF Switch, DispatchTick, start_sampling_profiler, stop_sampling_profiler,
      SamplingSignal, DispatchThreadFails, SetPublishCallback, SwitchTestMode,
      ServerState, vars
<1>1. UNCHANGED Core
  BY DEF Core
<1>2. Flow'
  BY <1>1, CoreUnchangedKeepsFlow DEF Inv
<1>3. send_messages \/ UNCHANGED publish_jobs
  OBVIOUS
<1>4. publish_jobs' \in 0 .. MaxJobs
  BY <1>3, JobsAreBounded DEF Inv
<1>5. /\ sampling_job' \in BOOLEAN /\ sampling_profiler_enabled' \in BOOLEAN
      /\ publish_callback' \in BOOLEAN /\ test_mode_enabled' \in BOOLEAN
      /\ wedged' \in BOOLEAN
  <2>1. /\ sampling_job \in BOOLEAN /\ sampling_profiler_enabled \in BOOLEAN
        /\ publish_callback \in BOOLEAN /\ test_mode_enabled \in BOOLEAN
        /\ wedged \in BOOLEAN
    BY DEF Inv, TypeOK
  <2>2. /\ sampling_profiler_enabled' \in {TRUE, FALSE, sampling_profiler_enabled}
        /\ publish_callback' \in {publish_callback, ~publish_callback}
        /\ test_mode_enabled' \in {test_mode_enabled, ~test_mode_enabled}
        /\ UNCHANGED wedged
    OBVIOUS
  <2>3. sampling_job' = (publish_jobs < MaxJobs) \/ UNCHANGED sampling_job
    OBVIOUS
  <2>4. sampling_job' \in BOOLEAN
    BY <2>1, <2>3
  <2>5. /\ sampling_profiler_enabled' \in BOOLEAN /\ publish_callback' \in BOOLEAN
        /\ test_mode_enabled' \in BOOLEAN /\ wedged' \in BOOLEAN
    BY <2>1, <2>2
  <2> QED BY <2>4, <2>5
<1>6. /\ server' = server /\ server_running' = server_running
      /\ dispatching' = FALSE \/ dispatching' = dispatching
  OBVIOUS
<1>7. TypeOK'
  BY <1>1, <1>4, <1>5, <1>6 DEF Core, Inv, TypeOK, List!TypeOK
<1> QED BY <1>2, <1>7 DEF Inv

LEMMA NextKeepsInv == Inv /\ [Next]_vars => Inv'
<1> SUFFICES ASSUME Inv, [Next]_vars PROVE Inv'
  OBVIOUS
<1>1. CASE ProduceEvent
  BY <1>1, ProduceEventKeepsInv
<1>2. CASE \E t \in Threads : RunPublishJob(t)
  BY <1>2, RunPublishJobKeepsInv
<1>3. CASE \E t \in Threads : CallbackReturns(t)
  BY <1>3, CallbackReturnsKeepsInv
<1>4. CASE \E t \in Threads : CallbackRaises(t)
  BY <1>4, CallbackRaisesKeepsInv
<1>5. CASE \E t \in Threads : RunSamplingJob(t)
  BY <1>5, RunSamplingJobKeepsInv
<1>6. CASE StartServer
  BY <1>6, StartServerKeepsInv
<1>7. CASE StopServer
  BY <1>7, StopServerKeepsInv
<1>8. CASE get_queued_messages
  BY <1>8, GetQueuedMessagesKeepsInv
<1>9. CASE Switch
  BY <1>9, SwitchKeepsInv
<1> QED
  BY <1>1, <1>2, <1>3, <1>4, <1>5, <1>6, <1>7, <1>8, <1>9 DEF Next, Switch

LEMMA AlwaysInv == Spec => []Inv
<1> QED BY InitHasInv, NextKeepsInv, PTL DEF Spec

-----------------------------------------------------------------------------
(* The variables keep their types: the postponed-job buffer never holds    *)
(* more than its size, and nothing but produced events is ever queued.     *)
THEOREM TypeCorrect == Spec => []TypeOK
<1>1. Inv => TypeOK
  BY DEF Inv
<1> QED BY <1>1, AlwaysInv, PTL

(* Whatever jobs, callbacks, signals, restarts and tests come between: an  *)
(* event that is neither queued nor sent was queued during a callback, or  *)
(* was waiting when the server was stopped or, its start having raised,    *)
(* started over.                                                           *)
THEOREM EventsAreLostOnlyByCallbackStopOrRetry == Spec => []LostOnlyByCallbackStopOrRetry
<1>1. Inv => LostOnlyByCallbackStopOrRetry
  BY DEF Inv, Flow
<1> QED BY <1>1, AlwaysInv, PTL

(* trigger_publish_callback sends an event again only if a callback raised *)
(* over it or another reader found it in the list during a callback.       *)
THEOREM EventsAreSentTwiceOnlyIfUncleared == Spec => []SentTwiceOnlyIfUncleared
<1>1. Inv => SentTwiceOnlyIfUncleared
  BY DEF Inv, Flow
<1> QED BY <1>1, AlwaysInv, PTL

(* What get_event_collection_message makes is never empty, is numbered     *)
(* without a gap, and is a gapless run of events, across any restarts.     *)
THEOREM EveryCollectionIsARun == Spec => []CollectionsAreRuns
<1>1. Inv => CollectionsAreRuns
  BY DEF Inv, Flow
<1> QED BY <1>1, AlwaysInv, PTL

(* A publish job that outlives the server finds the list empty and sends   *)
(* nothing.                                                                *)
THEOREM StoppedServerSendsNothing == Spec => NothingSentWhenStopped
<1>1. Inv /\ [Next]_vars => [collections' # collections => alive]_vars
  <2> SUFFICES ASSUME Inv, [Next]_vars, collections' # collections
               PROVE  alive
    OBVIOUS
  <2>1. (\E t \in Threads : RunPublishJob(t)) \/ get_queued_messages
    BY DEF Next, vars, ProduceEvent, DispatchTick, CallbackReturns, CallbackRaises,
      start_sampling_profiler, stop_sampling_profiler, SamplingSignal, RunSamplingJob,
      StartServer, StopServer, DispatchThreadFails, SetPublishCallback, SwitchTestMode
  <2>2. batch # <<>>
    BY <2>1 DEF RunPublishJob, get_queued_messages
  <2> QED BY <2>2 DEF Inv, Flow, StoppedListIsEmpty
<1> QED BY <1>1, AlwaysInv, PTL DEF Spec, NothingSentWhenStopped

-----------------------------------------------------------------------------
(* Without callbacks and test mode: the refinement of EventStream.         *)
NoCallback == ~publish_callback /\ in_callback = {}

LEMMA NeverCallback ==
  ASSUME ~Callbacks
  PROVE  Spec => []NoCallback
<1>1. Init => NoCallback
  BY DEF Init, NoCallback
<1>2. NoCallback /\ [Next]_vars => NoCallback'
  <2> SUFFICES ASSUME NoCallback, [Next]_vars PROVE NoCallback'
    OBVIOUS
  <2>1. CASE \E t \in Threads : RunPublishJob(t)
    BY <2>1 DEF RunPublishJob, NoCallback
  <2>2. CASE (\E t \in Threads : CallbackReturns(t)) \/ (\E t \in Threads : CallbackRaises(t))
    BY <2>2 DEF CallbackReturns, CallbackRaises, NoCallback
  <2>3. CASE StartServer \/ StopServer
    BY <2>3 DEF StartServer, StopServer, ServerAfterStop, NoCallback
  <2> QED
    BY <2>1, <2>2, <2>3 DEF Next, vars, ProduceEvent, DispatchTick,
      start_sampling_profiler, stop_sampling_profiler, SamplingSignal, RunSamplingJob,
      DispatchThreadFails, SetPublishCallback, SwitchTestMode, get_queued_messages,
      NoCallback
<1> QED BY <1>1, <1>2, PTL DEF Spec

PayloadsOf(c) == [i \in DOMAIN c |-> c[i].payload]

LEMMA PayloadsAreTyped ==
  ASSUME NEW c \in Seq(Collection)
  PROVE  /\ PayloadsOf(c) \in Seq(Seq(Events))
         /\ Len(PayloadsOf(c)) = Len(c) /\ Len(c) \in Nat
         /\ DOMAIN c = 1 .. Len(c)
<1>1. Len(c) \in Nat /\ DOMAIN c = 1 .. Len(c)
  BY LenProperties
<1>2. \A i \in 1 .. Len(c) : c[i] \in Collection
  BY ElementOfSeq
<1>3. PayloadsOf(c) \in [1 .. Len(c) -> Seq(Events)]
  BY <1>1, <1>2 DEF PayloadsOf, Collection
<1> QED BY <1>1, <1>3, LenProperties

(* Handing over the batch is delivering what is pending. *)
LEMMA HandOverDelivers ==
  ASSUME Inv, HandOver, batch # <<>>
  PROVE  Delivered' = Delivered \o batch
<1>1. /\ DOMAIN collections' = DOMAIN collections \cup {Len(collections) + 1}
      /\ \A i \in DOMAIN collections : collections'[i] = collections[i]
      /\ collections'[Len(collections) + 1].payload = batch
  BY HandOverSendsBatch
<1> DEFINE now == PayloadsOf(collections)
           then == PayloadsOf(collections')
<1>2. /\ now \in Seq(Seq(Events)) /\ batch \in Seq(Events)
      /\ Len(now) = Len(collections) /\ Len(collections) \in Nat
      /\ DOMAIN collections = 1 .. Len(collections)
  BY PayloadsAreTyped, VariablesAreTyped DEF Inv
<1>3. /\ then \in Seq(Seq(Events)) /\ Len(then) = Len(collections')
  BY PayloadsAreTyped, HandOverSendsBatch
<1>4. Len(collections') = Len(collections) + 1
  BY HandOverSendsBatch
<1> DEFINE longer == Append(now, batch)
<1>5. /\ longer \in Seq(Seq(Events)) /\ Len(longer) = Len(now) + 1
      /\ \A i \in 1 .. Len(now) : longer[i] = now[i]
      /\ longer[Len(now) + 1] = batch
  BY <1>2, AppendProperties
<1>6. ASSUME NEW i \in 1 .. Len(collections) + 1 PROVE then[i] = longer[i]
  <2>1. then[i] = collections'[i].payload
    BY <1>1, <1>2 DEF PayloadsOf
  <2>2. CASE i \in DOMAIN collections
    BY <1>1, <1>2, <1>5, <2>1, <2>2 DEF PayloadsOf
  <2>3. CASE i = Len(collections) + 1
    BY <1>1, <1>2, <1>5, <2>1, <2>3
  <2> QED BY <1>2, <2>2, <2>3
<1>7. then = longer
  <2> HIDE DEF longer
  <2> QED BY <1>2, <1>3, <1>4, <1>5, <1>6, SeqEqual
<1>8. FlattenSeq(longer) = FlattenSeq(now) \o batch
  BY <1>2, FlattenAppend
<1>9. Delivered = FlattenSeq(now) /\ Delivered' = FlattenSeq(then)
  BY DEF Delivered, PayloadsOf
<1> QED BY <1>7, <1>8, <1>9

LEMMA InitIsStreamInit == Init => Stream!Init
<1> SUFFICES ASSUME Init PROVE Stream!Init
  OBVIOUS
<1>1. /\ alive = FALSE /\ server_running = FALSE
      /\ batch = <<>> /\ produced = 0 /\ collections = <<>>
  BY DEF Init, List!Init
<1>2. collections \in Seq(Collection) /\ Len(collections) = 0
  BY <1>1, EmptySeq
<1>3. /\ PayloadsOf(collections) \in Seq(Seq(Events))
      /\ Len(PayloadsOf(collections)) = 0
  BY <1>2, PayloadsAreTyped
<1>4. PayloadsOf(collections) = <<>>
  BY <1>3, EmptySeq
<1>5. FlattenSeq(PayloadsOf(collections)) = <<>>
  BY <1>3, <1>4, FlattenIsLastPrefix
<1> QED BY <1>1, <1>5 DEF Stream!Init, Delivered, PayloadsOf

LEMMA StepIsStreamStep ==
  ASSUME ~TestMode, Inv, NoCallback, [Next]_vars
  PROVE  [Stream!Next]_(Stream!vars)
<1>1. alive \in BOOLEAN /\ (~alive => batch = <<>>)
  BY VariablesAreTyped DEF Inv, Flow, StoppedListIsEmpty
<1>2. collections' = collections => Delivered' = Delivered
  BY DEF Delivered
<1>3. ASSUME send_message, UNCHANGED <<collections, server_running>>
      PROVE  Stream!Accept
  BY <1>2, <1>3 DEF send_message, List!Queue, Stream!Accept
<1>4. CASE ProduceEvent
  BY <1>3, <1>4 DEF ProduceEvent, ServerState, Stream!Next
<1>5. CASE \E t \in Threads : RunSamplingJob(t)
  <2>1. UNCHANGED <<collections, server_running>>
    BY <1>5 DEF RunSamplingJob, ServerState
  <2>2. send_message \/ UNCHANGED <<alive, batch, produced>>
    BY <1>5 DEF RunSamplingJob
  <2> QED BY <1>2, <1>3, <2>1, <2>2 DEF Stream!Next, Stream!vars
<1>6. CASE \E t \in Threads : RunPublishJob(t)
  <2>1. /\ List!Clear /\ UNCHANGED <<produced, server_running>>
        /\ batch = <<>> => UNCHANGED collections
        /\ batch # <<>> => HandOver
    BY <1>6 DEF RunPublishJob, ServerState, NoCallback
  <2>2. CASE batch = <<>>
    BY <1>2, <2>1, <2>2 DEF List!Clear, Stream!vars
  <2>3. CASE batch # <<>>
    BY <1>1, <2>1, <2>3, HandOverDelivers DEF List!Clear, Stream!Next, Stream!Deliver
  <2> QED BY <2>2, <2>3
<1>7. CASE StartServer
  <2>1. server_running' \in BOOLEAN
    BY <1>7, StartServerKeepsInv DEF Inv, TypeOK
  <2> QED BY <1>2, <1>7, <2>1 DEF StartServer, List!New, Stream!Next, Stream!Open
<1>8. CASE StopServer
  BY <1>2, <1>8 DEF StopServer, List!Destroy, Stream!Next, Stream!Close
<1>9. CASE Switch
  BY <1>2, <1>9 DEF Switch, DispatchTick, start_sampling_profiler, stop_sampling_profiler,
    SamplingSignal, DispatchThreadFails, SetPublishCallback, SwitchTestMode,
    ServerState, vars, Stream!vars
<1>10. /\ \A t \in Threads : ~CallbackReturns(t) /\ ~CallbackRaises(t)
       /\ ~get_queued_messages
  BY DEF NoCallback, CallbackReturns, CallbackRaises, get_queued_messages
<1> QED
  BY <1>4, <1>5, <1>6, <1>7, <1>8, <1>9, <1>10 DEF Next, Switch

(* Without publish callbacks and test mode, for any threads, batch size    *)
(* and job buffer, the pipeline is an EventStream: every event reaches the *)
(* client at most once and in order, and while the server runs only        *)
(* stopping it discards one.                                               *)
THEOREM PipelineImplementsStream ==
  ASSUME ~Callbacks, ~TestMode
  PROVE  Spec => ImplementsEventStream
<1>1. Init => Stream!Init
  BY InitIsStreamInit
<1>2. Inv /\ NoCallback /\ [Next]_vars => [Stream!Next]_(Stream!vars)
  BY StepIsStreamStep
<1>3. Spec => []NoCallback
  BY NeverCallback
<1> QED
  BY <1>1, <1>2, <1>3, AlwaysInv, PTL DEF Spec, ImplementsEventStream, Stream!Spec
=============================================================================
